---------------------------- MODULE LegacyProofs ----------------------------
(***************************************************************************)
(* Theorems about the parts of the v1 server and its SDK that MCOutside    *)
(* runs side by side: the lock, the error replies, the worker process, the *)
(* bulk insertion, tokens and sessions, sockets, the SDK, Vault, the       *)
(* limits of requests and of tools, and the guard against replays.         *)
(***************************************************************************)
EXTENDS MCOutside, Sequences, FiniteSetTheorems, SequenceTheorems, WellFoundedInduction,
        TLAPS
-----------------------------------------------------------------------------
\* Nothing but its own steps moves a part.
LEMMA LegacySteps ==
  ASSUME [Next]_all
  PROVE  /\ [Lock!Next]_lockVars
         /\ [Service!Next]_tokenVars
         /\ [Session!Next]_sessionVars
         /\ [Manager!Next]_managerVars
         /\ [Replies!Next]_replyVars
         /\ [Bulk!Next]_bulkVars
         /\ [Worker!Next]_processVars
         /\ [Sdk!Next]_clientVars
         /\ [Vault!Next]_vaultVars
         /\ [Limiter!Next]_limitVars
         /\ [Ai!Next]_toolVars
         /\ [Guard!Next]_guardVars
<1>1. [Lock!Next]_lockVars
  BY DEF Next, all, redis, Lock!lockVars, LockStep, TokenStep, LimiterStep, SessionStep,
         SocketStep, ContainerStep, ToolStep, GuardStep, ReplyStep, BulkStep, ReleaseStep,
         WorkerStep, SdkStep, AccessStep, VaultStep, JournalStep, GateStep, LabStep,
         lockVars
<1>2. [Service!Next]_tokenVars
  BY DEF Next, all, redis, LockStep, TokenStep, LimiterStep, SessionStep, SocketStep,
         ContainerStep, ToolStep, GuardStep, ReplyStep, BulkStep, ReleaseStep, WorkerStep,
         SdkStep, AccessStep, VaultStep, JournalStep, GateStep, LabStep, tokenVars
<1>3. [Session!Next]_sessionVars
  BY DEF Next, all, redis, LockStep, TokenStep, LimiterStep, SessionStep, SocketStep,
         ContainerStep, ToolStep, GuardStep, ReplyStep, BulkStep, ReleaseStep, WorkerStep,
         SdkStep, AccessStep, VaultStep, JournalStep, GateStep, LabStep, sessionVars
<1>4. [Manager!Next]_managerVars
  BY DEF Next, all, work, LockStep, TokenStep, LimiterStep, SessionStep, SocketStep,
         ContainerStep, ToolStep, GuardStep, ReplyStep, BulkStep, ReleaseStep, WorkerStep,
         SdkStep, AccessStep, VaultStep, JournalStep, GateStep, LabStep, managerVars
<1>5. [Replies!Next]_replyVars
  BY DEF Next, all, work, LockStep, TokenStep, LimiterStep, SessionStep, SocketStep,
         ContainerStep, ToolStep, GuardStep, ReplyStep, BulkStep, ReleaseStep, WorkerStep,
         SdkStep, AccessStep, VaultStep, JournalStep, GateStep, LabStep, replyVars
<1>6. [Bulk!Next]_bulkVars
  BY DEF Next, all, work, LockStep, TokenStep, LimiterStep, SessionStep, SocketStep,
         ContainerStep, ToolStep, GuardStep, ReplyStep, BulkStep, ReleaseStep, WorkerStep,
         SdkStep, AccessStep, VaultStep, JournalStep, GateStep, LabStep, bulkVars
<1>7. [Worker!Next]_processVars
  BY DEF Next, all, hosts, LockStep, TokenStep, LimiterStep, SessionStep, SocketStep,
         ContainerStep, ToolStep, GuardStep, ReplyStep, BulkStep, ReleaseStep, WorkerStep,
         SdkStep, AccessStep, VaultStep, JournalStep, GateStep, LabStep, processVars
<1>8. [Sdk!Next]_clientVars
  BY DEF Next, all, hosts, LockStep, TokenStep, LimiterStep, SessionStep, SocketStep,
         ContainerStep, ToolStep, GuardStep, ReplyStep, BulkStep, ReleaseStep, WorkerStep,
         SdkStep, AccessStep, VaultStep, JournalStep, GateStep, LabStep, clientVars
<1>9. [Vault!Next]_vaultVars
  BY DEF Next, all, hosts, LockStep, TokenStep, LimiterStep, SessionStep, SocketStep,
         ContainerStep, ToolStep, GuardStep, ReplyStep, BulkStep, ReleaseStep, WorkerStep,
         SdkStep, AccessStep, VaultStep, JournalStep, GateStep, LabStep, vaultVars
<1>10. [Limiter!Next]_limitVars
  BY DEF Next, all, redis, LockStep, TokenStep, LimiterStep, SessionStep, SocketStep,
         ContainerStep, ToolStep, GuardStep, ReplyStep, BulkStep, ReleaseStep, WorkerStep,
         SdkStep, AccessStep, VaultStep, JournalStep, GateStep, LabStep, limitVars
<1>11. [Ai!Next]_toolVars
  BY DEF Next, all, work, LockStep, TokenStep, LimiterStep, SessionStep, SocketStep,
         ContainerStep, ToolStep, GuardStep, ReplyStep, BulkStep, ReleaseStep, WorkerStep,
         SdkStep, AccessStep, VaultStep, JournalStep, GateStep, LabStep, toolVars
<1>12. [Guard!Next]_guardVars
  BY DEF Next, all, work, LockStep, TokenStep, LimiterStep, SessionStep, SocketStep,
         ContainerStep, ToolStep, GuardStep, ReplyStep, BulkStep, ReleaseStep, WorkerStep,
         SdkStep, AccessStep, VaultStep, JournalStep, GateStep, LabStep, guardVars
<1> QED
  BY <1>1, <1>2, <1>3, <1>4, <1>5, <1>6, <1>7, <1>8, <1>9, <1>10, <1>11, <1>12
-----------------------------------------------------------------------------
(***************************************************************************)
(* The lock                                                                *)
(***************************************************************************)
LockInv ==
  /\ stored \in {None} \cup (Clients \X BOOLEAN)
  /\ ttl \in Nat /\ (stored = None <=> ttl = 0)
  /\ turn \in [Clients -> BOOLEAN]
  /\ command \in [Clients -> {None} \cup Lock!Commands]
  /\ attempts \in [Clients -> 0..MaxRetries]
  /\ \A c \in Clients : command[c] = Lock!Set => attempts[c] < MaxRetries

\* What EXPIRE makes of a time is a time.
LEMMA ExpireTyped ==
  ASSUME NEW new \in NewTtls
  PROVE  Lock!Expire(new) \in Nat
<1>1. new \in Nat /\ PerSecond \in Nat \ {0}
  BY OutsideAssumption
<1>2. new \div PerSecond \in Nat
  BY <1>1
<1> QED
  BY <1>1, <1>2 DEF Lock!Expire

LEMMA LockInit ==
  ASSUME Lock!Init
  PROVE  LockInv
<1>1. None # Lock!Set
  BY NamesAssumption DEF Lock!Commands
<1> QED
  BY <1>1, OutsideAssumption DEF Lock!Init, LockInv

LEMMA LockNext ==
  ASSUME LockInv, [Lock!Next]_lockVars
  PROVE  LockInv' /\ (stored # None /\ stored' # stored =>
          /\ stored' = None
          /\ \/ ttl = 1 \/ Lock!ForceRelease
             \/ \E c \in Clients : stored = Lock!Value(c) /\ Lock!Execute(c))
<1>0. Lock!Set \in Lock!Commands /\ Lock!Release \in Lock!Commands
  BY DEF Lock!Commands
<1>1. ASSUME NEW c \in Clients, Lock!AcquireLock(c) PROVE LockInv' /\ stored' = stored
  BY <1>0, <1>1, OutsideAssumption DEF LockInv, Lock!AcquireLock, Lock!Send
<1>2. ASSUME NEW c \in Clients, Lock!UseLock(c) PROVE LockInv' /\ stored' = stored
  BY <1>2 DEF LockInv, Lock!UseLock, Lock!Send
<1>3. ASSUME NEW c \in Clients, Lock!Execute(c)
      PROVE  LockInv'
             /\ (stored # None /\ stored' # stored =>
                 stored' = None /\ stored = Lock!Value(c))
  <2> DEFINE left == IF command[c].name = "extend" THEN Lock!Expire(command[c].ttl) ELSE Ttl
  <2>1. UNCHANGED <<turn, acquired, command, attempts>>
    BY <1>3 DEF Lock!Execute
  <2>2. command[c] \in Lock!Commands
    BY <1>3 DEF LockInv, Lock!Execute
  <2>3. left \in Nat
    <3>1. CASE command[c].name = "extend"
      <4>1. PICK new \in NewTtls : command[c] = Lock!Extend(new)
        BY <2>2, <3>1 DEF Lock!Commands, Lock!Set, Lock!Release, Lock!Validate
      <4> QED
        BY <3>1, <4>1, ExpireTyped DEF Lock!Extend
    <3> QED
      BY <3>1, OutsideAssumption
  <2>4. Lock!Value(c) \in Clients \X BOOLEAN /\ Lock!Value(c) # None
    BY NamesAssumption DEF LockInv, Lock!Value
  <2>5. \/ Lock!Executes(c) /\ stored' = None /\ ttl' = 0
        \/ Lock!Executes(c) /\ left # 0 /\ stored' = Lock!Value(c) /\ ttl' = left
        \/ UNCHANGED <<stored, ttl>>
    BY <1>3 DEF Lock!Execute
  <2>6. /\ stored' \in {None} \cup (Clients \X BOOLEAN) /\ ttl' \in Nat
        /\ (stored' = None <=> ttl' = 0)
    <3> HIDE DEF left
    <3> QED BY <2>3, <2>4, <2>5 DEF LockInv
  <2>7. LockInv'
    BY <2>1, <2>6 DEF LockInv
  <2>8. stored # None /\ stored' # stored => stored' = None /\ stored = Lock!Value(c)
    BY <2>5 DEF Lock!Executes
  <2> QED
    BY <2>7, <2>8
<1>4. ASSUME NEW c \in Clients, Lock!Fail(c) PROVE LockInv' /\ stored' = stored
  BY <1>4 DEF LockInv, Lock!Fail
<1>5. ASSUME NEW c \in Clients, Lock!Receive(c) PROVE LockInv' /\ stored' = stored
  <2>1. UNCHANGED <<stored, ttl, turn>>
    BY <1>5 DEF Lock!Receive
  <2> DEFINE without == command[c] = Lock!Set /\ reply[c] # "yes"
             again == without /\ attempts[c] + 1 < MaxRetries
  <2>2. attempts' = (IF without THEN [attempts EXCEPT ![c] = @ + 1] ELSE attempts)
        /\ command' = [command EXCEPT ![c] = IF again THEN Lock!Set ELSE None]
    BY <1>5 DEF Lock!Receive, Lock!Send
  <2>3. None # Lock!Set
    BY NamesAssumption DEF Lock!Commands
  <2>4. attempts' \in [Clients -> 0..MaxRetries]
    <3>1. without => attempts[c] + 1 \in 0..MaxRetries
      BY OutsideAssumption DEF LockInv
    <3> QED
      BY <2>2, <3>1 DEF LockInv
  <2>5. command' \in [Clients -> {None} \cup Lock!Commands]
    BY <1>0, <2>2 DEF LockInv
  <2>6. ASSUME NEW d \in Clients, command'[d] = Lock!Set PROVE attempts'[d] < MaxRetries
    BY <2>2, <2>3, <2>6 DEF LockInv
  <2> QED
    BY <2>1, <2>4, <2>5, <2>6 DEF LockInv
<1>6. ASSUME Lock!ForceRelease PROVE LockInv' /\ stored' = None
  BY <1>6 DEF LockInv, Lock!ForceRelease
<1>7. ASSUME Lock!Tick PROVE LockInv' /\ (stored' # stored => stored' = None /\ ttl = 1)
  BY <1>7 DEF LockInv, Lock!Tick
<1>8. ASSUME UNCHANGED lockVars PROVE LockInv' /\ stored' = stored
  BY <1>8 DEF LockInv, lockVars
<1> QED
  BY <1>1, <1>2, <1>3, <1>4, <1>5, <1>6, <1>7, <1>8 DEF Lock!Next

\* For any number of clients, retries and times, and whatever replies are lost or late: a
\* hold of the lock ends only by its holder's own command, by its time or by force
\* (distributed-lock.ts:113-126).
THEOREM HoldersUnlock == Spec => OnlyTheHolderUnlocks
<1>1. Init => LockInv
  BY LockInit DEF Init
<1>2. LockInv /\ [Next]_all => LockInv'
  BY LegacySteps, LockNext
<1>3. LockInv /\ LockInv' /\ [Next]_all =>
        [/\ Lock!TypeOK'
         /\ stored # None /\ stored' # stored =>
              /\ stored' = None
              /\ \/ ttl = 1 \/ Lock!ForceRelease
                 \/ \E c \in Clients : stored = Lock!Value(c)
                    /\ Lock!Execute(c)]_(Lock!lockVars)
  <2>1. LockInv' => Lock!TypeOK'
    BY DEF LockInv, Lock!TypeOK
  <2> QED
    BY <2>1, LegacySteps, LockNext
<1> QED
  BY <1>1, <1>2, <1>3, PTL DEF Spec, OnlyTheHolderUnlocks, Lock!OnlyTheHolderUnlocks
-----------------------------------------------------------------------------
(***************************************************************************)
(* The error replies                                                       *)
(***************************************************************************)
AnswerTypes == [status : Nat, text : {"none", "own", "generic"}, retryable : BOOLEAN,
            stack : BOOLEAN, of : {None} \cup Replies!Errors]

AnswerInv(a) ==
  a.of # None =>
    /\ a.stack => env = "development"
    /\ env = "production" /\ a.of.app = None /\ a.text = "own" =>
         a.status = 400 /\ a.of.matches = {"validation"}
    /\ env = "production" /\ a.status >= 500 /\ a.text = "own" => a.of.operational
    /\ a.retryable => a.status >= 500

ReplyInv ==
  /\ error \in {None} \cup Replies!Errors
  /\ IF answer = None THEN replies = 0 /\ ~cut ELSE replies = 1 /\ AnswerInv(answer)

\* Of all a plain error may mention, only a rejected input is answered as one, and only
\* a fault of the server is worth another try.
LEMMA PlainClasses ==
  ASSUME NEW e \in Replies!Errors, e.app = None
  PROVE  /\ Replies!ClassifyError(e).category = "validation" => e.matches = {"validation"}
         /\ Replies!ClassifyError(e).retryable \in BOOLEAN
         /\ Replies!ClassifyError(e).retryable =>
              Replies!ClassifyError(e).category \in {"database", "network"}
<1>1. Replies!ClassifyError(e) = Replies!ClassifyPlain(e)
  BY DEF Replies!ClassifyError
<1>2. /\ e.matches \subseteq Replies!Patterns
      /\ ("transient" \in e.matches => "database" \in e.matches)
  BY DEF Replies!Errors
<1>3. CASE "database" \in e.matches
  <2>1. Replies!ClassifyPlain(e) =
          Replies!Class("database", "high", "transient" \in e.matches, FALSE)
    <3>1. /\ e.matches # {} /\ e.matches # {"validation"}
          /\ {"database", "network"} \cap e.matches # {}
      BY <1>3
    <3> QED
      BY <1>3, <3>1, Zenon DEF Replies!ClassifyPlain
  <2> QED
    BY <1>1, <2>1 DEF Replies!Class
<1>4. CASE "database" \notin e.matches /\ "network" \in e.matches
  <2>1. Replies!ClassifyPlain(e) = Replies!Class("network", "medium", TRUE, FALSE)
    <3>1. /\ e.matches # {} /\ e.matches # {"validation"}
          /\ {"database", "network"} \cap e.matches # {}
      BY <1>4
    <3> QED
      BY <1>4, <3>1, Zenon DEF Replies!ClassifyPlain
  <2> QED
    BY <1>1, <2>1 DEF Replies!Class
<1>5. CASE {"database", "network"} \cap e.matches = {} /\ "security" \in e.matches
  <2>1. Replies!ClassifyPlain(e) = Replies!Class("security", "critical", FALSE, TRUE)
    <3>1. /\ e.matches # {} /\ e.matches # {"validation"}
          /\ "database" \notin e.matches /\ "network" \notin e.matches
      BY <1>5
    <3> QED
      BY <1>5, <3>1, Zenon DEF Replies!ClassifyPlain
  <2> QED
    BY <1>1, <2>1 DEF Replies!Class
<1>6. CASE e.matches = {"validation"}
  <2>1. Replies!ClassifyPlain(e) = Replies!Class("validation", "low", FALSE, FALSE)
    BY <1>6 DEF Replies!ClassifyPlain
  <2> QED
    BY <1>1, <1>6, <2>1 DEF Replies!Class
<1>7. CASE e.matches = {}
  <2>1. Replies!ClassifyPlain(e) = Replies!Class("unknown", "medium", FALSE, FALSE)
    BY <1>7 DEF Replies!ClassifyPlain
  <2> QED
    BY <1>1, <2>1 DEF Replies!Class
<1> QED
  BY <1>2, <1>3, <1>4, <1>5, <1>6, <1>7 DEF Replies!Patterns

LEMMA StatusTyped ==
  ASSUME NEW e \in Replies!Errors
  PROVE  Replies!StatusOf(e) \in Nat
<1>1. CASE e.app # None
  <2>1. e.app \in DOMAIN Replies!AppErrors
    BY <1>1 DEF Replies!Errors
  <2> QED
    BY <1>1, <2>1 DEF Replies!StatusOf, Replies!AppErrors
<1>2. CASE e.app = None
  BY <1>2 DEF Replies!StatusOf
<1> QED
  BY <1>1, <1>2

\* What errorHandler() makes of an error.
LEMMA HandledTyped ==
  ASSUME NEW e \in Replies!Errors,
         NEW a,
         a =
           [status |-> Replies!StatusOf(e), text |-> Replies!TextOf(e, Replies!StatusOf(e)),
            retryable |-> Replies!ClassifyError(e).retryable, stack |-> env = "development",
              of |-> e]
  PROVE  a \in AnswerTypes /\ AnswerInv(a)
<1>1. CASE e.app # None
  <2>1. Replies!ClassifyError(e).retryable = (Replies!AppErrors[e.app] >= 500)
    BY <1>1 DEF Replies!ClassifyError, Replies!ClassifyAppError, Replies!Class
  <2>2. Replies!StatusOf(e) = Replies!AppErrors[e.app]
    BY <1>1 DEF Replies!StatusOf
  <2>3. a \in AnswerTypes
    BY <2>1, StatusTyped DEF AnswerTypes, Replies!TextOf
  <2> QED
    BY <1>1, <2>1, <2>2, <2>3 DEF AnswerInv, Replies!TextOf
<1>2. CASE e.app = None
  <2>1. a \in AnswerTypes
    BY <1>2, PlainClasses, StatusTyped DEF AnswerTypes, Replies!TextOf
  <2>2. Replies!StatusOf(e) = 
          IF Replies!ClassifyError(e).category = "validation" THEN 400 ELSE 500
    BY <1>2 DEF Replies!StatusOf
  <2>3. Replies!ClassifyError(e).retryable => Replies!StatusOf(e) = 500
    BY <1>2, <2>2, PlainClasses
  <2>4. env = "production" /\ Replies!TextOf(e, Replies!StatusOf(e)) = "own" =>
          e.matches = {"validation"} /\ Replies!StatusOf(e) = 400
    BY <1>2, <2>2, PlainClasses DEF Replies!TextOf
  <2>5. a.of = e /\ a.stack = (env = "development")
          /\ a.text = Replies!TextOf(e, Replies!StatusOf(e))
        /\ a.status = Replies!StatusOf(e)
        /\ a.retryable = Replies!ClassifyError(e).retryable
    OBVIOUS
  <2>6. AnswerInv(a)
    <3> QED
      <4>1. a.stack => env = "development"
        BY <2>5
      <4>2. env = "production" /\ a.text = "own" =>
              a.status = 400 /\ a.of.matches = {"validation"}
        BY <2>4, <2>5
      <4>3. a.retryable => a.status = 500
        BY <2>3, <2>5
      <4> QED
        BY <4>1, <4>2, <4>3 DEF AnswerInv
  <2> QED
    BY <2>1, <2>6
<1> QED
  BY <1>1, <1>2

LEMMA ReplyNext ==
  ASSUME ReplyInv, [Replies!Next]_replyVars
  PROVE  ReplyInv'
<1>1. CASE Replies!Respond
  <2>1. answer' \in AnswerTypes /\ answer'.of = None
    BY <1>1 DEF Replies!Respond, AnswerTypes
  <2>2. answer' # None
    BY <2>1, NamesAssumption DEF AnswerTypes
  <2> QED
    BY <1>1, <2>1, <2>2 DEF ReplyInv, AnswerInv, Replies!Respond
<1>2. ASSUME NEW e \in Replies!Errors, Replies!Fail(e) PROVE ReplyInv'
  BY <1>2 DEF ReplyInv, AnswerInv, Replies!Fail
<1>3. CASE Replies!ErrorHandler
  <2>1. error' = None /\ env' = env /\ error \in Replies!Errors
    BY <1>3 DEF Replies!ErrorHandler, ReplyInv
  <2>2. CASE answer # None
    BY <1>3, <2>1, <2>2 DEF ReplyInv, AnswerInv, Replies!ErrorHandler
  <2>3. CASE answer = None
    <3>1. answer' = [status |-> Replies!StatusOf(error),
                     text |-> Replies!TextOf(error, Replies!StatusOf(error)),
                     retryable |-> Replies!ClassifyError(error).retryable,
                     stack |-> env = "development", of |-> error]
          /\ replies' = replies + 1
      BY <1>3, <2>3 DEF Replies!ErrorHandler
    <3>2. answer' \in AnswerTypes /\ AnswerInv(answer')
      BY <2>1, <3>1, HandledTyped
    <3>3. answer' # None
      BY <3>2, NamesAssumption DEF AnswerTypes
    <3> QED
      BY <2>1, <2>3, <3>1, <3>2, <3>3 DEF ReplyInv, AnswerInv
  <2> QED
    BY <2>2, <2>3
<1>4. CASE UNCHANGED replyVars
  BY <1>4 DEF ReplyInv, AnswerInv, replyVars
<1> QED
  BY <1>1, <1>2, <1>3, <1>4 DEF Replies!Next

LEMMA ReplyDone == ReplyInv => RepliesHideInternals
  BY DEF ReplyInv, AnswerInv, RepliesHideInternals, Replies!RepliesHideInternals

LEMMA ReplyInit == Replies!Init => ReplyInv
  BY DEF ReplyInv, Replies!Init

\* Of every error there is: a request is answered once, no reply carries a stack outside
\* development, in production the text of an error that nobody wrote for clients leaves
\* only when it rejects an input and speaks of nothing else, and only a fault of the
\* server is worth another try (error-handler.ts:125-240, 336-431, 521-531).
THEOREM RepliesTellNothing == Spec => []RepliesHideInternals
<1>1. Init => ReplyInv
  BY ReplyInit DEF Init
<1>2. ReplyInv /\ [Next]_all => ReplyInv'
  BY LegacySteps, ReplyNext
<1> QED
  BY <1>1, <1>2, ReplyDone, PTL DEF Spec
-----------------------------------------------------------------------------
(***************************************************************************)
(* The worker process                                                      *)
(***************************************************************************)
WorkerInv ==
  /\ begun \in 0..Worker!Serving
  /\ stores \in [Worker!Stores -> {"none", "open", "closed"}]
  /\ http \in {"off", "open", "closing", "closed"}
  /\ open \in Nat /\ leaving \subseteq Worker!Stores
  /\ stop \in [Signals -> {"no", "waiting", "database", "cache"}]
  /\ http = "closed" => open = 0
  /\ begun # Worker!Serving <=> http = "off"
  /\ begun > 1 => stores["database"] # "none"
  /\ begun > 2 => stores["cache"] # "none"
  /\ http \in {"off", "open"} => \A n \in Signals : stop[n] = "no"
  /\ http \in {"closing", "closed"} => \E n \in Signals : stop[n] # "no"
  /\ \A n \in Signals :
       /\ stop[n] \in {"database", "cache"} => http = "closed"
       /\ stop[n] = "cache" => stores["database"] = "closed" \/ "database" \in unclosed
  /\ status = 0 =>
       begun = Worker!Serving /\ http = "closed" /\ open = 0
         /\ \A s \in Worker!Stores : stores[s] = "closed" \/ s \in unclosed

LEMMA WorkerInit ==
  ASSUME Worker!Init
  PROVE  WorkerInv
  BY NamesAssumption DEF Worker!Init, WorkerInv, Worker!Serving, Worker!Stores

LEMMA WorkerNext ==
  ASSUME WorkerInv, [Worker!Next]_processVars
  PROVE  WorkerInv'
<1>0. None # 0 /\ None # 1 /\ MaxConnections \in Nat
  BY NamesAssumption, OutsideAssumption
<1> USE DEF Worker!Serving, Worker!Stores, Worker!Running
<1>1. CASE \/ Worker!SetupTracing \/ Worker!InitializeDatabase \/ Worker!InitializeRedis
           \/ Worker!InitializeVault \/ Worker!Serve
  <2>1. PICK i \in 0..4 : Worker!Step(i) /\ (i = 4 => http' = "open")
          /\ (i # 4 => http' = http)
    BY <1>1 DEF Worker!SetupTracing, Worker!InitializeDatabase, Worker!InitializeRedis,
                Worker!InitializeVault, Worker!Serve, Worker!Keep
  <2>2. UNCHANGED <<open, leaving, stop, tardy, status, unclosed>>
    BY <1>1 DEF Worker!SetupTracing, Worker!InitializeDatabase, Worker!InitializeRedis,
                Worker!InitializeVault, Worker!Serve, Worker!Keep
  <2>3. /\ stores' \in [Worker!Stores -> {"none", "open", "closed"}]
        /\ begun' > 1 => stores'["database"] # "none"
        /\ begun' > 2 => stores'["cache"] # "none"
    BY <1>1 DEF Worker!Step, Worker!SetupTracing, Worker!InitializeDatabase, Worker!InitializeRedis,
                Worker!InitializeVault, Worker!Serve, Worker!Keep, WorkerInv
  <2>4. begun = i /\ begun' = i + 1 /\ status = None
    BY <2>1 DEF Worker!Step
  <2>5. http = "off" /\ \A n \in Signals : stop[n] = "no"
    BY <2>4 DEF WorkerInv
  <2> QED
    BY <2>1, <2>2, <2>3, <2>4, <2>5, <1>0 DEF WorkerInv
<1>2. CASE Worker!StartFails \/ Worker!Uncaught \/ \E n \in Signals : Worker!ForcedExit(n)
  <2>1. status' = 1 /\ UNCHANGED <<begun, stores, http, open, leaving, stop, tardy, unclosed>>
    BY <1>2 DEF Worker!StartFails, Worker!Uncaught, Worker!ForcedExit, Worker!Exit
  <2> QED
    BY <2>1 DEF WorkerInv
<1>3. CASE Worker!Accept
  BY <1>3, <1>0 DEF WorkerInv, Worker!Accept
<1>4. CASE Worker!ConnectionEnds
  BY <1>4, <1>0 DEF WorkerInv, Worker!ConnectionEnds
<1>5. CASE Worker!Closed
  <2>1. http' = "closed" /\ open = 0 /\ http \in {"closing", "closed"}
        /\ stop' = [n \in Signals |-> IF stop[n] = "waiting" THEN "database" ELSE stop[n]]
        /\ UNCHANGED <<begun, stores, open, leaving, status, unclosed>> /\ status = None
    BY <1>5 DEF Worker!Closed
  <2>2. \A n \in Signals : stop'[n] # "no" <=> stop[n] # "no"
    BY <2>1
  <2> QED
    BY <2>1, <2>2, <1>0 DEF WorkerInv
<1>6. ASSUME NEW n \in Signals, Worker!Signal(n) PROVE WorkerInv'
  <2>1. /\ UNCHANGED <<begun, stores, open, status, unclosed>> /\ status = None
        /\ leaving' \subseteq Worker!Stores
    BY <1>6 DEF Worker!Signal, WorkerInv
  <2>2. CASE begun = 5
    <3>1. /\ stop' = [stop EXCEPT ![n] = "waiting"]
          /\ http' = (IF http = "open" THEN "closing" ELSE http)
      BY <1>6, <2>2 DEF Worker!Signal
    <3>3. stop'[n] = "waiting" /\ \A m \in Signals : m # n => stop'[m] = stop[m]
      BY <3>1 DEF WorkerInv
    <3>4. http # "off"
      BY <2>2 DEF WorkerInv
    <3> QED
      BY <2>1, <2>2, <3>1, <3>3, <3>4, <1>0 DEF WorkerInv
  <2>3. CASE begun # 5
    BY <1>6, <2>1, <2>3, <1>0 DEF Worker!Signal, WorkerInv
  <2> QED
    BY <2>2, <2>3
<1>d. ASSUME NEW s \in Worker!Stores, Worker!Disconnect(s)
      PROVE  /\ stores' \in [Worker!Stores -> {"none", "open", "closed"}]
             /\ \A x \in Worker!Stores :
                  stores[x] = "closed" \/ x \in unclosed
                    => stores'[x] = "closed" \/ x \in unclosed'
             /\ \A x \in Worker!Stores : stores[x] # "none" => stores'[x] # "none"
             /\ stores[s] # "none" => stores'[s] = "closed" \/ s \in unclosed'
  BY <1>d DEF Worker!Disconnect, WorkerInv
<1>7. ASSUME NEW n \in Signals, Worker!DisconnectDatabase(n) PROVE WorkerInv'
  <2>1. Worker!Disconnect("database") /\ stop' = [stop EXCEPT ![n] = "cache"]
        /\ stop[n] = "database" /\ status = None
        /\ UNCHANGED <<begun, http, open, leaving, tardy, status>>
    BY <1>7 DEF Worker!DisconnectDatabase
  <2>2. http = "closed" /\ begun = 5 /\ stores["database"] # "none"
    BY <2>1 DEF WorkerInv
  <2>3. /\ stores' \in [Worker!Stores -> {"none", "open", "closed"}]
        /\ stores'["database"] = "closed" \/ "database" \in unclosed'
        /\ stores'["database"] # "none" /\ stores'["cache"] # "none"
    BY <2>1, <2>2, <1>d DEF WorkerInv
  <2>4. stop' \in [Signals -> {"no", "waiting", "database", "cache"}]
        /\ \A m \in Signals : stop'[m] # stop[m] => stop'[m] = "cache" /\ m = n
        /\ stop'[n] # "no"
    BY <2>1 DEF WorkerInv
  <2>5. \A m \in Signals :
          /\ stop'[m] \in {"database", "cache"} => http' = "closed"
          /\ stop'[m] = "cache" => stores'["database"] = "closed" \/ "database" \in unclosed'
    BY <2>1, <2>2, <2>3
  <2> QED
    BY <2>1, <2>2, <2>3, <2>4, <2>5, <1>0 DEF WorkerInv
<1>8. ASSUME NEW n \in Signals, Worker!Finish(n) PROVE WorkerInv'
  <2>1. Worker!Disconnect("cache") /\ stop[n] = "cache" /\ status = None
        /\ status' \in {0, 1} /\ UNCHANGED <<begun, http, open, leaving, stop, tardy>>
    BY <1>8 DEF Worker!Finish
  <2>2. /\ http = "closed" /\ begun = 5 /\ stores["cache"] # "none" /\ stores["database"] # "none"
        /\ stores["database"] = "closed" \/ "database" \in unclosed
    BY <2>1 DEF WorkerInv
  <2>3. /\ stores' \in [Worker!Stores -> {"none", "open", "closed"}]
        /\ \A x \in Worker!Stores : stores'[x] = "closed" \/ x \in unclosed'
        /\ \A x \in Worker!Stores : stores'[x] # "none"
    BY <2>1, <2>2, <1>d
  <2> QED
    BY <2>1, <2>2, <2>3, <1>0 DEF WorkerInv
<1>9. ASSUME NEW s \in Worker!Stores, Worker!Leave(s) PROVE WorkerInv'
  <2>1. Worker!Disconnect(s) /\ leaving' = leaving \ {s} /\ status = None
        /\ UNCHANGED <<begun, http, open, stop, tardy, status>>
    BY <1>9 DEF Worker!Leave
  <2>2. /\ stores' \in [Worker!Stores -> {"none", "open", "closed"}]
        /\ \A x \in Worker!Stores :
             /\ stores[x] = "closed" \/ x \in unclosed
                  => stores'[x] = "closed" \/ x \in unclosed'
             /\ stores[x] # "none" => stores'[x] # "none"
    BY <2>1, <1>d
  <2>3. leaving' \subseteq Worker!Stores
    BY <2>1 DEF WorkerInv
  <2>4. "database" \in Worker!Stores /\ "cache" \in Worker!Stores
    OBVIOUS
  <2>5. \A m \in Signals :
          /\ stop'[m] \in {"database", "cache"} => http' = "closed"
          /\ stop'[m] = "cache" => stores'["database"] = "closed" \/ "database" \in unclosed'
    BY <2>1, <2>2, <2>4 DEF WorkerInv
  <2> QED
    BY <2>1, <2>2, <2>3, <2>4, <2>5, <1>0 DEF WorkerInv
<1>12. CASE Worker!Query
  BY <1>12, <1>0 DEF WorkerInv, Worker!Query
<1>10. CASE Worker!Fork
  BY <1>10, <1>0 DEF WorkerInv, Worker!Fork
<1>11. CASE UNCHANGED processVars
  BY <1>11 DEF WorkerInv, processVars
<1> QED
  BY <1>1, <1>2, <1>3, <1>4, <1>5, <1>6, <1>7, <1>8, <1>9, <1>10, <1>11, <1>12 DEF Worker!Next

LEMMA WorkerDone == WorkerInv => Worker!ZeroMeansDrained
  BY DEF WorkerInv, Worker!ZeroMeansDrained
-----------------------------------------------------------------------------
(***************************************************************************)
(* The bulk insertion                                                      *)
(***************************************************************************)
\* The rows of the batches before this one, and those of this one the code is past.
RowsPast == UNION {Bulk!All(b) : b \in 1..(batch - 1)}
RowsDone == {Rows[batch][i] : i \in 1..(item - 1)}

BulkInv ==
  /\ batch \in 1..(Len(Rows) + 1) /\ item \in Nat \ {0}
  /\ batch <= Len(Rows) => item <= Len(Rows[batch]) + 1
  /\ batch > Len(Rows) => item = 1
  /\ updated \in Nat /\ errors \in Nat
  /\ written \subseteq RowsDone
  /\ strategy = "error" \/ errors = 0 => written = RowsDone /\ ~aborted
  /\ errors = 0 => RowsPast \subseteq table
  /\ Cardinality(RowsPast \cup RowsDone) <= updated + errors
  /\ strategy = "error" =>
       \A b \in DOMAIN Rows : Bulk!All(b) \cap table \in {{}, Bulk!All(b)}
  /\ result = "returned" => batch = Len(Rows) + 1

\* Of the rows only this matters: they are batches, and no row is in two of them.
LEMMA Batches ==
  /\ Len(Rows) \in Nat /\ DOMAIN Rows = 1..Len(Rows)
  /\ \A b \in DOMAIN Rows : Len(Rows[b]) \in Nat /\ DOMAIN Rows[b] = 1..Len(Rows[b])
  /\ \A b, c \in DOMAIN Rows : b # c => Bulk!All(b) \cap Bulk!All(c) = {}
  /\ IsFiniteSet(Bulk!AllRows)
<1>1. /\ Len(Rows) = 2 /\ DOMAIN Rows = 1..2 /\ Rows[1] = <<"a", "b">>
      /\ Rows[2] = <<"c", "d">>
  BY DEF Rows
<1>2. \A b \in 1..2 : Len(Rows[b]) = 2 /\ DOMAIN Rows[b] = 1..2
  BY <1>1
<1>3. Bulk!All(1) = {"a", "b"} /\ Bulk!All(2) = {"c", "d"}
  BY <1>1, <1>2 DEF Bulk!All
<1>4. Bulk!AllRows = {"a", "b", "c"} \cup {"d"}
  BY <1>1, <1>3 DEF Bulk!AllRows
<1>5. IsFiniteSet({}) /\ IsFiniteSet({"a", "b", "c"} \cup {"d"})
  <2>1. /\ IsFiniteSet({"a"}) /\ {"a"} \cup {"b"} = {"a", "b"}
        /\ {"a", "b"} \cup {"c"} = {"a", "b", "c"}
    BY FS_Singleton
  <2> QED
    <3>1. IsFiniteSet({"a"} \cup {"b"})
      BY <2>1, FS_AddElement
    <3>2. IsFiniteSet({"a", "b"} \cup {"c"})
      BY <2>1, <3>1, FS_AddElement
    <3> QED
      BY <2>1, <3>2, FS_AddElement, FS_EmptySet
<1> QED
  BY <1>1, <1>2, <1>3, <1>4, <1>5

LEMMA FiniteRows ==
  ASSUME NEW b \in Nat, NEW i \in Nat
  PROVE  /\ IsFiniteSet({Rows[b][k] : k \in 1..i})
         /\ Cardinality({Rows[b][k] : k \in 1..i}) <= i
<1>1. IsFiniteSet(1..i) /\ Cardinality(1..i) = i
  BY FS_Interval
<1>2. {Rows[b][k] : k \in 1..i} = {[j \in 1..i |-> Rows[b][j]][k] : k \in 1..i}
  OBVIOUS
<1> DEFINE f == [k \in 1..i |-> Rows[b][k]]
<1>3. f \in Surjection(1..i, {Rows[b][k] : k \in 1..i})
  BY DEF Surjection
<1> QED
  BY <1>1, <1>3, FS_Surjection

\* The rows behind the code are finitely many, and with those of the current batch at
\* most its length more.
LEMMA RowsBehind ==
  ASSUME BulkInv, batch <= Len(Rows)
  PROVE  /\ IsFiniteSet(RowsPast \cup RowsDone)
         /\ Cardinality(RowsPast \cup RowsDone) \in Nat
         /\ Cardinality(RowsPast) <= Cardinality(RowsPast \cup RowsDone)
         /\ Cardinality(RowsPast \cup Bulk!All(batch)) <=
              Cardinality(RowsPast \cup RowsDone) + Len(Rows[batch])
<1>1. batch \in DOMAIN Rows /\ Len(Rows[batch]) \in Nat
        /\ DOMAIN Rows[batch] = 1..Len(Rows[batch])
      /\ item - 1 \in 0..Len(Rows[batch])
  BY Batches DEF BulkInv
<1>2. RowsPast \subseteq Bulk!AllRows
  BY <1>1, Batches DEF RowsPast, Bulk!AllRows
<1>3. IsFiniteSet(RowsPast)
  BY <1>2, Batches, FS_Subset
<1>4. IsFiniteSet(RowsDone)
  <2>1. batch \in Nat /\ item - 1 \in Nat
    BY DEF BulkInv
  <2> QED
    BY <2>1, FiniteRows DEF RowsDone
<1>5. IsFiniteSet(Bulk!All(batch)) /\ Cardinality(Bulk!All(batch)) <= Len(Rows[batch])
  <2>1. batch \in Nat
    BY DEF BulkInv
  <2>2. Bulk!All(batch) = {Rows[batch][k] : k \in 1..Len(Rows[batch])}
    BY <1>1 DEF Bulk!All
  <2> QED
    BY <1>1, <2>1, <2>2, FiniteRows
<1>6. /\ IsFiniteSet(RowsPast \cup RowsDone) /\ Cardinality(RowsPast \cup RowsDone) \in Nat
      /\ Cardinality(RowsPast) \in Nat
  BY <1>3, <1>4, FS_Union, FS_CardinalityType
<1>7. Cardinality(RowsPast) <= Cardinality(RowsPast \cup RowsDone)
  BY <1>6, FS_Subset
<1>8. Cardinality(RowsPast \cup Bulk!All(batch)) <= Cardinality(RowsPast) + Len(Rows[batch])
  <2>1. IsFiniteSet(RowsPast \cap Bulk!All(batch))
          /\ Cardinality(RowsPast \cap Bulk!All(batch)) \in Nat
        /\ Cardinality(Bulk!All(batch)) \in Nat
    BY <1>3, <1>5, FS_Subset, FS_CardinalityType
  <2>2. Cardinality(RowsPast \cup Bulk!All(batch)) =
          Cardinality(RowsPast) + Cardinality(Bulk!All(batch))
            - Cardinality(RowsPast \cap Bulk!All(batch))
    BY <1>3, <1>5, FS_Union
  <2> QED
    BY <1>1, <1>5, <1>6, <2>1, <2>2
<1>9. Cardinality(RowsPast \cup Bulk!All(batch)) \in Nat
  BY <1>3, <1>5, FS_Union, FS_CardinalityType
<1> QED
  BY <1>1, <1>6, <1>7, <1>8, <1>9

WholeBatches(t) == strategy = "error" =>
  \A b \in DOMAIN Rows : Bulk!All(b) \cap t \in {{}, Bulk!All(b)}

\* The transaction of a batch is tried again.
LEMMA BatchRetried ==
  ASSUME BulkInv, batch <= Len(Rows), result = "none", Bulk!Begin(batch, tries + 1),
         errors' \in Nat, errors <= errors', UNCHANGED <<updated, strategy, result>>,
         table \subseteq table', WholeBatches(table')
  PROVE  BulkInv'
<1>1. RowsPast' = RowsPast /\ RowsDone' = {}
  BY DEF RowsPast, RowsDone, Bulk!Begin
<1>2. Cardinality(RowsPast) <= updated + errors'
  <2>1. /\ Cardinality(RowsPast \cup RowsDone) <= updated + errors /\ updated \in Nat
        /\ errors \in Nat
    BY DEF BulkInv
  <2>2. Cardinality(RowsPast) \in Nat
    <3>1. IsFiniteSet(RowsPast)
      BY RowsBehind, FS_Subset
    <3> QED
      BY <3>1, FS_CardinalityType
  <2> QED
    BY <2>1, <2>2, RowsBehind
<1>3. RowsPast \cup {} = RowsPast /\ 1 <= Len(Rows[batch]) + 1
  BY Batches DEF BulkInv
<1>4. batch' = batch /\ item' = 1 /\ written' = {} /\ ~aborted'
  BY DEF Bulk!Begin
<1>5. errors' = 0 => errors = 0
  BY DEF BulkInv
<1> QED
  BY <1>1, <1>2, <1>3, <1>4, <1>5 DEF BulkInv, WholeBatches

\* A batch is left behind, stored or counted.
LEMMA BatchPassed ==
  ASSUME BulkInv, batch <= Len(Rows), result = "none", Bulk!Begin(batch + 1, 1),
         errors' \in Nat, errors <= errors', UNCHANGED <<updated, strategy>>,
           result' # "returned",
         table \subseteq table', WholeBatches(table'),
         Cardinality(RowsPast \cup Bulk!All(batch)) <= updated + errors',
         errors' = 0 => Bulk!All(batch) \subseteq table'
  PROVE  BulkInv'
<1>1. RowsPast' = RowsPast \cup Bulk!All(batch) /\ RowsDone' = {}
  <2>1. 1..(batch' - 1) = 1..(batch - 1) \cup {batch}
    BY Batches DEF BulkInv, Bulk!Begin
  <2> QED
    BY <2>1 DEF RowsPast, RowsDone, Bulk!Begin, Bulk!All
<1>2. batch' = batch + 1 /\ item' = 1 /\ written' = {} /\ ~aborted'
  BY DEF Bulk!Begin
<1>3. batch' \in 1..(Len(Rows) + 1) /\ (batch' <= Len(Rows) => 1 <= Len(Rows[batch']) + 1)
  BY <1>2, Batches DEF BulkInv
<1>4. errors' = 0 => RowsPast' \subseteq table'
  BY <1>1 DEF BulkInv
<1>5. RowsPast' \cup RowsDone' = RowsPast \cup Bulk!All(batch)
  BY <1>1
<1> QED
  BY <1>1, <1>2, <1>3, <1>4, <1>5 DEF BulkInv, WholeBatches

\* What is committed of a batch is the whole of it, where the first error ends it.
LEMMA CommitsWhole ==
  ASSUME BulkInv, Bulk!Committing
  PROVE  /\ RowsDone = Bulk!All(batch) /\ batch <= Len(Rows)
         /\ WholeBatches(table \cup written)
<1>1. batch \in DOMAIN Rows /\ item = Len(Rows[batch]) + 1
        /\ DOMAIN Rows[batch] = 1..Len(Rows[batch])
      /\ Len(Rows[batch]) \in Nat
  BY Batches DEF BulkInv, Bulk!Committing, Bulk!Rows
<1>2. RowsDone = Bulk!All(batch)
  BY <1>1 DEF RowsDone, Bulk!All
<1>3. ASSUME strategy = "error", NEW b \in DOMAIN Rows
      PROVE  Bulk!All(b) \cap (table \cup written) \in {{}, Bulk!All(b)}
  <2>1. written = Bulk!All(batch) /\ Bulk!All(b) \cap table \in {{}, Bulk!All(b)}
    BY <1>2, <1>3 DEF BulkInv
  <2>2. CASE b = batch
    BY <2>1, <2>2
  <2>3. CASE b # batch
    BY <1>1, <2>1, <2>3, Batches
  <2> QED
    BY <2>2, <2>3
<1> QED
  BY <1>1, <1>2, <1>3, Batches DEF WholeBatches

LEMMA ErrorsAdd ==
  ASSUME NEW e \in Nat, NEW c \in {0, 1}, NEW l \in Nat, NEW f, f = e + c + l
  PROVE  f \in Nat /\ e <= f /\ e + l <= f /\ (f = 0 => l = 0)
  OBVIOUS

LEMMA AttemptEnds ==
  ASSUME BulkInv, batch <= Len(Rows), result = "none", NEW passing, NEW counted \in {0, 1},
         Bulk!TransactionFails(passing, counted), UNCHANGED <<updated, strategy>>,
         table \subseteq table', WholeBatches(table')
  PROVE  BulkInv'
<1>1. Len(Rows[batch]) \in Nat /\ errors \in Nat /\ updated \in Nat
  BY Batches DEF BulkInv
<1>2. CASE passing /\ tries < MaxRetries
  BY <1>1, <1>2, BatchRetried DEF Bulk!TransactionFails
<1>3. CASE ~(passing /\ tries < MaxRetries)
  <2>1. /\ Bulk!Begin(batch + 1, 1) /\ errors' = errors + counted + Len(Rows[batch])
        /\ result' # "returned"
    BY <1>3 DEF Bulk!TransactionFails, Bulk!Rows
  <2>4. /\ errors' \in Nat /\ errors <= errors' /\ errors + Len(Rows[batch]) <= errors'
        /\ errors' = 0 => Len(Rows[batch]) = 0
    <3> DEFINE l == Len(Rows[batch])
    <3>1. /\ errors \in Nat /\ counted \in {0, 1} /\ l \in Nat
          /\ errors' = errors + counted + l
      BY <1>1, <2>1
    <3> HIDE DEF l
    <3>2. /\ errors' \in Nat /\ errors <= errors' /\ errors + l <= errors'
          /\ (errors' = 0 => l = 0)
      BY <3>1, ErrorsAdd
    <3> QED
      BY <3>2 DEF l
  <2>2. Cardinality(RowsPast \cup Bulk!All(batch)) <= updated + errors'
    <3>1. Cardinality(RowsPast \cup RowsDone) <= updated + errors
      BY DEF BulkInv
    <3>2. Cardinality(RowsPast \cup Bulk!All(batch)) \in Nat
      <4>1. IsFiniteSet(RowsPast \cup Bulk!All(batch))
        <5>1. IsFiniteSet(RowsPast)
          BY RowsBehind, FS_Subset
        <5>2. IsFiniteSet(Bulk!All(batch))
          <6>1. Bulk!All(batch) \subseteq Bulk!AllRows
            BY Batches DEF Bulk!AllRows, BulkInv
          <6> QED
            BY <6>1, Batches, FS_Subset
        <5> QED
          BY <5>1, <5>2, FS_Union
      <4> QED
        BY <4>1, FS_CardinalityType
    <3> QED
      <4>1. Cardinality(RowsPast \cup RowsDone) \in Nat
            /\ Cardinality(RowsPast \cup Bulk!All(batch)) <=
                 Cardinality(RowsPast \cup RowsDone) + Len(Rows[batch])
        BY RowsBehind
      <4>2. ASSUME NEW k \in Nat, NEW m \in Nat, NEW f \in Nat, NEW l \in Nat,
                   NEW e \in Nat, NEW u \in Nat,
                   k <= u + e, m <= k + l, e + l <= f
            PROVE  m <= u + f
        BY <4>2
      <4> QED
        BY <1>1, <2>4, <3>1, <3>2, <4>1, <4>2
  <2>3. errors' = 0 => Bulk!All(batch) \subseteq table'
    <3>1. errors' = 0 => Len(Rows[batch]) = 0
      BY <2>4
    <3>2. Len(Rows[batch]) = 0 => Bulk!All(batch) = {}
      BY Batches DEF Bulk!All, BulkInv
    <3> QED
      BY <3>1, <3>2
  <2> QED
    BY <1>1, <2>1, <2>2, <2>3, <2>4, BatchPassed
<1> QED
  BY <1>2, <1>3

LEMMA BulkInit ==
  ASSUME Bulk!Init
  PROVE  BulkInv
<1>1. RowsPast = {} /\ RowsDone = {}
  BY DEF Bulk!Init, RowsPast, RowsDone
<1>2. RowsPast \cup RowsDone = {} /\ Cardinality({}) = 0
  BY <1>1, FS_EmptySet
<1> QED
  BY <1>1, <1>2, Batches DEF Bulk!Init, BulkInv

\* The next row is behind the code, written or counted.
LEMMA RowPassed ==
  ASSUME BulkInv, Bulk!Writing, item' = item + 1,
         UNCHANGED <<batch, table, strategy, result>>,
         updated' \in Nat, errors' \in Nat, updated' + errors' = updated + errors + 1,
         errors <= errors', written' \subseteq written \cup {Rows[batch][item]},
         strategy = "error" \/ errors' = 0 =>
           written' = written \cup {Rows[batch][item]} /\ ~aborted'
  PROVE  BulkInv'
<1>1. batch \in DOMAIN Rows /\ item \in DOMAIN Rows[batch] /\ Len(Rows[batch]) \in Nat
      /\ batch <= Len(Rows) /\ item <= Len(Rows[batch]) /\ result = "none"
  BY Batches DEF BulkInv, Bulk!Writing, Bulk!Rows
<1>2. RowsPast' = RowsPast /\ RowsDone' = RowsDone \cup {Rows[batch][item]}
  <2>1. 1..(item' - 1) = 1..(item - 1) \cup {item}
    BY DEF BulkInv
  <2> QED
    BY <2>1 DEF RowsPast, RowsDone
<1>3. Cardinality(RowsPast' \cup RowsDone') <= updated' + errors'
  <2>1. RowsPast' \cup RowsDone' = (RowsPast \cup RowsDone) \cup {Rows[batch][item]}
    BY <1>2
  <2>2. Cardinality(RowsPast' \cup RowsDone') \in {Cardinality(RowsPast \cup RowsDone),
                                                   Cardinality(RowsPast \cup RowsDone) + 1}
    BY <1>1, <2>1, RowsBehind, FS_AddElement
  <2>3. /\ Cardinality(RowsPast \cup RowsDone) \in Nat
        /\ Cardinality(RowsPast \cup RowsDone) <= updated + errors
    BY <1>1, RowsBehind DEF BulkInv
  <2>4. ASSUME NEW k \in Nat, NEW m \in {k, k + 1}, NEW e, NEW u,
               e + u = updated + errors + 1,
               k <= updated + errors, updated \in Nat, errors \in Nat, e \in Nat, u \in Nat
        PROVE  m <= e + u
    BY <2>4
  <2>5. updated' + errors' = updated + errors + 1 /\ updated \in Nat /\ errors \in Nat
    BY DEF BulkInv
  <2> QED
    BY <2>2, <2>3, <2>4, <2>5
<1>4. errors' = 0 => errors = 0
  BY DEF BulkInv
<1>5. item' \in Nat \ {0} /\ item' <= Len(Rows[batch]) + 1
  BY <1>1 DEF BulkInv
<1> QED
  BY <1>1, <1>2, <1>3, <1>4, <1>5 DEF BulkInv

LEMMA BulkNext ==
  ASSUME BulkInv, [Bulk!Next]_bulkVars
  PROVE  BulkInv'
<1>0. /\ errors \in Nat /\ updated \in Nat /\ WholeBatches(table)
      /\ (Bulk!Writing \/ Bulk!Committing => batch <= Len(Rows) /\ result = "none")
  BY DEF BulkInv, WholeBatches, Bulk!Writing, Bulk!Committing
<1>1. CASE Bulk!Upsert
  BY <1>0, <1>1, RowPassed DEF Bulk!Upsert, Bulk!Rows, BulkInv
<1>2. CASE Bulk!Commit
  <2>1. RowsDone = Bulk!All(batch) /\ batch <= Len(Rows) /\ WholeBatches(table \cup written)
    BY <1>2, CommitsWhole DEF Bulk!Commit
  <2>2. Bulk!Begin(batch + 1, 1) /\ UNCHANGED <<strategy, updated, errors, result>>
          /\ result = "none"
        /\ table' \in {table, table \cup written}
        /\ (~aborted => table' = table \cup written)
    BY <1>2 DEF Bulk!Commit, Bulk!Committing
  <2>3. Cardinality(RowsPast \cup Bulk!All(batch)) <= updated + errors'
    BY <2>1, <2>2 DEF BulkInv
  <2>4. errors' = 0 => Bulk!All(batch) \subseteq table'
    BY <2>1, <2>2 DEF BulkInv
  <2>5. WholeBatches(table') /\ table \subseteq table'
    BY <1>0, <2>1, <2>2
  <2> QED
    BY <1>0, <2>1, <2>2, <2>3, <2>4, <2>5, BatchPassed
<1>3. ASSUME NEW passing \in BOOLEAN, NEW where, Bulk!RowFails(where, passing)
      PROVE  BulkInv'
  <2>1. CASE strategy = "error"
    BY <1>0, <1>3, <2>1, AttemptEnds DEF Bulk!RowFails
  <2>2. CASE strategy # "error"
    <3>1. /\ Bulk!Writing /\ item' = item + 1 /\ errors' = errors + 1
          /\ UNCHANGED <<batch, written, result, strategy, table, updated>>
      BY <1>3, <2>2 DEF Bulk!RowFails
    <3> QED
      BY <1>0, <2>2, <3>1, RowPassed
  <2> QED
    BY <2>1, <2>2
<1>4. ASSUME NEW passing \in BOOLEAN, NEW done \in BOOLEAN, Bulk!AttemptFails(done, passing)
      PROVE  BulkInv'
  <2>1. Bulk!TransactionFails(passing, 0) /\ UNCHANGED <<strategy, updated>>
        /\ (table' = table \/ (Bulk!Committing /\ table' = table \cup written))
        /\ (Bulk!Writing \/ Bulk!Committing)
    BY <1>4 DEF Bulk!AttemptFails
  <2>2. WholeBatches(table') /\ table \subseteq table'
    BY <1>0, <2>1, CommitsWhole
  <2> QED
    BY <1>0, <2>1, <2>2, AttemptEnds
<1>5. CASE Bulk!Return
  <2>1. /\ batch = Len(Rows) + 1
        /\ UNCHANGED <<strategy, batch, item, tries, written, aborted, table, updated,
                       errors>>
    BY <1>5, Batches DEF Bulk!Return, BulkInv
  <2>2. RowsPast' = RowsPast /\ RowsDone' = RowsDone
    BY <2>1 DEF RowsPast, RowsDone
  <2> QED
    BY <2>1, <2>2 DEF BulkInv
<1>6. CASE UNCHANGED bulkVars
  <2>1. RowsPast' = RowsPast /\ RowsDone' = RowsDone
    BY <1>6 DEF RowsPast, RowsDone, bulkVars
  <2> QED
    BY <1>6, <2>1 DEF BulkInv, bulkVars
<1> QED
  BY <1>1, <1>2, <1>3, <1>4, <1>5, <1>6 DEF Bulk!Next

LEMMA BulkDone ==
  ASSUME BulkInv
  PROVE  Bulk!CountsAreHonest
<1>1. ASSUME result = "returned" PROVE RowsPast = Bulk!AllRows /\ RowsDone = {}
  <2>1. batch = Len(Rows) + 1 /\ item = 1 /\ 1..(batch - 1) = DOMAIN Rows
    BY <1>1, Batches DEF BulkInv
  <2> QED
    BY <2>1 DEF RowsPast, RowsDone, Bulk!AllRows
<1>2. Bulk!Cardinality(Bulk!AllRows) = Cardinality(Bulk!AllRows)
  BY DEF Bulk!Cardinality, Cardinality
<1>3. ASSUME result = "returned" PROVE RowsPast \cup RowsDone = Bulk!AllRows
  BY <1>1, <1>3
<1> QED
  BY <1>1, <1>2, <1>3 DEF BulkInv, Bulk!CountsAreHonest

\* For any signals in any order and any number of connections: a worker that gives status
\* 0 has closed its listener, has no connection left and has told both stores to close; a
\* store is open then only where a disconnection failed, which nobody is told, or a query
\* connected again (connection.ts:138-147, redis.ts:109-121).  For any number of
\* retries: a bulk insertion that reports no errors has stored every row, one that
\* returns counts every row, and one that ends with the first error stores each batch
\* whole or not at all (utils/shutdown.ts:9-43, connection.ts:269-312, 352-435).
THEOREM SuccessIsMeant == Spec => []SuccessIsTrue
<1>1. Init => WorkerInv /\ BulkInv
  BY WorkerInit, BulkInit DEF Init
<1>2. WorkerInv /\ BulkInv /\ [Next]_all => (WorkerInv /\ BulkInv)'
  BY LegacySteps, WorkerNext, BulkNext
<1>3. WorkerInv /\ BulkInv => SuccessIsTrue
  BY WorkerDone, BulkDone DEF SuccessIsTrue
<1> QED
  BY <1>1, <1>2, <1>3, PTL DEF Spec
-----------------------------------------------------------------------------
(***************************************************************************)
(* Tokens and sessions                                                     *)
(***************************************************************************)
RequestSteps == {"idle", "blacklist", "active", "accepted", "refused", "lock", "family",
           "invalidate", "delete", "release"}

TokenTypes ==
  /\ epoch \in Nat /\ issued \subseteq Tokens /\ active \subseteq issued
  /\ family \subseteq issued
  /\ born \in [Tokens -> Nat] /\ life \in [Tokens -> Nat] /\ blacklist \in [Tokens -> Nat]
  /\ refreshing \in [Tokens -> Requests \cup {None}]
  /\ step \in [Requests -> RequestSteps] /\ token \in [Requests -> Tokens \cup {None}]
  /\ gone \in [Requests -> BOOLEAN] /\ until \in [Requests -> Nat]
  /\ \A r \in Requests : step[r] # "idle" => token[r] \in issued

\* An entry is made after its token and lasts ListTime; an active token has not ended.
TokenTimes ==
  \A t \in Tokens :
    /\ blacklist[t] # 0 => /\ t \in issued /\ born[t] + ListTime <= blacklist[t]
                           /\ blacklist[t] <= epoch + ListTime
    /\ t \in active => epoch < born[t] + life[t]
    /\ t \in issued => born[t] <= epoch

\* What a verification has not read yet still speaks against a token that was revoked or
\* blacklisted when it began, and what it has read did until then.
VerifyInv(r) ==
  /\ step[r] \in {"blacklist", "active"} =>
       /\ gone[r] => token[r] \notin active
       /\ until[r] # 0 => born[token[r]] + ListTime <= until[r]
  /\ step[r] = "blacklist" => until[r] <= blacklist[token[r]]
  /\ step[r] = "active" => until[r] <= epoch
  /\ step[r] = "accepted" =>
       ~gone[r] /\ (until[r] # 0 => until[r] <= epoch /\ ListTime < life[token[r]])

TokenInv == TokenTypes /\ TokenTimes /\ \A r \in Requests : VerifyInv(r)

LEMMA TokenConstants ==
  ListTime \in Nat /\ Lives \subseteq Nat \ {0}
  BY OutsideAssumption

LEMMA TokenInit ==
  ASSUME Service!Init
  PROVE  TokenInv
  BY DEF Service!Init, TokenInv, TokenTypes, TokenTimes, VerifyInv, RequestSteps

\* A verification that stays where it is: no token comes back, no entry is shortened.
LEMMA VerifyKept ==
  ASSUME TokenInv, NEW r \in Requests,
         step'[r] = step[r], token'[r] = token[r], gone'[r] = gone[r], until'[r] = until[r],
         epoch' \in Nat, epoch' >= epoch, active' \cap issued \subseteq active,
         \A t \in issued :
           blacklist'[t] >= blacklist[t] /\ born'[t] = born[t] /\ life'[t] = life[t],
         blacklist' \in [Tokens -> Nat]
  PROVE  VerifyInv(r)'
<1>1. /\ epoch \in Nat /\ until[r] \in Nat /\ issued \subseteq Tokens
      /\ step[r] # "idle" => token[r] \in issued
      /\ \A t \in Tokens : blacklist[t] \in Nat /\ blacklist'[t] \in Nat
      /\ VerifyInv(r)
  BY DEF TokenInv, TokenTypes
<1>2. CASE step[r] = "blacklist"
  <2>1. token[r] \in issued /\ token[r] \in Tokens
    BY <1>1, <1>2
  <2> QED
    BY <1>1, <1>2, <2>1 DEF VerifyInv
<1>3. CASE step[r] = "active"
  BY <1>1, <1>3 DEF VerifyInv
<1>4. CASE step[r] = "accepted"
  BY <1>1, <1>4 DEF VerifyInv
<1>5. CASE step[r] \notin {"blacklist", "active", "accepted"}
  BY <1>5 DEF VerifyInv
<1> QED
  BY <1>2, <1>3, <1>4, <1>5

\* A request that goes on about the token it is about.
LEMMA TokenGoto ==
  ASSUME TokenInv, NEW r \in Requests, NEW there \in RequestSteps, Service!Goto(r, there),
         step[r] # "idle", UNCHANGED <<epoch, issued, born, life, active>>,
         family' \subseteq issued, refreshing' \in [Tokens -> Requests \cup {None}],
         blacklist' \in {blacklist, [blacklist EXCEPT ![token[r]] = epoch + ListTime]},
         VerifyInv(r)'
  PROVE  TokenInv'
<1>1. /\ step' = [step EXCEPT ![r] = there] /\ token' = token /\ gone' = gone
      /\ until' = until
  BY DEF Service!Goto
<1>2. step' \in [Requests -> RequestSteps] /\ step'[r] = there
        /\ \A q \in Requests : q # r => step'[q] = step[q]
  BY <1>1 DEF TokenInv, TokenTypes
<1>3. /\ epoch \in Nat /\ token[r] \in issued /\ issued \subseteq Tokens
      /\ blacklist \in [Tokens -> Nat] /\ born \in [Tokens -> Nat]
      /\ epoch + ListTime \in Nat
  BY TokenConstants DEF TokenInv, TokenTypes
<1>4. blacklist' \in [Tokens -> Nat]
  BY <1>3
<1>5. ASSUME NEW t \in Tokens
      PROVE  \/ blacklist'[t] = blacklist[t]
             \/ t = token[r] /\ blacklist'[t] = epoch + ListTime
  BY <1>3
<1>6. ASSUME NEW t \in Tokens PROVE blacklist'[t] >= blacklist[t]
  <2>1. blacklist[t] <= epoch + ListTime
    BY <1>3 DEF TokenInv, TokenTimes
  <2> QED
    BY <1>3, <1>4, <1>5, <2>1
<1>7. TokenTypes'
  BY <1>1, <1>2, <1>3, <1>4 DEF TokenInv, TokenTypes
<1>8. TokenTimes'
  <2>0. ASSUME NEW t \in Tokens
        PROVE  /\ blacklist[t] # 0 => /\ t \in issued /\ born[t] + ListTime <= blacklist[t]
                                      /\ blacklist[t] <= epoch + ListTime
               /\ t \in active => epoch < born[t] + life[t]
               /\ t \in issued => born[t] <= epoch
    BY DEF TokenInv, TokenTimes
  <2>1. ASSUME NEW t \in Tokens
        PROVE  blacklist'[t] # 0 => /\ t \in issued /\ born[t] + ListTime <= blacklist'[t]
                                    /\ blacklist'[t] <= epoch + ListTime
    <3>1. CASE blacklist'[t] = blacklist[t]
      BY <2>0, <3>1
    <3>2. CASE t = token[r] /\ blacklist'[t] = epoch + ListTime
      <4>1. t \in issued /\ born[t] <= epoch /\ born[t] \in Nat
        BY <1>3, <2>0, <3>2
      <4> QED
        BY <1>3, <3>2, <4>1, TokenConstants
    <3> QED
      BY <1>5, <3>1, <3>2
  <2> QED
    BY <2>0, <2>1 DEF TokenTimes
<1>9. ASSUME NEW q \in Requests PROVE VerifyInv(q)'
  <2>1. CASE q # r
    BY <1>1, <1>2, <1>3, <1>4, <1>6, <2>1, VerifyKept
  <2> QED
    BY <2>1
<1> QED
  BY <1>7, <1>8, <1>9 DEF TokenInv

LEMMA TokenNext ==
  ASSUME TokenInv, [Service!Next]_tokenVars
  PROVE  TokenInv'
<1>t. /\ epoch \in Nat /\ issued \subseteq Tokens /\ active \subseteq issued
      /\ family \subseteq issued
      /\ born \in [Tokens -> Nat] /\ life \in [Tokens -> Nat]
      /\ blacklist \in [Tokens -> Nat]
      /\ refreshing \in [Tokens -> Requests \cup {None}]
      /\ step \in [Requests -> RequestSteps] /\ token \in [Requests -> Tokens \cup {None}]
      /\ gone \in [Requests -> BOOLEAN] /\ until \in [Requests -> Nat]
      /\ \A r \in Requests : step[r] # "idle" => token[r] \in issued
  BY DEF TokenInv, TokenTypes
<1>p. /\ \A r \in Requests : VerifyInv(r)
      /\ \A t \in Tokens :
           /\ blacklist[t] # 0 => /\ t \in issued /\ born[t] + ListTime <= blacklist[t]
                                  /\ blacklist[t] <= epoch + ListTime
           /\ t \in active => epoch < born[t] + life[t]
           /\ t \in issued => born[t] <= epoch
  BY DEF TokenInv, TokenTimes
<1>1. ASSUME NEW t \in Tokens, Service!Generate(t) PROVE TokenInv'
  <2>1. PICK l \in Lives : life' = [life EXCEPT ![t] = l]
    BY <1>1 DEF Service!Generate
  <2>2. UNCHANGED <<epoch, blacklist, refreshing, step, token, gone, until>> /\ t \notin issued
        /\ issued' = issued \cup {t} /\ family' \subseteq family \cup {t}
        /\ active' \subseteq active \cup {t} /\ born' = [born EXCEPT ![t] = epoch]
    BY <1>1 DEF Service!Generate, Service!requestVars
  <2>3. l \in Nat /\ l > 0
    BY TokenConstants
  <2>4. TokenTypes'
    BY <2>1, <2>2, <2>3, <1>t DEF TokenTypes
  <2>5. TokenTimes'
    BY <2>1, <2>2, <2>3, <1>t, <1>p DEF TokenTimes
  <2>6. ASSUME NEW q \in Requests PROVE VerifyInv(q)'
    BY <2>1, <2>2, <1>t, VerifyKept
  <2> QED
    BY <2>4, <2>5, <2>6 DEF TokenInv
<1>2. ASSUME NEW t \in Tokens, Service!RevokeToken(t) \/ Service!Expire(t) PROVE TokenInv'
  <2>1. /\ UNCHANGED <<epoch, issued, born, life, blacklist, step, token, gone, until>>
        /\ active' \subseteq active /\ family' \subseteq family
        /\ refreshing' \in [Tokens -> Requests \cup {None}]
    BY <1>2, <1>t DEF Service!RevokeToken, Service!Expire, Service!pairVars,
                      Service!requestVars
  <2>2. TokenTypes'
    BY <2>1, <1>t DEF TokenTypes
  <2>3. TokenTimes'
    BY <2>1, <1>t, <1>p DEF TokenTimes
  <2>4. ASSUME NEW q \in Requests PROVE VerifyInv(q)'
    BY <2>1, <1>t, VerifyKept
  <2> QED
    BY <2>2, <2>3, <2>4 DEF TokenInv
<1>3. ASSUME Service!Tick PROVE TokenInv'
  <2>1. /\ UNCHANGED <<issued, born, life, family, blacklist, refreshing>>
        /\ UNCHANGED <<step, token, gone, until>>
        /\ epoch' = epoch + 1
        /\ active' = {t \in active : epoch + 1 < born[t] + life[t]}
    BY <1>3 DEF Service!Tick, Service!pairVars, Service!requestVars, Service!Ends
  <2>2. TokenTypes'
    BY <2>1, <1>t DEF TokenTypes
  <2>3. TokenTimes'
    BY <2>1, <1>t, <1>p, TokenConstants DEF TokenTimes
  <2>4. ASSUME NEW q \in Requests PROVE VerifyInv(q)'
    BY <2>1, <1>t, VerifyKept
  <2> QED
    BY <2>2, <2>3, <2>4 DEF TokenInv
<1>4. ASSUME NEW r \in Requests, NEW t \in Tokens, Service!StartVerify(r, t) PROVE TokenInv'
  <2>1. PICK there \in {"blacklist", "refused"} : step' = [step EXCEPT ![r] = there]
    BY <1>4 DEF Service!StartVerify, Service!Begin
  <2>2. /\ token' = [token EXCEPT ![r] = t] /\ t \in issued
        /\ gone' = [gone EXCEPT ![r] = t \notin active]
        /\ until' = [until EXCEPT ![r] = IF epoch < blacklist[t] THEN blacklist[t] ELSE 0]
        /\ UNCHANGED <<epoch, issued, born, life, active, family, blacklist, refreshing>>
    BY <1>4 DEF Service!StartVerify, Service!Begin, Service!redisVars, Service!pairVars,
                Service!Listed
  <2>3. ASSUME NEW q \in Requests
        PROVE  IF q = r
               THEN /\ step'[q] = there /\ token'[q] = t
                    /\ gone'[q] => t \notin active
                    /\ until'[q] = IF epoch < blacklist[t] THEN blacklist[t] ELSE 0
               ELSE /\ step'[q] = step[q] /\ token'[q] = token[q]
                    /\ gone'[q] = gone[q] /\ until'[q] = until[q]
    BY <2>1, <2>2, <1>t
  <2>4. /\ step' \in [Requests -> RequestSteps] /\ token' \in [Requests -> Tokens \cup {None}]
        /\ gone' \in [Requests -> BOOLEAN] /\ until' \in [Requests -> Nat]
    BY <2>1, <2>2, <1>t DEF RequestSteps
  <2>5. TokenTypes'
    BY <2>2, <2>3, <2>4, <1>t DEF TokenTypes
  <2>6. TokenTimes'
    BY <2>2, <1>p DEF TokenTimes
  <2>7. ASSUME NEW q \in Requests PROVE VerifyInv(q)'
    <3>1. CASE q # r
      BY <2>2, <2>3, <1>t, <3>1, VerifyKept
    <3>2. CASE q = r
      <4>1. /\ until'[r] <= blacklist[t]
            /\ until'[r] # 0 => born[t] + ListTime <= until'[r]
        <5>1. blacklist[t] \in Nat /\ (blacklist[t] # 0 => born[t] + ListTime <= blacklist[t])
          BY <1>t, <1>p
        <5>2. until'[r] \in {0, blacklist[t]}
          BY <2>3
        <5> QED
          BY <5>1, <5>2
      <4> QED
        BY <2>1, <2>2, <2>3, <3>2, <4>1 DEF VerifyInv
    <3> QED
      BY <3>1, <3>2
  <2> QED
    BY <2>5, <2>6, <2>7 DEF TokenInv
<1>5. ASSUME NEW r \in Requests, NEW t \in Tokens, Service!StartRefresh(r, t)
      PROVE  TokenInv'
  <2>1. PICK there \in {"lock", "refused"} : step' = [step EXCEPT ![r] = there]
    BY <1>5 DEF Service!StartRefresh, Service!Begin
  <2>2. token' = [token EXCEPT ![r] = t] /\ t \in issued
        /\ UNCHANGED <<epoch, issued, born, life, active, family, blacklist, refreshing>>
        /\ UNCHANGED <<gone, until>>
    BY <1>5 DEF Service!StartRefresh, Service!Begin, Service!redisVars, Service!pairVars
  <2>3. ASSUME NEW q \in Requests
        PROVE  IF q = r THEN step'[q] = there /\ token'[q] = t
               ELSE step'[q] = step[q] /\ token'[q] = token[q]
    BY <2>1, <2>2, <1>t
  <2>4. step' \in [Requests -> RequestSteps] /\ token' \in [Requests -> Tokens \cup {None}]
    BY <2>1, <2>2, <1>t DEF RequestSteps
  <2>5. TokenTypes'
    BY <2>2, <2>3, <2>4, <1>t DEF TokenTypes
  <2>6. TokenTimes'
    BY <2>2, <1>p DEF TokenTimes
  <2>7. ASSUME NEW q \in Requests PROVE VerifyInv(q)'
    <3>1. CASE q # r
      BY <2>2, <2>3, <1>t, <3>1, VerifyKept
    <3>2. CASE q = r
      BY <2>1, <2>3, <3>2 DEF VerifyInv
    <3> QED
      BY <3>1, <3>2
  <2> QED
    BY <2>5, <2>6, <2>7 DEF TokenInv
<1>6. ASSUME NEW r \in Requests, Service!CheckBlacklist(r) PROVE TokenInv'
  <2>1. PICK found \in {epoch < blacklist[token[r]], TRUE} :
          Service!Goto(r, IF found THEN "refused" ELSE "active")
    BY <1>6 DEF Service!CheckBlacklist, Service!IsBlacklisted, Service!Listed
  <2>2. step[r] = "blacklist"
        /\ UNCHANGED <<epoch, issued, born, life, active, family, blacklist, refreshing>>
    BY <1>6 DEF Service!CheckBlacklist, Service!At, Service!redisVars, Service!pairVars
  <2>3. PICK there \in {"refused", "active"} : there = IF found THEN "refused" ELSE "active"
    OBVIOUS
  <2>4. step'[r] = there /\ UNCHANGED <<token, gone, until>>
    BY <2>1, <2>3, <1>t DEF Service!Goto
  <2>5. there = "active" => ~(epoch < blacklist[token[r]])
    BY <2>1, <2>3
  <2>6. /\ gone[r] => token[r] \notin active
        /\ until[r] # 0 => born[token[r]] + ListTime <= until[r]
        /\ until[r] <= blacklist[token[r]]
    BY <1>p, <2>2 DEF VerifyInv
  <2>7. blacklist[token[r]] \in Nat /\ until[r] \in Nat
    BY <1>t, <2>2
  <2>8. VerifyInv(r)'
    BY <1>t, <2>2, <2>4, <2>5, <2>6, <2>7 DEF VerifyInv
  <2>9. Service!Goto(r, there) /\ there \in RequestSteps
    BY <2>1, <2>3 DEF RequestSteps
  <2> QED
    BY <2>2, <2>8, <2>9, <1>t, TokenGoto
<1>7. ASSUME NEW r \in Requests, Service!CheckActive(r) PROVE TokenInv'
  <2>1. step[r] = "active"
        /\ UNCHANGED <<epoch, issued, born, life, active, family, blacklist, refreshing>>
    BY <1>7 DEF Service!CheckActive, Service!At, Service!redisVars, Service!pairVars
  <2>2. PICK there \in {"refused", "accepted"} :
          Service!Goto(r, there) /\ (there = "accepted" => token[r] \in active)
    BY <1>7 DEF Service!CheckActive
  <2>3. step'[r] = there /\ UNCHANGED <<token, gone, until>>
    BY <2>2, <1>t DEF Service!Goto
  <2>4. /\ gone[r] => token[r] \notin active
        /\ until[r] # 0 => born[token[r]] + ListTime <= until[r]
        /\ until[r] <= epoch
    BY <1>p, <2>1 DEF VerifyInv
  <2>5. ASSUME there = "accepted", until[r] # 0 PROVE ListTime < life[token[r]]
    <3>1. token[r] \in Tokens /\ token[r] \in active
      BY <1>t, <2>2, <2>5
    <3>2. epoch < born[token[r]] + life[token[r]]
      BY <1>p, <3>1
    <3>3. born[token[r]] \in Nat /\ life[token[r]] \in Nat /\ until[r] \in Nat
      BY <1>t, <3>1
    <3> QED
      BY <1>t, <2>4, <2>5, <3>2, <3>3, TokenConstants
  <2>6. VerifyInv(r)'
    BY <2>1, <2>2, <2>3, <2>4, <2>5 DEF VerifyInv
  <2>7. there \in RequestSteps
    BY DEF RequestSteps
  <2> QED
    BY <2>1, <2>2, <2>6, <2>7, <1>t, TokenGoto
<1>8. ASSUME NEW r \in Requests, NEW there \in RequestSteps, Service!Goto(r, there),
             step[r] # "idle", there \notin {"blacklist", "active", "accepted"},
             UNCHANGED <<epoch, issued, born, life, active>>,
             family' \subseteq issued, refreshing' \in [Tokens -> Requests \cup {None}],
             blacklist' \in {blacklist, [blacklist EXCEPT ![token[r]] = epoch + ListTime]}
      PROVE  TokenInv'
  <2>1. step'[r] = there
    BY <1>8, <1>t DEF Service!Goto
  <2>2. VerifyInv(r)'
    BY <1>8, <2>1 DEF VerifyInv
  <2> QED
    BY <1>8, <2>2, TokenGoto
<1>9. ASSUME NEW r \in Requests, Service!AcquireLock(r) PROVE TokenInv'
  <2>1. step[r] = "lock" /\ UNCHANGED <<epoch, issued, born, life, active, family, blacklist>>
    BY <1>9 DEF Service!AcquireLock, Service!At, Service!redisVars, Service!pairVars
  <2>2. refreshing' \in [Tokens -> Requests \cup {None}]
    BY <1>9, <1>t DEF Service!AcquireLock
  <2>3. PICK there \in {"refused", "family"} : Service!Goto(r, there)
    BY <1>9 DEF Service!AcquireLock
  <2> QED
    BY <2>1, <2>2, <2>3, <1>t, <1>8 DEF RequestSteps
<1>10. ASSUME NEW r \in Requests, Service!ReadFamily(r) PROVE TokenInv'
  <2>1. step[r] = "family"
        /\ UNCHANGED <<epoch, issued, born, life, active, family, blacklist, refreshing>>
    BY <1>10 DEF Service!ReadFamily, Service!At, Service!redisVars, Service!pairVars
  <2>2. PICK there \in {"release", "invalidate"} : Service!Goto(r, there)
    BY <1>10 DEF Service!ReadFamily
  <2> QED
    BY <2>1, <2>2, <1>t, <1>8 DEF RequestSteps
<1>11. ASSUME NEW r \in Requests, Service!Blacklist(r) PROVE TokenInv'
  <2>1. step[r] = "invalidate"
        /\ UNCHANGED <<epoch, issued, born, life, active, family, refreshing>>
    BY <1>11 DEF Service!Blacklist, Service!At, Service!pairVars
  <2>2. PICK there \in {"release", "delete"} : Service!Goto(r, there)
    BY <1>11 DEF Service!Blacklist
  <2>3. blacklist' \in {blacklist, [blacklist EXCEPT ![token[r]] = epoch + ListTime]}
    BY <1>11 DEF Service!Blacklist
  <2> QED
    BY <2>1, <2>2, <2>3, <1>t, <1>8 DEF RequestSteps
<1>12. ASSUME NEW r \in Requests, Service!DeleteFamily(r) PROVE TokenInv'
  <2>1. step[r] = "delete"
        /\ UNCHANGED <<epoch, issued, born, life, active, blacklist, refreshing>>
    BY <1>12 DEF Service!DeleteFamily, Service!At, Service!pairVars
  <2>2. family' \subseteq family /\ Service!Goto(r, "release")
    BY <1>12 DEF Service!DeleteFamily
  <2> QED
    BY <2>1, <2>2, <1>t, <1>8 DEF RequestSteps
<1>13. ASSUME NEW r \in Requests, Service!ReleaseLock(r) PROVE TokenInv'
  <2>1. step[r] = "release"
        /\ UNCHANGED <<epoch, issued, born, life, active, family, blacklist>>
    BY <1>13 DEF Service!ReleaseLock, Service!At, Service!redisVars, Service!pairVars
  <2>2. refreshing' \in [Tokens -> Requests \cup {None}] /\ Service!Goto(r, "refused")
    BY <1>13, <1>t DEF Service!ReleaseLock
  <2> QED
    BY <2>1, <2>2, <1>t, <1>8 DEF RequestSteps
<1>14. ASSUME UNCHANGED tokenVars PROVE TokenInv'
  BY <1>14 DEF tokenVars, TokenInv, TokenTypes, TokenTimes, VerifyInv
<1> QED
  BY <1>1, <1>2, <1>3, <1>4, <1>5, <1>6, <1>7, <1>9, <1>10, <1>11, <1>12, <1>13, <1>14
     DEF Service!Next

LEMMA TokenDone == TokenInv => Service!BlacklistedReturnsByAge
  BY DEF TokenInv, TokenTypes, TokenTimes, VerifyInv, Service!BlacklistedReturnsByAge,
         Service!TypeOK, Service!At
-----------------------------------------------------------------------------
OperationStates ==
  [Requests -> [at : {"idle", "delete", "unlist", "deleteAll", "list", "orphan"},
                left : SUBSET Clients, orphan : SUBSET Clients]]

SessionInv ==
  /\ login \in [Clients -> {"new", "stored", "listed", "issued", "failed"}]
  /\ auth \in [Authenticated -> [at : {"idle", "read", "write"}, of : Clients \cup {None}]]
  /\ operation \in OperationStates
  /\ live \subseteq Clients /\ members \subseteq Clients
  /\ \A s \in Clients : login[s] = "new" =>
       /\ s \notin live \cup deleted \cup members
       /\ \A o \in Requests : s \notin operation[o].left
  /\ \A r \in Authenticated :
       /\ auth[r].at # "idle" => auth[r].of \in Clients /\ login[auth[r].of] # "new"
       /\ auth[r].at = "write" => auth[r].of \in live \/ r \in stale
  /\ Session!DeletedReturnsByOldWrite

LEMMA SessionInit ==
  ASSUME Session!Init
  PROVE  SessionInv
  BY DEF Session!Init, SessionInv, OperationStates, Session!DeletedReturnsByOldWrite

LEMMA OperationGoes ==
  ASSUME operation \in OperationStates, NEW o \in Requests,
         NEW there \in {"idle", "delete", "unlist", "deleteAll", "list", "orphan"},
         NEW remain \in SUBSET Clients, Session!Goes(o, there, remain)
  PROVE  /\ operation' \in OperationStates /\ operation'[o].left = remain
         /\ \A p \in Requests \ {o} : operation'[p] = operation[p]
  BY DEF Session!Goes, OperationStates

\* A key that goes is noted, and noted as one that may come back when a write is due.
LEMMA RemoveKeeps ==
  ASSUME SessionInv, NEW s \in Clients, login[s] # "new", Session!Remove(s),
         UNCHANGED <<login, auth, members, lost>>
  PROVE  /\ live' \subseteq Clients
         /\ \A q \in Clients : login[q] = "new" => q \notin live' \cup deleted' \cup members
         /\ \A r \in Authenticated :
              auth[r].at = "write" => auth[r].of \in live' \/ r \in stale'
         /\ Session!DeletedReturnsByOldWrite'
<1>1. /\ live' = live \ {s} /\ deleted' = deleted \cup {s} /\ revived' = revived \ {s}
      /\ stale' = stale \cup {r \in Authenticated : auth[r] = [at |-> "write", of |-> s]}
  BY DEF Session!Remove
<1>2. ASSUME NEW r \in Authenticated, auth[r].at = "write"
      PROVE  auth[r].of \in live' \/ r \in stale'
  <2>1. auth[r].of \in live \/ r \in stale
    BY <1>2 DEF SessionInv
  <2>2. CASE auth[r].of = s
    <3>1. auth[r] = [at |-> "write", of |-> s]
      BY <1>2, <2>2 DEF SessionInv
    <3> QED
      BY <1>1, <2>2, <3>1
  <2> QED
    BY <1>1, <2>1, <2>2
<1>3. Session!DeletedReturnsByOldWrite'
  BY <1>1 DEF SessionInv, Session!DeletedReturnsByOldWrite
<1> QED
  BY <1>1, <1>2, <1>3 DEF SessionInv

LEMMA SessionNext ==
  ASSUME SessionInv, [Session!Next]_sessionVars
  PROVE  SessionInv'
<1>1. ASSUME NEW s \in Clients, Session!Create(s) PROVE SessionInv'
  BY <1>1 DEF SessionInv, Session!Create, Session!DeletedReturnsByOldWrite
<1>2. ASSUME NEW s \in Clients, Session!Enlist(s) PROVE SessionInv'
  BY <1>2 DEF SessionInv, Session!Enlist, Session!DeletedReturnsByOldWrite
<1>3. ASSUME NEW s \in Clients, Session!Issue(s) PROVE SessionInv'
  BY <1>3 DEF SessionInv, Session!Issue, Session!DeletedReturnsByOldWrite, Session!storeVars
<1>4. ASSUME NEW r \in Authenticated, NEW s \in Clients, Session!Authenticate(r, s)
      PROVE  SessionInv'
  BY <1>4 DEF SessionInv, Session!Authenticate, Session!DeletedReturnsByOldWrite,
              Session!storeVars
<1>5. ASSUME NEW r \in Authenticated, Session!ReadAgain(r) PROVE SessionInv'
  BY <1>5 DEF SessionInv, Session!ReadAgain, Session!To, Session!DeletedReturnsByOldWrite,
              Session!storeVars
<1>6. ASSUME NEW r \in Authenticated, Session!Update(r) PROVE SessionInv'
  <2>1. /\ auth[r].at = "write"
        /\ auth' = [auth EXCEPT ![r] = [at |-> "idle", of |-> None]]
        /\ live \subseteq live' /\ live' \subseteq live \cup {auth[r].of}
        /\ revived \subseteq revived' /\ stale' = stale \ {r}
        /\ r \in stale /\ live' # live => auth[r].of \in revived'
        /\ UNCHANGED <<login, operation, members, deleted, lost>>
    BY <1>6 DEF Session!Update, Session!To
  <2>2. auth[r].of \in Clients /\ live' \subseteq live \cup revived'
    BY <2>1 DEF SessionInv
  <2>8. \A q \in Authenticated : q # r => (q \in stale' <=> q \in stale)
    BY <2>1
  <2>9. auth'[r].at = "idle"
    BY <2>1 DEF SessionInv
  <2>3. auth' \in [Authenticated -> [at : {"idle", "read", "write"},
                                     of : Clients \cup {None}]]
    BY <2>1 DEF SessionInv
  <2>4. \A q \in Authenticated : auth'[q].at # "idle" => auth'[q] = auth[q]
    BY <2>1 DEF SessionInv
  <2>5. login[auth[r].of] # "new"
    BY <2>1 DEF SessionInv
  <2>6. ASSUME NEW s \in Clients, login[s] = "new" PROVE s \notin live'
    BY <2>1, <2>5, <2>6 DEF SessionInv
  <2>7. Session!DeletedReturnsByOldWrite'
    BY <2>1, <2>2 DEF SessionInv, Session!DeletedReturnsByOldWrite
  <2> QED
    BY <2>1, <2>2, <2>3, <2>4, <2>6, <2>7, <2>8, <2>9 DEF SessionInv
<1>7. ASSUME NEW o \in Requests, NEW s \in Clients, Session!StartDelete(o, s)
      PROVE  SessionInv'
  <2>1. login[s] # "new" /\ {s} \in SUBSET Clients
    BY <1>7 DEF Session!StartDelete, SessionInv
  <2>2. operation' \in OperationStates /\ operation'[o].left = {s}
        /\ \A p \in Requests \ {o} : operation'[p] = operation[p]
    BY <1>7, <2>1, OperationGoes DEF Session!StartDelete, SessionInv
  <2> QED
    BY <1>7, <2>1, <2>2 DEF SessionInv, Session!StartDelete, Session!DeletedReturnsByOldWrite,
                            Session!storeVars
<1>8. ASSUME NEW o \in Requests, Session!DeleteKey(o) PROVE SessionInv'
  <2>1. PICK s \in operation[o].left : Session!Remove(s)
    BY <1>8 DEF Session!DeleteKey
  <2>2. /\ UNCHANGED <<login, auth, members, lost>>
        /\ Session!Goes(o, "unlist", operation[o].left)
    BY <1>8 DEF Session!DeleteKey
  <2>3. operation[o].left \in SUBSET Clients
    BY DEF SessionInv, OperationStates
  <2>4. /\ operation' \in OperationStates
        /\ \A p \in Requests : operation'[p].left = operation[p].left
    BY <2>2, <2>3, OperationGoes DEF SessionInv
  <2>5. s \in Clients /\ login[s] # "new"
    BY <2>1, <2>3 DEF SessionInv
  <2> QED
    BY <2>1, <2>2, <2>4, <2>5, RemoveKeeps DEF SessionInv
<1>9. ASSUME NEW o \in Requests, Session!Unlist(o) PROVE SessionInv'
  <2>1. operation[o].left \in SUBSET Clients
    BY DEF SessionInv, OperationStates
  <2>2. operation' \in OperationStates
          /\ \A p \in Requests : operation'[p].left \subseteq operation[p].left
    BY <1>9, OperationGoes DEF Session!Unlist, SessionInv
  <2> QED
    BY <1>9, <2>1, <2>2 DEF SessionInv, Session!Unlist, Session!DeletedReturnsByOldWrite
<1>10. ASSUME NEW o \in Requests, Session!ReadMembers(o) PROVE SessionInv'
  BY <1>10 DEF SessionInv, OperationStates, Session!ReadMembers,
               Session!DeletedReturnsByOldWrite, Session!storeVars
<1>11. ASSUME NEW o \in Requests, Session!DeleteNext(o) PROVE SessionInv'
  <2>1. PICK s \in operation[o].left : Session!Remove(s)
          /\ Session!Goes(o, "deleteAll", operation[o].left \ {s})
    BY <1>11 DEF Session!DeleteNext
  <2>2. operation[o].left \in SUBSET Clients
    BY DEF SessionInv, OperationStates
  <2>3. operation' \in OperationStates
          /\ \A p \in Requests : operation'[p].left \subseteq operation[p].left
    BY <2>1, <2>2, OperationGoes DEF SessionInv
  <2>4. s \in Clients /\ login[s] # "new" /\ UNCHANGED <<login, auth, members, lost>>
    BY <1>11, <2>1, <2>2 DEF SessionInv, Session!DeleteNext
  <2> QED
    BY <2>1, <2>3, <2>4, RemoveKeeps DEF SessionInv
<1>12. ASSUME NEW o \in Requests, Session!DeleteMembers(o) PROVE SessionInv'
  <2>1. operation' \in OperationStates
          /\ \A p \in Requests : operation'[p].left \subseteq operation[p].left
    BY <1>12, OperationGoes DEF Session!DeleteMembers, SessionInv
  <2> QED
    BY <1>12, <2>1 DEF SessionInv, Session!DeleteMembers, Session!DeletedReturnsByOldWrite
<1>13. ASSUME NEW o \in Requests, Session!Inspect(o) PROVE SessionInv'
  <2>1. UNCHANGED <<login, auth, live, members, deleted, stale, revived, lost>>
    BY <1>13 DEF Session!Inspect, Session!storeVars
  <2>2. operation[o].left \in SUBSET Clients
    BY DEF SessionInv, OperationStates
  <2> DEFINE Fewer == operation' \in OperationStates
                      /\ \A p \in Requests : operation'[p].left \subseteq operation[p].left
  <2>3. ASSUME operation[o].left = {}, Session!Goes(o, "idle", {}) PROVE Fewer
    BY <2>3, OperationGoes DEF SessionInv
  <2>4. ASSUME NEW s \in operation[o].left, Session!Goes(o, "list", operation[o].left \ {s})
        PROVE  Fewer
    BY <2>2, <2>4, OperationGoes DEF SessionInv
  <2>5. ASSUME NEW s \in operation[o].left,
               operation' =
                 [operation EXCEPT ![o] =
                  [at |-> "orphan", left |-> @.left \ {s}, orphan |-> {s}]]
        PROVE  Fewer
    BY <2>2, <2>5 DEF SessionInv, OperationStates
  <2>6. Fewer
    BY <1>13, <2>3, <2>4, <2>5 DEF Session!Inspect
  <2> QED
    BY <2>1, <2>6 DEF SessionInv, Session!DeletedReturnsByOldWrite
<1>14. ASSUME NEW o \in Requests, Session!TakeOut(o) PROVE SessionInv'
  <2>1. UNCHANGED <<login, auth, live, deleted, stale, revived>> /\ members' \subseteq members
        /\ members \cap live \subseteq members' \cup lost' /\ lost \subseteq lost'
    BY <1>14 DEF Session!TakeOut
  <2>2. /\ operation' \in OperationStates
        /\ \A p \in Requests : operation'[p].left = operation[p].left
    BY <1>14 DEF Session!TakeOut, SessionInv, OperationStates
  <2> QED
    BY <2>1, <2>2 DEF SessionInv, Session!DeletedReturnsByOldWrite
<1>15. ASSUME NEW o \in Requests, Session!Swallow(o) PROVE SessionInv'
  BY <1>15 DEF SessionInv, OperationStates, Session!Swallow, Session!DeletedReturnsByOldWrite,
               Session!storeVars
<1>16. ASSUME NEW s \in Clients, Session!Expire(s) PROVE SessionInv'
  BY <1>16 DEF SessionInv, Session!Expire, Session!Remove, Session!DeletedReturnsByOldWrite
<1>17. ASSUME UNCHANGED sessionVars PROVE SessionInv'
  BY <1>17 DEF SessionInv, sessionVars, Session!DeletedReturnsByOldWrite
<1> QED
  BY <1>1, <1>2, <1>3, <1>4, <1>5, <1>6, <1>7, <1>8, <1>9, <1>10, <1>11, <1>12, <1>13,
     <1>14, <1>15, <1>16, <1>17 DEF Session!Next

\* For any number of tokens, sessions, requests and operations in any order, and any lives
\* of tokens: a verification refuses a token that was revoked before it began, and a
\* blacklisted one while its entry lasts and, unless the token lives longer than an entry,
\* for good; a deleted session returns only by a write that had read it before
\* (jwt-service.ts:150-188, 220-229, 548, auth/middleware.ts:387-460).
THEOREM OnlyTheseReturn == Spec => []NoOtherReturn
<1>1. Init => TokenInv /\ SessionInv
  BY TokenInit, SessionInit DEF Init
<1>2. TokenInv /\ SessionInv /\ [Next]_all => (TokenInv /\ SessionInv)'
  BY LegacySteps, TokenNext, SessionNext
<1>3. TokenInv /\ SessionInv => NoOtherReturn
  BY TokenDone DEF SessionInv, NoOtherReturn
<1> QED
  BY <1>1, <1>2, <1>3, PTL DEF Spec
-----------------------------------------------------------------------------
(***************************************************************************)
(* Sockets, the SDK and Vault                                              *)
(***************************************************************************)
LEMMA SocketsAreFinite == IsFiniteSet(Sockets)
<1>1. IsFiniteSet({s1}) /\ IsFiniteSet({s2}) /\ IsFiniteSet({s3})
  BY FS_Singleton
<1>2. IsFiniteSet({s1} \cup {s2})
  BY <1>1, FS_Union
<1>3. IsFiniteSet(({s1} \cup {s2}) \cup {s3})
  BY <1>1, <1>2, FS_Union
<1>4. Sockets = ({s1} \cup {s2}) \cup {s3}
  BY DEF Sockets
<1> QED
  BY <1>3, <1>4

\* Of sockets, those that go and those that stay are all there were.
LEMMA GoneAndLeft ==
  ASSUME NEW places \in SUBSET Sockets, NEW departed \in SUBSET places
  PROVE  /\ Manager!Cardinality(departed) \in Nat /\ Manager!Cardinality(places) \in Nat
         /\ Manager!Cardinality(places \ departed) \in Nat
         /\ Manager!Cardinality(places) =
            Manager!Cardinality(places \ departed) + Manager!Cardinality(departed)
<1>1. \A S : Manager!Cardinality(S) = Cardinality(S)
  BY DEF Manager!Cardinality, Cardinality
<1>2. IsFiniteSet(places) /\ IsFiniteSet(departed) /\ IsFiniteSet(places \ departed)
  BY SocketsAreFinite, FS_Subset
<1>3. (places \ departed) \cup departed = places /\ (places \ departed) \cap departed = {}
  OBVIOUS
<1>4. Cardinality((places \ departed) \cup departed) =
        Cardinality(places \ departed) + Cardinality(departed)
          - Cardinality((places \ departed) \cap departed)
  BY <1>2, FS_Union
<1>5. Cardinality({}) = 0
  BY FS_EmptySet
<1>6. /\ Cardinality(places \ departed) \in Nat /\ Cardinality(departed) \in Nat
      /\ Cardinality(places) \in Nat
  BY <1>2, FS_CardinalityType
<1>7. Cardinality(places) = Cardinality(places \ departed) + Cardinality(departed)
  <2>1. Cardinality(places) = Cardinality(places \ departed) + Cardinality(departed) - 0
    BY <1>3, <1>4, <1>5, Zenon
  <2>2. ASSUME NEW a, NEW b \in Nat, NEW c \in Nat, a = b + c - 0 PROVE a = b + c
    BY <2>2
  <2> QED
    BY <1>6, <2>1, <2>2
<1> QED
  BY <1>1, <1>6, <1>7

\* One socket takes one place.
LEMMA OneMore ==
  ASSUME NEW some \in SUBSET Sockets, NEW s \in Sockets, s \notin some
  PROVE  /\ Manager!Cardinality(some) \in Nat
         /\ Manager!Cardinality(some \cup {s}) = Manager!Cardinality(some) + 1
<1>1. Manager!Cardinality(some \cup {s}) = Cardinality(some \cup {s})
      /\ Manager!Cardinality(some) = Cardinality(some)
  BY DEF Manager!Cardinality, Cardinality
<1>2. IsFiniteSet(some)
  BY SocketsAreFinite, FS_Subset
<1> QED
  BY <1>1, <1>2, FS_AddElement, FS_CardinalityType

LEMMA OneIsOne ==
  ASSUME NEW s
  PROVE  Manager!Cardinality({s}) = 1
<1>1. Manager!Cardinality({s}) = Cardinality({s})
  BY DEF Manager!Cardinality, Cardinality
<1> QED
  BY <1>1, FS_Singleton

LEMMA FewerPlaces ==
  ASSUME NEW some \in SUBSET Sockets, NEW fewer \in SUBSET some
  PROVE  /\ Manager!Cardinality(fewer) \in Nat /\ Manager!Cardinality(some) \in Nat
         /\ Manager!Cardinality(fewer) <= Manager!Cardinality(some)
<1>1. /\ Manager!Cardinality(fewer) = Cardinality(fewer)
      /\ Manager!Cardinality(some) = Cardinality(some)
  BY DEF Manager!Cardinality, Cardinality
<1>2. IsFiniteSet(some)
  BY SocketsAreFinite, FS_Subset
<1> QED
  BY <1>1, <1>2, FS_Subset, FS_CardinalityType

LEMMA ManagerInit ==
  ASSUME Manager!Init
  PROVE  Manager!PlacesAreCounted
<1>1. Manager!Cardinality({}) = 0
  BY FS_EmptySet DEF Manager!Cardinality, Cardinality
<1>2. connections = {} /\ connectionCount = 0 /\ socket = [s \in Sockets |-> "new"]
      /\ twice = 0 /\ crowded = {}
  BY DEF Manager!Init
<1>3. {s \in Sockets : socket[s] = "open"} = {} /\ Manager!Admitted = {}
  BY <1>2 DEF Manager!Admitted
<1>4. (connections \cup Manager!Admitted) \ crowded = {}
  BY <1>2, <1>3
<1>5. MaxConnections \in Nat
  BY OutsideAssumption
<1>6. 0 <= MaxConnections + twice /\ connectionCount = 0 - twice
  BY <1>2, <1>5
<1> QED
  BY <1>1, <1>2, <1>3, <1>4, <1>6 DEF Manager!PlacesAreCounted, Manager!TypeOK

\* The parts of the invariant, and what a step has to show.
LEMMA PlacesOf ==
  ASSUME Manager!PlacesAreCounted
  PROVE  /\ socket \in [Sockets -> {"new", "admitted", "open", "closed"}]
         /\ connectionCount \in Int /\ twice \in Nat /\ crowded \in SUBSET Sockets
         /\ connections = {s \in Sockets : socket[s] = "open"}
         /\ connections \in SUBSET Sockets /\ Manager!Admitted \in SUBSET Sockets
         /\ \A s \in Sockets : s \in Manager!Admitted <=> socket[s] = "admitted"
         /\ Manager!Cardinality(connections) \in Nat
         /\ connectionCount = Manager!Cardinality(connections) - twice
         /\ MaxConnections \in Nat
         /\ Manager!Cardinality((connections \cup Manager!Admitted) \ crowded) <=
              MaxConnections + twice
<1> HIDE DEF Sockets
<1>1. /\ socket \in [Sockets -> {"new", "admitted", "open", "closed"}]
      /\ connections = {s \in Sockets : socket[s] = "open"}
      /\ Manager!Admitted = {s \in Sockets : socket[s] = "admitted"}
  BY DEF Manager!PlacesAreCounted, Manager!TypeOK, Manager!Admitted
<1>2. connections \in SUBSET Sockets
  BY <1>1
<1>3. Manager!Cardinality(connections) \in Nat
  BY <1>2, FewerPlaces
<1>4. MaxConnections \in Nat
  BY OutsideAssumption
<1> QED
  BY <1>1, <1>2, <1>3, <1>4 DEF Manager!PlacesAreCounted, Manager!TypeOK

\* Sockets that go free their places, "more" of them once too often.
LEMMA PlacesAreFreed ==
  ASSUME Manager!PlacesAreCounted, NEW departed \in SUBSET connections, NEW more \in Nat,
         socket' = [s \in Sockets |-> IF s \in departed THEN "closed" ELSE socket[s]],
         connections' = connections \ departed,
         connectionCount' = connectionCount - Manager!Cardinality(departed) - more,
         twice' = twice + more, crowded' = crowded
  PROVE  Manager!PlacesAreCounted'
<1> DEFINE places == (connections \cup Manager!Admitted) \ crowded
<1> DEFINE left == (connections' \cup Manager!Admitted') \ crowded'
<1>1. /\ socket \in [Sockets -> {"new", "admitted", "open", "closed"}]
      /\ connectionCount \in Int /\ twice \in Nat /\ crowded \in SUBSET Sockets
      /\ connections = {s \in Sockets : socket[s] = "open"}
      /\ Manager!Cardinality(connections) \in Nat
      /\ connectionCount = Manager!Cardinality(connections) - twice
      /\ MaxConnections \in Nat /\ places \in SUBSET Sockets
      /\ Manager!Cardinality(places) <= MaxConnections + twice
  BY PlacesOf
<1>2. socket' \in [Sockets -> {"new", "admitted", "open", "closed"}]
  BY <1>1
<1>3. connections' = {s \in Sockets : socket'[s] = "open"}
  <2> HIDE DEF Sockets
  <2>1. \A s : s \in connections' <=> s \in Sockets /\ socket'[s] = "open"
    BY <1>1
  <2> QED
    BY <2>1
<1>4. /\ Manager!Cardinality(departed) \in Nat /\ Manager!Cardinality(connections') \in Nat
      /\ Manager!Cardinality(connections) =
         Manager!Cardinality(connections') + Manager!Cardinality(departed)
  BY <1>1, GoneAndLeft
<1>5. ASSUME NEW c \in Int, NEW d \in Nat, NEW e \in Nat, NEW t \in Nat, c = (e + d) - t
      PROVE  c - d - more \in Int /\ c - d - more = e - (t + more)
  BY <1>5
<1>6. connectionCount' \in Int
      /\ connectionCount' = Manager!Cardinality(connections') - twice'
  BY <1>1, <1>4, <1>5
<1>7. left \in SUBSET places
  <2> HIDE DEF Sockets
  <2>1. Manager!Admitted' \subseteq Manager!Admitted
    BY <1>1 DEF Manager!Admitted
  <2> QED
    BY <2>1
<1>8. Manager!Cardinality(left) <= MaxConnections + twice'
  <2> HIDE DEF places, left
  <2>1. /\ Manager!Cardinality(left) \in Nat /\ Manager!Cardinality(places) \in Nat
        /\ Manager!Cardinality(left) <= Manager!Cardinality(places)
    BY <1>1, <1>7, FewerPlaces
  <2> QED
    BY <1>1, <2>1
<1>9. twice' \in Nat /\ crowded' \subseteq Sockets
  BY <1>1
<1> QED
  BY <1>2, <1>3, <1>6, <1>8, <1>9 DEF Manager!PlacesAreCounted, Manager!TypeOK

\* A socket is let in below the limit; unless another waits to be counted, those that
\* have a place are connections.
LEMMA PlaceIsTaken ==
  ASSUME Manager!PlacesAreCounted, NEW s \in Sockets, socket[s] = "new",
         connectionCount < MaxConnections, socket' = [socket EXCEPT ![s] = "admitted"],
         crowded' = crowded \cup {t \in {s} : Manager!Admitted # {}},
         UNCHANGED <<connections, connectionCount, twice>>
  PROVE  Manager!PlacesAreCounted'
<1> DEFINE places == (connections \cup Manager!Admitted) \ crowded
<1> DEFINE taken == (connections' \cup Manager!Admitted') \ crowded'
<1>1. /\ socket \in [Sockets -> {"new", "admitted", "open", "closed"}]
      /\ connectionCount \in Int /\ twice \in Nat /\ crowded \in SUBSET Sockets
      /\ connections = {q \in Sockets : socket[q] = "open"}
      /\ connections \in SUBSET Sockets
      /\ Manager!Cardinality(connections) \in Nat
      /\ connectionCount = Manager!Cardinality(connections) - twice
      /\ MaxConnections \in Nat /\ places \in SUBSET Sockets
      /\ Manager!Cardinality(places) <= MaxConnections + twice
  BY PlacesOf
<1> HIDE DEF Sockets
<1>2. socket' \in [Sockets -> {"new", "admitted", "open", "closed"}]
      /\ crowded' \subseteq Sockets
  BY <1>1
<1>3. connections' = {q \in Sockets : socket'[q] = "open"}
  <2>1. \A q : q \in connections <=> q \in Sockets /\ socket'[q] = "open"
    BY <1>1
  <2> QED
    BY <2>1
<1>4. Manager!Admitted' = Manager!Admitted \cup {s}
  BY <1>1 DEF Manager!Admitted
<1>5. Manager!Cardinality(taken) <= MaxConnections + twice
  <2>1. CASE Manager!Admitted # {}
    <3>1. taken \in SUBSET places
      BY <1>4, <2>1
    <3> HIDE DEF places, taken
    <3>2. Manager!Cardinality(taken) \in Nat /\ Manager!Cardinality(places) \in Nat
          /\ Manager!Cardinality(taken) <= Manager!Cardinality(places)
      BY <1>1, <3>1, FewerPlaces
    <3> QED
      BY <1>1, <3>2
  <2>2. CASE Manager!Admitted = {}
    <3>1. taken \in SUBSET (connections \cup {s})
      BY <1>4, <2>2
    <3>2. s \notin connections
      BY <1>1
    <3>3. Manager!Cardinality(connections \cup {s}) = Manager!Cardinality(connections) + 1
      BY <1>1, <3>2, OneMore
    <3> HIDE DEF places, taken
    <3>4. connections \cup {s} \in SUBSET Sockets
      BY <1>1
    <3>5. Manager!Cardinality(taken) \in Nat
          /\ Manager!Cardinality(taken) <= Manager!Cardinality(connections \cup {s})
      BY <3>1, <3>4, FewerPlaces
    <3>6. ASSUME NEW c \in Nat, NEW t \in Nat, NEW m \in Nat, c - t < m
          PROVE  c + 1 <= m + t
      BY <3>6
    <3>7. Manager!Cardinality(connections) + 1 <= MaxConnections + twice
      BY <1>1, <3>6
    <3>8. ASSUME NEW a \in Nat, NEW c \in Nat, NEW d \in Nat, a <= c, c <= d PROVE a <= d
      BY <3>8
    <3> QED
      BY <1>1, <3>3, <3>5, <3>7, <3>8
  <2> QED
    BY <2>1, <2>2
<1> QED
  BY <1>1, <1>2, <1>3, <1>5 DEF Manager!PlacesAreCounted, Manager!TypeOK

LEMMA ManagerNext ==
  ASSUME Manager!PlacesAreCounted, [Manager!Next]_managerVars
  PROVE  Manager!PlacesAreCounted'
<1>t. /\ socket \in [Sockets -> {"new", "admitted", "open", "closed"}]
      /\ connectionCount \in Int /\ twice \in Nat /\ crowded \in SUBSET Sockets
      /\ connections = {s \in Sockets : socket[s] = "open"}
      /\ connections \in SUBSET Sockets
      /\ Manager!Cardinality(connections) \in Nat
      /\ connectionCount = Manager!Cardinality(connections) - twice
      /\ MaxConnections \in Nat
      /\ Manager!Cardinality((connections \cup Manager!Admitted) \ crowded) <=
           MaxConnections + twice
  BY PlacesOf
<1> HIDE DEF Sockets
\* A socket that is refused.
<1>1. ASSUME NEW s \in Sockets, socket[s] = "new", Manager!Become(s, "closed"),
             UNCHANGED <<connections, connectionCount, twice, crowded>>
      PROVE  Manager!PlacesAreCounted'
  <2>1. socket' = [socket EXCEPT ![s] = "closed"]
    BY <1>1 DEF Manager!Become
  <2>2. \A q : q \in connections <=> q \in Sockets /\ socket'[q] = "open"
    BY <1>1, <1>t, <2>1
  <2>3. connections = {q \in Sockets : socket'[q] = "open"}
    BY <2>2
  <2>4. Manager!Admitted' = Manager!Admitted
    BY <1>1, <1>t, <2>1 DEF Manager!Admitted
  <2>5. socket' \in [Sockets -> {"new", "admitted", "open", "closed"}]
    BY <1>t, <2>1
  <2>6. (connections' \cup Manager!Admitted') \ crowded' =
          (connections \cup Manager!Admitted) \ crowded
    BY <1>1, <2>4
  <2> QED
    BY <1>1, <1>t, <2>3, <2>5, <2>6 DEF Manager!PlacesAreCounted, Manager!TypeOK
<1>2. ASSUME NEW s \in Sockets, Manager!Admit(s) \/ Manager!RefuseSocket(s)
      PROVE  Manager!PlacesAreCounted'
  <2>1. CASE Manager!RefuseSocket(s)
    BY <1>1, <2>1 DEF Manager!RefuseSocket
  <2>2. CASE Manager!Admit(s) /\ connectionCount < MaxConnections
    BY <1>2, <2>2, PlaceIsTaken DEF Manager!Admit, Manager!Become
  <2>3. CASE Manager!Admit(s) /\ ~(connectionCount < MaxConnections)
    BY <1>1, <2>3 DEF Manager!Admit
  <2> QED
    BY <1>2, <2>1, <2>2, <2>3
<1>3. ASSUME NEW s \in Sockets, Manager!HandleConnection(s) PROVE Manager!PlacesAreCounted'
  <2>1. /\ socket[s] = "admitted" /\ socket' = [socket EXCEPT ![s] = "open"]
        /\ connections' = connections \cup {s} /\ connectionCount' = connectionCount + 1
        /\ UNCHANGED <<twice, crowded>>
    BY <1>3 DEF Manager!HandleConnection, Manager!Become
  <2>2. \A q : q \in connections' <=> q \in Sockets /\ socket'[q] = "open"
    BY <1>t, <2>1
  <2>3. connections' = {q \in Sockets : socket'[q] = "open"}
    BY <2>2
  <2>4. s \notin connections
    BY <1>t, <2>1
  <2>5. Manager!Cardinality(connections') = Manager!Cardinality(connections) + 1
    BY <1>t, <2>1, <2>4, OneMore
  <2>6. connectionCount' \in Int
        /\ connectionCount' = Manager!Cardinality(connections') - twice'
    BY <1>t, <2>1, <2>5
  <2>7. socket' \in [Sockets -> {"new", "admitted", "open", "closed"}]
    BY <1>t, <2>1
  <2>8. (connections' \cup Manager!Admitted') \ crowded' =
          (connections \cup Manager!Admitted) \ crowded
    <3>1. s \in Manager!Admitted /\ Manager!Admitted' = Manager!Admitted \ {s}
      BY <1>3, <1>t, <2>1 DEF Manager!Admitted
    <3> QED
      BY <2>1, <3>1
  <2> QED
    BY <1>t, <2>1, <2>3, <2>6, <2>7, <2>8 DEF Manager!PlacesAreCounted, Manager!TypeOK
<1>4. ASSUME NEW s \in Sockets, Manager!HandleDisconnection(s)
      PROVE  Manager!PlacesAreCounted'
  <2>1. /\ s \in connections /\ socket' = [socket EXCEPT ![s] = "closed"]
        /\ connections' = connections \ {s}
        /\ connectionCount' = connectionCount - Manager!Cardinality({s})
        /\ twice' = twice /\ crowded' = crowded
    BY <1>4 DEF Manager!HandleDisconnection, Manager!Become, Manager!FreedBy
  <2>2. socket' = [q \in Sockets |-> IF q \in {s} THEN "closed" ELSE socket[q]]
    BY <1>t, <2>1
  <2>3. connectionCount' = connectionCount - Manager!Cardinality({s}) - 0
        /\ twice' = twice + 0
    BY <1>t, <2>1, OneIsOne
  <2>4. {s} \in SUBSET connections
    BY <2>1
  <2> QED
    BY <2>1, <2>2, <2>3, <2>4, PlacesAreFreed
<1>5. ASSUME NEW departed \in SUBSET connections, Manager!Disconnect(departed)
      PROVE  Manager!PlacesAreCounted'
  <2>1. /\ socket' = [q \in Sockets |-> IF q \in departed THEN "closed" ELSE socket[q]]
        /\ connections' = connections \ departed
        /\ connectionCount' =
           connectionCount - Manager!Cardinality(departed) - Manager!Cardinality(departed)
        /\ twice' = twice + Manager!Cardinality(departed) /\ crowded' = crowded
    BY <1>5 DEF Manager!Disconnect, Manager!FreedBy
  <2>2. Manager!Cardinality(departed) \in Nat
    BY <1>t, GoneAndLeft
  <2> QED
    BY <2>1, <2>2, PlacesAreFreed
<1>6. ASSUME Manager!CleanUp PROVE Manager!PlacesAreCounted'
  BY <1>5, <1>6 DEF Manager!CleanUp
<1>7. ASSUME NEW u, Manager!DisconnectUser(u) PROVE Manager!PlacesAreCounted'
  BY <1>5, <1>7 DEF Manager!DisconnectUser
<1>8. ASSUME UNCHANGED <<socket, connections, connectionCount, twice, crowded>>
      PROVE  Manager!PlacesAreCounted'
  BY <1>8 DEF Manager!PlacesAreCounted, Manager!TypeOK, Manager!Admitted
<1>9. ASSUME NEW s \in Sockets,
             \/ Manager!HandleMessage(s) \/ Manager!HandleRequest(s)
             \/ Manager!CheckPermission(s)
             \/ Manager!FinishRequest(s) \/ Manager!GoInactive(s)
      PROVE  Manager!PlacesAreCounted'
  BY <1>8, <1>9 DEF Manager!HandleMessage, Manager!HandleRequest, Manager!CheckPermission,
                    Manager!FinishRequest, Manager!GoInactive, Manager!socketVars
<1> QED
  BY <1>2, <1>3, <1>4, <1>6, <1>7, <1>8, <1>9 DEF Manager!Next, managerVars
-----------------------------------------------------------------------------
ClientInv ==
  /\ link \in [Clients -> {"none", "connecting", "connected", "lost", "closed"}]
  /\ call \in [Requests -> {"new", "socket", "http", "resolved", "rejected"}]
  /\ Sdk!PendingIsTimed

LEMMA ClientInit ==
  ASSUME Sdk!Init
  PROVE  ClientInv
  BY DEF Sdk!Init, ClientInv, Sdk!PendingIsTimed

LEMMA ClientNext ==
  ASSUME ClientInv, [Sdk!Next]_clientVars
  PROVE  ClientInv'
<1>t. /\ timers = {r \in Requests : call[r] = "socket"} /\ messageQueue = timers
      /\ (connected => \E s \in Clients : link[s] = "connected")
      /\ link \in [Clients -> {"none", "connecting", "connected", "lost", "closed"}]
      /\ call \in [Requests -> {"new", "socket", "http", "resolved", "rejected"}]
  BY DEF ClientInv, Sdk!PendingIsTimed
<1>1. ASSUME UNCHANGED <<call, timers, messageQueue>>,
             link' \in [Clients -> {"none", "connecting", "connected", "lost", "closed"}],
             connected' => \E s \in Clients : link'[s] = "connected"
      PROVE  ClientInv'
  BY <1>1, <1>t DEF ClientInv, Sdk!PendingIsTimed
<1>2. ASSUME NEW r \in Requests, NEW how \in {"socket", "http", "resolved", "rejected"},
             call' = [call EXCEPT ![r] = how], UNCHANGED <<link, connected>>,
             timers' = IF how = "socket" THEN timers \cup {r} ELSE timers \ {r},
             messageQueue' = timers'
      PROVE  ClientInv'
  <2>1. \A q : q \in timers' <=> q \in Requests /\ call'[q] = "socket"
    BY <1>2, <1>t
  <2>2. timers' = {q \in Requests : call'[q] = "socket"}
    BY <2>1
  <2> QED
    BY <1>2, <1>t, <2>2 DEF ClientInv, Sdk!PendingIsTimed
<1>3. ASSUME NEW s \in Clients,
             \/ Sdk!Connect(s) \/ Sdk!OnConnect(s)
             \/ Sdk!OnDisconnect(s) \/ Sdk!ConnectFails(s)
      PROVE  ClientInv'
  <2>1. UNCHANGED <<call, timers, messageQueue>>
    BY <1>3 DEF Sdk!Connect, Sdk!OnConnect, Sdk!OnDisconnect, Sdk!ConnectFails, Sdk!callVars
  <2>2. link' \in [Clients -> {"none", "connecting", "connected", "lost", "closed"}]
    BY <1>3, <1>t DEF Sdk!Connect, Sdk!OnConnect, Sdk!OnDisconnect, Sdk!ConnectFails
  <2>3. connected' => \E q \in Clients : link'[q] = "connected"
    BY <1>3, <1>t DEF Sdk!Connect, Sdk!OnConnect, Sdk!OnDisconnect, Sdk!ConnectFails
  <2> QED
    BY <1>1, <2>1, <2>2, <2>3
<1>4. ASSUME Sdk!Disconnect PROVE ClientInv'
  BY <1>1, <1>4, <1>t DEF Sdk!Disconnect, Sdk!callVars
<1>5. ASSUME NEW r \in Requests, Sdk!Request(r) PROVE ClientInv'
  <2>1. CASE Sdk!SendViaWebSocket(r)
    BY <1>2, <1>5, <1>t, <2>1 DEF Sdk!Request, Sdk!SendViaWebSocket
  <2>2. CASE Sdk!SendViaHTTP(r)
    <3>1. r \notin timers
      BY <1>5, <1>t DEF Sdk!Request
    <3> QED
      BY <1>2, <1>5, <1>t, <2>2, <3>1 DEF Sdk!Request, Sdk!SendViaHTTP
  <2> QED
    BY <1>5, <2>1, <2>2 DEF Sdk!Request
<1>6. ASSUME NEW r \in Requests, Sdk!HttpEnds(r) PROVE ClientInv'
  <2>1. r \notin timers
    BY <1>6, <1>t DEF Sdk!HttpEnds
  <2> QED
    BY <1>2, <1>6, <1>t, <2>1 DEF Sdk!HttpEnds
<1>7. ASSUME NEW r \in Requests, Sdk!Timeout(r) PROVE ClientInv'
  BY <1>2, <1>7, <1>t DEF Sdk!Timeout
<1>8. ASSUME NEW r \in Requests, Sdk!HandleMessage(r) PROVE ClientInv'
  BY <1>2, <1>8, <1>t DEF Sdk!HandleMessage
<1>9. ASSUME UNCHANGED clientVars PROVE ClientInv'
  BY <1>1, <1>9, <1>t DEF clientVars
<1> QED
  BY <1>3, <1>4, <1>5, <1>6, <1>7, <1>8, <1>9 DEF Sdk!Next
-----------------------------------------------------------------------------
VaultTypeOK ==
  /\ hour \in Nat /\ expires \in Nat /\ expires <= hour + Life
  /\ mounted \in BOOLEAN /\ key \in BOOLEAN
  /\ client \in [Clients -> {"off", "mounts", "mount", "key", "info", "ready", "failed"}]
  /\ DOMAIN every = Clients /\ due \in [Clients -> Nat]

WorkerIsUsable(w) ==
  /\ client[w] = "failed" => w \in refused
  /\ client[w] \in {"info", "ready"} => key \/ w \in refused
  /\ w \in keyless => w \in refused
  /\ every[w] # None =>
       /\ every[w] \in Nat /\ every[w] < Life
       /\ due[w] < expires \/ w \in missed \/ expires = Cap

VaultInv ==
  /\ VaultTypeOK /\ (key => mounted)
  /\ \A w \in Clients : WorkerIsUsable(w)

LEMMA IntervalIsShorter ==
  ASSUME NEW span \in Nat, span > 1
  PROVE  Vault!Interval(span) \in Nat /\ Vault!Interval(span) < span
<1>1. (2 * span) \div 3 \in Nat /\ (2 * span) \div 3 < span
  OBVIOUS
<1> QED
  BY <1>1 DEF Vault!Interval

LEMMA VaultInit ==
  ASSUME Vault!Init
  PROVE  VaultInv
<1>1. Life \in Nat
  BY OutsideAssumption
<1>2. hour = 0 /\ expires = Life /\ mounted \in BOOLEAN /\ key \in {FALSE, mounted}
      /\ client = [w \in Clients |-> "off"] /\ every = [w \in Clients |-> None]
      /\ due = [w \in Clients |-> 0] /\ refused = {} /\ missed = {} /\ keyless = {}
  BY DEF Vault!Init
<1>3. key = FALSE \/ key = mounted
  BY <1>2, Zenon
<1>4. key \in BOOLEAN
  <2>1. CASE key = FALSE
    BY <2>1
  <2>2. CASE key = mounted
    BY <1>2, <2>2, Zenon
  <2> QED
    BY <1>3, <2>1, <2>2
<1>5. \A w \in Clients : WorkerIsUsable(w)
  BY <1>2 DEF WorkerIsUsable
<1>6. key => mounted
  BY <1>3
<1>7. expires <= hour + Life
  BY <1>1, <1>2
<1>8. VaultTypeOK
  BY <1>1, <1>2, <1>4, <1>7 DEF VaultTypeOK
<1> QED
  BY <1>5, <1>6, <1>8 DEF VaultInv

\* A step of one worker's start: what Vault has it keeps, and no time passes.
LEMMA StartKeeps ==
  ASSUME VaultInv, NEW w \in Clients,
         NEW there \in {"off", "mounts", "mount", "key", "info", "ready", "failed"},
         Vault!Goto(w, there), UNCHANGED <<hour, expires, every, due, missed, keyless>>,
         refused \subseteq refused',
         mounted' \in BOOLEAN, key' \in BOOLEAN, mounted => mounted', key => key',
         key' => mounted',
         there = "failed" => w \in refused',
         there \in {"info", "ready"} => key' \/ w \in refused'
  PROVE  VaultInv'
<1>1. client' = [client EXCEPT ![w] = there]
  BY DEF Vault!Goto
<1>2. VaultTypeOK'
  BY <1>1 DEF VaultInv, VaultTypeOK
<1>3. ASSUME NEW v \in Clients PROVE WorkerIsUsable(v)'
  <2>1. WorkerIsUsable(v) /\ (v # w => client'[v] = client[v]) /\ client'[w] = there
    BY <1>1 DEF VaultInv, VaultTypeOK
  <2> QED
    BY <2>1 DEF WorkerIsUsable
<1> QED
  BY <1>2, <1>3 DEF VaultInv

LEMMA VaultNext ==
  ASSUME VaultInv, [Vault!Next]_vaultVars
  PROVE  VaultInv'
<1>t. /\ hour \in Nat /\ expires \in Nat /\ expires <= hour + Life /\ Life \in Nat
      /\ Cap \in Nat
      /\ mounted \in BOOLEAN /\ key \in BOOLEAN /\ (key => mounted)
  BY OutsideAssumption DEF VaultInv, VaultTypeOK
<1>1. ASSUME NEW w \in Clients, Vault!Health(w) PROVE VaultInv'
  BY <1>1, <1>t, StartKeeps DEF Vault!Health, Vault!vaultState, Vault!Fails, Vault!Others
<1>2. ASSUME NEW w \in Clients, Vault!ReadMounts(w) PROVE VaultInv'
  BY <1>2, <1>t, StartKeeps DEF Vault!ReadMounts, Vault!vaultState, Vault!Fails,
                                Vault!Others
<1>3. ASSUME NEW w \in Clients, Vault!Mount(w) PROVE VaultInv'
  <2>1. mounted' \in BOOLEAN /\ (mounted => mounted') /\ Vault!Goto(w, "key")
        /\ UNCHANGED <<key, expires, hour, every, due, missed, keyless>>
        /\ refused \subseteq refused'
    BY <1>3, <1>t DEF Vault!Mount, Vault!Fails, Vault!Others, Vault!Alive
  <2> QED
    BY <1>t, <2>1, StartKeeps
<1>4. ASSUME NEW w \in Clients, Vault!ReadKey(w) PROVE VaultInv'
  BY <1>4, <1>t, StartKeeps DEF Vault!ReadKey, Vault!vaultState, Vault!Fails, Vault!Others
<1>5. ASSUME NEW w \in Clients, Vault!SetUpRenewal(w) PROVE VaultInv'
  <2>1. client[w] = "info" /\ client' = [client EXCEPT ![w] = "ready"]
        /\ UNCHANGED <<hour, mounted, key, expires, refused, missed, keyless>>
    BY <1>5 DEF Vault!SetUpRenewal, Vault!Goto, Vault!vaultState
  <2>2. CASE UNCHANGED <<every, due>>
    <3>1. key \/ w \in refused
      BY <2>1 DEF VaultInv, WorkerIsUsable
    <3> QED
      BY <1>5, <1>t, <2>1, <2>2, <3>1, StartKeeps DEF Vault!SetUpRenewal
  <2>3. CASE /\ expires - hour > 1
             /\ every' = [every EXCEPT ![w] = Vault!Interval(expires - hour)]
             /\ due' = [due EXCEPT ![w] = hour + Vault!Interval(expires - hour)]
    <3> DEFINE k == Vault!Interval(expires - hour)
    <3>1. k \in Nat /\ k < Life /\ hour + k \in Nat /\ hour + k < expires
      <4>1. expires - hour \in Nat /\ expires - hour <= Life
        BY <1>t, <2>3
      <4>2. k \in Nat /\ k < expires - hour
        BY <2>3, <4>1, IntervalIsShorter
      <4> HIDE DEF k
      <4> QED
        BY <1>t, <4>1, <4>2
    <3>2. every' = [every EXCEPT ![w] = k] /\ due' = [due EXCEPT ![w] = hour + k]
      BY <2>3
    <3> HIDE DEF k
    <3>3. VaultTypeOK'
      BY <2>1, <3>1, <3>2 DEF VaultInv, VaultTypeOK
    <3>4. ASSUME NEW v \in Clients PROVE WorkerIsUsable(v)'
      <4>1. WorkerIsUsable(v)
        BY DEF VaultInv
      <4>2. CASE v # w
        <5>1. client'[v] = client[v] /\ every'[v] = every[v] /\ due'[v] = due[v]
          BY <2>1, <3>2, <4>2 DEF VaultInv, VaultTypeOK
        <5> QED
          BY <2>1, <4>1, <5>1 DEF WorkerIsUsable
      <4>3. CASE v = w
        <5>1. client'[v] = "ready" /\ every'[v] = k /\ due'[v] = hour + k
          BY <2>1, <3>2, <4>3 DEF VaultInv, VaultTypeOK
        <5> QED
          BY <2>1, <3>1, <4>1, <4>3, <5>1 DEF WorkerIsUsable
      <4> QED
        BY <4>2, <4>3
    <3> QED
      BY <1>t, <2>1, <3>3, <3>4 DEF VaultInv
  <2> QED
    BY <1>5, <2>2, <2>3 DEF Vault!SetUpRenewal
<1>6. ASSUME NEW w \in Clients, Vault!Renew(w) PROVE VaultInv'
  <2>1. every[w] # None /\ due' = [due EXCEPT ![w] = hour + every[w]]
        /\ UNCHANGED <<hour, mounted, key, client, every, refused, keyless>>
    BY <1>6 DEF Vault!Renew
  <2>2. every[w] \in Nat /\ every[w] < Life
    BY <2>1 DEF VaultInv, WorkerIsUsable
  <2>3. \/ /\ missed' = missed \ {w}
           /\ expires' = IF hour + Life < Cap THEN hour + Life ELSE Cap
        \/ missed' = missed \cup {w} /\ expires' = expires
    BY <1>6 DEF Vault!Renew
  <2>4. /\ expires' \in Nat /\ expires' <= hour + Life
        /\ (expires <= expires' \/ expires' = Cap)
    BY <1>t, <2>3
  <2>5. hour + every[w] < expires' \/ w \in missed' \/ expires' = Cap
    BY <1>t, <2>2, <2>3
  <2>6. VaultTypeOK'
    BY <2>1, <2>2, <2>4 DEF VaultInv, VaultTypeOK
  <2>7. ASSUME NEW v \in Clients PROVE WorkerIsUsable(v)'
    <3>1. WorkerIsUsable(v)
      BY DEF VaultInv
    <3>2. CASE v # w
      <4>1. due'[v] = due[v] /\ due[v] \in Nat /\ (v \in missed <=> v \in missed')
        BY <2>1, <2>3, <3>2 DEF VaultInv, VaultTypeOK
      <4>2. expires = Cap => expires' = Cap
        BY <1>t, <2>3, <2>4
      <4>3. due[v] < expires => due[v] < expires' \/ expires' = Cap
        BY <1>t, <2>4, <4>1
      <4> QED
        BY <2>1, <3>1, <4>1, <4>2, <4>3 DEF WorkerIsUsable
    <3>3. CASE v = w
      <4>1. due'[v] = hour + every[w]
        BY <2>1, <3>3 DEF VaultInv, VaultTypeOK
      <4> QED
        BY <2>1, <2>2, <2>5, <3>1, <3>3, <4>1 DEF WorkerIsUsable
    <3> QED
      BY <3>2, <3>3
  <2> QED
    BY <1>t, <2>1, <2>6, <2>7 DEF VaultInv
<1>7. ASSUME NEW w \in Clients, Vault!Transit(w) PROVE VaultInv'
  <2>1. /\ client[w] \in {"info", "ready"} /\ ~key
        /\ UNCHANGED <<hour, mounted, expires, client, every, due, refused, missed>>
        /\ \/ keyless' = keyless \cup {w} /\ key' = key
           \/ mounted /\ key' = TRUE /\ keyless' = keyless
    BY <1>7 DEF Vault!Transit, Vault!Initialised
  <2>2. CASE keyless' = keyless \cup {w} /\ key' = key
    BY <2>1, <2>2 DEF VaultInv, VaultTypeOK, WorkerIsUsable
  <2>3. CASE mounted /\ key' = TRUE /\ keyless' = keyless
    BY <2>1, <2>3 DEF VaultInv, VaultTypeOK, WorkerIsUsable
  <2> QED
    BY <2>1, <2>2, <2>3
<1>8. ASSUME NEW w \in Clients, Vault!Restart(w) PROVE VaultInv'
  <2>1. /\ client' = [client EXCEPT ![w] = "off"] /\ every' = [every EXCEPT ![w] = None]
        /\ due' = [due EXCEPT ![w] = 0] /\ refused' = refused \ {w}
        /\ missed' = missed \ {w}
        /\ keyless' = keyless \ {w} /\ UNCHANGED <<hour, mounted, key, expires>>
    BY <1>8 DEF Vault!Restart, Vault!Goto, Vault!vaultState
  <2> QED
    BY <2>1 DEF VaultInv, VaultTypeOK, WorkerIsUsable
<1>9. ASSUME Vault!Tick PROVE VaultInv'
  <2>1. /\ hour' = hour + 1
        /\ UNCHANGED <<mounted, key, expires, client, every, due, refused, missed, keyless>>
    BY <1>9 DEF Vault!Tick, Vault!vaultState
  <2>2. hour' \in Nat /\ expires <= hour' + Life
    BY <1>t, <2>1
  <2> QED
    BY <2>1, <2>2 DEF VaultInv, VaultTypeOK, WorkerIsUsable
<1>10. ASSUME UNCHANGED vaultVars PROVE VaultInv'
  BY <1>10 DEF VaultInv, VaultTypeOK, WorkerIsUsable, vaultVars
<1> QED
  BY <1>1, <1>2, <1>3, <1>4, <1>5, <1>6, <1>7, <1>8, <1>9, <1>10 DEF Vault!Next

LEMMA VaultDone == VaultInv => Vault!VaultIsUsable
  BY DEF VaultInv, WorkerIsUsable, Vault!VaultIsUsable

\* For any limits, requests, workers and lives of a token: exactly the open sockets are in
\* the manager's map, the count is less than those by the places counted out twice, and
\* the limit is passed by no more than these and the sockets let in before another was
\* counted; a request over the SDK's socket has its handler exactly while its timer
\* runs; and no worker whose start failed in nothing finds Vault without a key, or comes
\* too late to renew its token but for a renewal that failed or Vault's own maximum
\* (websocket-manager.ts:133, 153, 575-590, 763-773, 812-819,
\* client-sdk/src/index.ts:174-209, vault.ts:461-577).
THEOREM PlacesAndTimersAreKept == Spec => []PlacesAndTimersHold
<1>1. Init => Manager!PlacesAreCounted /\ ClientInv /\ VaultInv
  BY ManagerInit, ClientInit, VaultInit DEF Init
<1>2. Manager!PlacesAreCounted /\ ClientInv /\ VaultInv /\ [Next]_all =>
        (Manager!PlacesAreCounted /\ ClientInv /\ VaultInv)'
  BY LegacySteps, ManagerNext, ClientNext, VaultNext
<1>3. Manager!PlacesAreCounted /\ ClientInv /\ VaultInv => PlacesAndTimersHold
  BY VaultDone DEF ClientInv, PlacesAndTimersHold
<1> QED
  BY <1>1, <1>2, <1>3, PTL DEF Spec
-----------------------------------------------------------------------------
(***************************************************************************)
(* The rate limiter                                                        *)
(***************************************************************************)
\* A time let through is in the sorted set until a whole window has passed, whoever
\* cleans the set and however late commands come.
WindowInv ==
  /\ Limiter!TypeOK /\ IsFiniteSet(scores)
  /\ sent \in [Requests -> Nat \cup {None}]
  /\ \A r \in Requests : sent[r] # None => sent[r] <= now /\ now <= sent[r] + Delay
  /\ \A e \in scores : e[1] + Window <= expiry
  /\ expiry <= now + Window
  /\ \A a \in admitted : a <= now /\ (now < a + Window => \E e \in scores : e[1] = a)
  /\ Limiter!WindowIsBounded

LEMMA WindowConstants ==
  /\ Window \in Nat /\ Window > 0 /\ MaxRequests \in Nat /\ MaxRequests > 0
  /\ Delay \in Nat /\ MaxTime \in Nat /\ None \notin Nat
  /\ Limiter!Times \subseteq Nat
  BY OutsideAssumption, NamesAssumption DEF Limiter!Times

LEMMA WindowCounts == \A S : Limiter!Cardinality(S) = Cardinality(S)
  BY DEF Limiter!Cardinality, Cardinality

LEMMA WindowInit ==
  ASSUME Limiter!Init
  PROVE  WindowInv
<1>1. /\ now = 0 /\ scores = {} /\ expiry = 0 /\ admitted = {}
      /\ sent = [r \in Requests |-> None]
  BY DEF Limiter!Init
<1>2. IsFiniteSet({}) /\ \A S : Cardinality({} \cap S) = 0
  BY FS_EmptySet
<1>3. Limiter!TypeOK
  BY <1>1, WindowConstants DEF Limiter!TypeOK, Limiter!Times
<1>4. Limiter!WindowIsBounded
  BY <1>1, <1>2, <1>3, WindowCounts, WindowConstants DEF Limiter!WindowIsBounded
<1> QED
  BY <1>1, <1>2, <1>3, <1>4, WindowConstants DEF WindowInv

\* No more times are let through than the set has members of them.
LEMMA MembersCover ==
  ASSUME NEW members_, IsFiniteSet(members_), NEW A,
         \A a \in A : \E e \in members_ : e[1] = a
  PROVE  IsFiniteSet(A) /\ Cardinality(A) <= Cardinality(members_)
<1> DEFINE f == [e \in members_ |-> e[1]]
           P == {e[1] : e \in members_}
<1>1. f \in Surjection(members_, P)
  BY DEF Surjection
<1>2. IsFiniteSet(P) /\ Cardinality(P) <= Cardinality(members_)
  BY <1>1, FS_Surjection
<1>3. A \subseteq P
  OBVIOUS
<1>4. IsFiniteSet(A) /\ Cardinality(A) <= Cardinality(P)
  BY <1>2, <1>3, FS_Subset
<1>5. Cardinality(A) \in Nat /\ Cardinality(P) \in Nat /\ Cardinality(members_) \in Nat
  BY <1>2, <1>4, FS_CardinalityType
<1> QED
  BY <1>2, <1>4, <1>5

\* The script admits a time: those before it in any window are still in the set.
LEMMA WindowAdmits ==
  ASSUME WindowInv, NEW r \in Requests, sent[r] # None,
         Limiter!Allows(Limiter!Counted(sent[r])),
         NEW t \in Limiter!Times
  PROVE  Cardinality((admitted \cup {sent[r]}) \cap t..(t + Window - Delay - 1)) <= MaxRequests
<1> DEFINE s == sent[r]
           U == t..(t + Window - Delay - 1)
           kept == Limiter!Kept(s)
<1>0. /\ s \in Nat /\ s <= now /\ now <= s + Delay /\ now \in Nat /\ t \in Nat
      /\ IsFiniteSet(scores)
  BY WindowConstants DEF WindowInv, Limiter!TypeOK
<1>1. IsFiniteSet(kept) /\ Cardinality(kept) \in Nat /\ Cardinality(kept) < MaxRequests
  <2>1. kept \subseteq scores
    BY DEF Limiter!Kept
  <2>2. IsFiniteSet(kept)
    BY <1>0, <2>1, FS_Subset
  <2> QED
    BY <2>2, FS_CardinalityType, WindowCounts DEF Limiter!Allows, Limiter!Counted
<1>2. CASE s \in U
  <2>1. ASSUME NEW a \in admitted \cap U PROVE \E e \in kept : e[1] = a
    <3>1. a \in Nat
      BY <2>1, WindowConstants DEF WindowInv, Limiter!TypeOK
    <3>2. now < a + Window /\ a > s - Window
      BY <1>0, <1>2, <2>1, <3>1, WindowConstants
    <3>3. \E e \in scores : e[1] = a
      BY <2>1, <3>2 DEF WindowInv
    <3> QED
      BY <3>2, <3>3 DEF Limiter!Kept
  <2>2. IsFiniteSet(admitted \cap U) /\ Cardinality(admitted \cap U) <= Cardinality(kept)
    BY <1>1, <2>1, MembersCover
  <2>3. (admitted \cup {s}) \cap U = (admitted \cap U) \cup {s}
    BY <1>2
  <2>4. \/ Cardinality((admitted \cap U) \cup {s}) = Cardinality(admitted \cap U)
        \/ Cardinality((admitted \cap U) \cup {s}) = Cardinality(admitted \cap U) + 1
    BY <2>2, FS_AddElement, Zenon
  <2>5. /\ Cardinality(admitted \cap U) \in Nat
        /\ Cardinality((admitted \cap U) \cup {s}) \in Nat
    BY <2>2, FS_AddElement, FS_CardinalityType
  <2>6. Cardinality((admitted \cup {s}) \cap U) = Cardinality((admitted \cap U) \cup {s})
    BY <2>3, Zenon
  <2>7. Cardinality((admitted \cap U) \cup {s}) <= MaxRequests
    <3> HIDE DEF kept, U, s
    <3> QED
      BY <1>1, <2>2, <2>4, <2>5, WindowConstants
  <2> QED
    BY <2>6, <2>7
<1>3. CASE s \notin U
  <2>1. (admitted \cup {s}) \cap U = admitted \cap U
    BY <1>3
  <2> QED
    BY <2>1, WindowCounts DEF WindowInv, Limiter!WindowIsBounded
<1> QED
  BY <1>2, <1>3

LEMMA WindowExecutes ==
  ASSUME WindowInv, NEW r \in Requests, Limiter!Execute(r)
  PROVE  WindowInv'
<1> DEFINE s == sent[r] kept == Limiter!Kept(s)
<1>0. /\ s \in Nat /\ s <= now /\ now <= s + Delay /\ now \in Nat /\ s # None
      /\ scores \subseteq Limiter!Times \X Salts /\ admitted \subseteq Limiter!Times
      /\ now \in 0..MaxTime /\ IsFiniteSet(scores) /\ expiry \in Nat
      /\ s \in Limiter!Times
  BY WindowConstants DEF WindowInv, Limiter!TypeOK, Limiter!Execute, Limiter!Times
<1>1. /\ now' = now /\ sent' = [sent EXCEPT ![r] = None]
      /\ \/ /\ \E salt \in Salts : scores' = kept \cup {<<s, salt>>}
            /\ expiry' = now + Window
            /\ \/ admitted' = admitted
               \/ /\ admitted' = admitted \cup {s}
                  /\ Limiter!Allows(Limiter!Counted(s))
         \/ scores' = kept /\ expiry' = expiry /\ admitted' = admitted
  BY DEF Limiter!Execute, Limiter!Arrived
<1>2. /\ kept \subseteq scores /\ IsFiniteSet(kept)
      /\ \A e \in scores : e[1] > s - Window => e \in kept
  <2>1. kept \subseteq scores
    BY DEF Limiter!Kept
  <2> QED
    BY <1>0, <2>1, FS_Subset DEF Limiter!Kept
<1>3. kept \subseteq scores'
  BY <1>1
<1> HIDE DEF kept
<1>4. IsFiniteSet(scores') /\ scores' \subseteq Limiter!Times \X Salts
  <2>1. CASE scores' = kept
    BY <1>0, <1>2, <2>1
  <2>2. ASSUME NEW salt \in Salts, scores' = kept \cup {<<s, salt>>}
        PROVE  IsFiniteSet(scores') /\ scores' \subseteq Limiter!Times \X Salts
    <3>1. <<s, salt>> \in Limiter!Times \X Salts
      BY <1>0
    <3>2. IsFiniteSet(kept \cup {<<s, salt>>})
      BY <1>2, FS_AddElement
    <3> QED
      BY <1>0, <1>2, <2>2, <3>1, <3>2
  <2> QED
    BY <1>1, <2>1, <2>2
<1>5. \A e \in scores : e[1] \in Nat /\ e[1] + Window <= expiry /\ expiry <= now + Window
  BY <1>0, WindowConstants DEF WindowInv
<1>6. expiry' \in 0..(MaxTime + Window) /\ expiry' <= now + Window
  BY <1>0, <1>1, WindowConstants DEF WindowInv, Limiter!TypeOK
<1>7. \A e \in scores' : e[1] + Window <= expiry'
  <2>1. CASE UNCHANGED expiry /\ scores' = kept
    BY <1>2, <1>5, <2>1
  <2>2. ASSUME NEW salt \in Salts, scores' = kept \cup {<<s, salt>>}, expiry' = now + Window
        PROVE  \A e \in scores' : e[1] + Window <= expiry'
    BY <1>0, <1>2, <1>5, <2>2, WindowConstants
  <2> QED
    BY <1>1, <2>1, <2>2
<1>8. \A a \in admitted' : a <= now /\ (now < a + Window => \E e \in scores' : e[1] = a)
  <2>1. ASSUME NEW a \in admitted
        PROVE  a <= now /\ (now < a + Window => \E e \in scores' : e[1] = a)
    <3>1. a \in Nat /\ a <= now /\ (now < a + Window => \E e \in scores : e[1] = a)
      BY <1>0, <2>1, WindowConstants DEF WindowInv
    <3>2. now < a + Window => a > s - Window
      BY <1>0, <3>1, WindowConstants
    <3> QED
      BY <1>2, <1>3, <3>1, <3>2
  <2>2. admitted' # admitted => \E e \in scores' : e[1] = s
    <3>1. ASSUME NEW salt \in Salts, scores' = kept \cup {<<s, salt>>}
          PROVE  \E e \in scores' : e[1] = s
      <4>1. <<s, salt>> \in scores' /\ <<s, salt>>[1] = s
        BY <3>1
      <4> QED
        BY <4>1
    <3> QED
      BY <1>1, <3>1
  <2>3. \A a \in admitted' : a \in admitted \/ (a = s /\ admitted' # admitted)
    BY <1>1
  <2> QED
    BY <1>0, <2>1, <2>2, <2>3
<1>9. \A t \in Limiter!Times :
        Cardinality(admitted' \cap t..(t + Window - Delay - 1)) <= MaxRequests
  <2>1. CASE admitted' = admitted
    BY <2>1, WindowCounts DEF WindowInv, Limiter!WindowIsBounded
  <2>2. CASE admitted' = admitted \cup {s} /\ Limiter!Allows(Limiter!Counted(s))
    BY <1>0, <2>2, WindowAdmits
  <2> QED
    BY <1>1, <2>1, <2>2
<1>10. admitted' \subseteq Limiter!Times
  BY <1>0, <1>1
<1>11. /\ sent' \in [Requests -> Nat \cup {None}]
       /\ \A q \in Requests : sent'[q] # None => sent'[q] <= now' /\ now' <= sent'[q] + Delay
  BY <1>1 DEF WindowInv
<1>12. now' \in Limiter!Times
  BY <1>0, <1>1 DEF Limiter!Times
<1>13. Limiter!TypeOK'
  BY <1>4, <1>6, <1>10, <1>12 DEF Limiter!TypeOK, Limiter!Times
<1>14. Limiter!WindowIsBounded'
  BY <1>9, <1>13, WindowCounts DEF Limiter!WindowIsBounded, Limiter!Times
<1> QED
  BY <1>1, <1>4, <1>6, <1>7, <1>8, <1>11, <1>13, <1>14 DEF WindowInv

LEMMA WindowNext ==
  ASSUME WindowInv, [Limiter!Next]_limitVars
  PROVE  WindowInv'
<1>0. /\ now \in Nat /\ now \in Limiter!Times /\ expiry \in Nat
      /\ scores \subseteq Limiter!Times \X Salts /\ admitted \subseteq Limiter!Times
  BY WindowConstants DEF WindowInv, Limiter!TypeOK
<1>1. ASSUME UNCHANGED <<now, scores, expiry, admitted>>,
             sent' \in [Requests -> Nat \cup {None}],
             \A r \in Requests : sent'[r] # None => sent'[r] = now \/ sent'[r] = sent[r]
      PROVE  WindowInv'
  <2>1. \A r \in Requests : sent'[r] # None => sent'[r] <= now /\ now <= sent'[r] + Delay
    BY <1>0, <1>1, WindowConstants DEF WindowInv
  <2>2. Limiter!WindowIsBounded' /\ Limiter!TypeOK'
    BY <1>1 DEF WindowInv, Limiter!WindowIsBounded, Limiter!TypeOK, Limiter!Times
  <2> QED
    BY <1>1, <2>1, <2>2 DEF WindowInv
<1>2. ASSUME NEW r \in Requests, Limiter!Call(r) PROVE WindowInv'
  BY <1>0, <1>1, <1>2 DEF Limiter!Call, WindowInv
<1>3. ASSUME NEW r \in Requests, Limiter!Fail(r) PROVE WindowInv'
  BY <1>1, <1>3 DEF Limiter!Fail, Limiter!Arrived, WindowInv
<1>4. CASE Limiter!Reset
  <2>1. scores' = {} /\ admitted' = {} /\ UNCHANGED <<now, sent, purpose, expiry>>
    BY <1>4 DEF Limiter!Reset
  <2>2. IsFiniteSet({}) /\ \A S : Cardinality({} \cap S) = 0
    BY FS_EmptySet
  <2>3. Limiter!TypeOK'
    BY <2>1 DEF WindowInv, Limiter!TypeOK, Limiter!Times
  <2>4. Limiter!WindowIsBounded'
    BY <2>1, <2>2, <2>3, WindowCounts, WindowConstants DEF Limiter!WindowIsBounded
  <2> QED
    BY <2>1, <2>2, <2>3, <2>4 DEF WindowInv
<1>5. CASE Limiter!Tick
  <2>1. /\ now' = now + 1 /\ now < MaxTime
        /\ \A r \in Requests : sent[r] # None => now < sent[r] + Delay
        /\ UNCHANGED <<sent, expiry, admitted>>
        /\ \/ now + 1 >= expiry /\ scores' = {}
           \/ ~(now + 1 >= expiry) /\ scores' = scores
    BY <1>5 DEF Limiter!Tick
  <2>2. Limiter!TypeOK'
    BY <1>0, <2>1, WindowConstants DEF WindowInv, Limiter!TypeOK, Limiter!Times
  <2>3. Limiter!WindowIsBounded'
    BY <2>1, <2>2 DEF WindowInv, Limiter!WindowIsBounded, Limiter!Times
  <2>4. IsFiniteSet(scores') /\ scores' \subseteq scores
    BY <2>1, FS_EmptySet DEF WindowInv
  <2>5. ASSUME NEW r \in Requests, sent'[r] # None
        PROVE  sent'[r] <= now' /\ now' <= sent'[r] + Delay
    <3>1. sent[r] \in Nat /\ sent[r] <= now /\ now < sent[r] + Delay /\ sent' = sent
      BY <2>1, <2>5 DEF WindowInv
    <3> QED
      BY <1>0, <2>1, <3>1, WindowConstants
  <2>6. ASSUME NEW a \in admitted
        PROVE  a <= now' /\ (now' < a + Window => \E e \in scores' : e[1] = a)
    <3>1. a \in Nat /\ a <= now /\ (now < a + Window => \E e \in scores : e[1] = a)
      BY <1>0, <2>6, WindowConstants DEF WindowInv
    <3>2. ASSUME now' < a + Window PROVE \E e \in scores' : e[1] = a
      <4>1. now < a + Window
        BY <1>0, <2>1, <3>1, <3>2, WindowConstants
      <4>2. a + Window <= expiry
        BY <3>1, <4>1 DEF WindowInv
      <4>3. scores' = scores
        BY <1>0, <2>1, <3>1, <3>2, <4>2, WindowConstants
      <4> QED
        BY <3>1, <4>1, <4>3
    <3> QED
      BY <1>0, <2>1, <3>1, <3>2
  <2>7. expiry' <= now' + Window
    BY <1>0, <2>1, WindowConstants DEF WindowInv
  <2>8. sent' \in [Requests -> Nat \cup {None}]
        /\ \A e \in scores' : e[1] + Window <= expiry'
    BY <2>1, <2>4 DEF WindowInv
  <2> QED
    BY <2>1, <2>2, <2>3, <2>4, <2>5, <2>6, <2>7, <2>8 DEF WindowInv
<1>6. CASE UNCHANGED limitVars
  BY <1>1, <1>6 DEF limitVars, WindowInv
<1> QED
  BY <1>2, <1>3, <1>4, <1>5, <1>6, WindowExecutes DEF Limiter!Next
-----------------------------------------------------------------------------
(***************************************************************************)
(* The AI tools                                                            *)
(***************************************************************************)
\* The calls that ended since the last pause of a window, seen from the latest of them.
Burst ==
  {i \in DOMAIN completed :
     \A j \in i..(Len(completed) - 1) : completed[j + 1] - completed[j] < ToolWindow}

\* The calls since the last pause; those let through, and those that ended, after a time.
Recent ==
  IF completed # <<>> /\ clock - completed[Len(completed)] <= ToolWindow
  THEN Cardinality(Burst) ELSE 0
PassedAfter(time) == {j \in DOMAIN passed : passed[j].at > time}
EndedAfter(time) == {k \in DOMAIN completed : completed[k] > time}
Passes == [at : Nat, level : Ai!Levels, beside : Nat]

\* What a level's entry says of the calls that ended: there were none; or it was written
\* by the latest and counts its burst; or a check found the burst over and started anew.
EntryTells(e) ==
  \/ completed = <<>> /\ e = Ai!NoEntry
  \/ /\ completed # <<>>
     /\ e.last = completed[Len(completed)] /\ e.count = Cardinality(Burst)
  \/ /\ completed # <<>>
     /\ e.count = 0 /\ e.last - completed[Len(completed)] > ToolWindow

\* Of the calls let through after any time, all have ended after it or run still.
PassesInv ==
  /\ running \in Nat /\ passed \in Seq(Passes)
  /\ \A i \in DOMAIN passed : passed[i].at <= clock
  /\ \A time \in Int : Cardinality(PassedAfter(time)) <= Cardinality(EndedAfter(time)) + running
  /\ \A i \in DOMAIN passed :
       Cardinality(Ai!WindowOf(i)) <= Limits[passed[i].level] + passed[i].beside

PaceInv ==
  /\ clock \in Nat /\ completed \in Seq(Nat)
  /\ \A i \in DOMAIN completed : completed[i] <= clock
  /\ \A i, j \in DOMAIN completed : i <= j => completed[i] <= completed[j]
  /\ PassesInv
  /\ executions \in [Ai!Levels -> [count : Nat, last : Int]]
  /\ \A l \in Ai!Levels : executions[l].last <= clock /\ EntryTells(executions[l])
  /\ prompts \subseteq Nat \X Prompts /\ IsFiniteSet(prompts)
  /\ Cardinality(Ai!Within(Second)) <= MaxRapid + 1
  /\ \A h \in Prompts :
       Cardinality({p \in Ai!Within(Memory) : p[2] = h}) <= MaxSimilar + 1

LEMMA PaceConstants ==
  /\ ToolWindow \in Nat /\ ToolWindow > 0 /\ Second \in Nat /\ Memory \in Nat
  /\ MaxRapid \in Nat /\ MaxSimilar \in Nat
  BY OutsideAssumption

LEMMA PaceCounts == \A S : Ai!Cardinality(S) = Cardinality(S)
  BY DEF Ai!Cardinality, Cardinality

LEMMA LimitsTyped == \A l \in Ai!Levels : Limits[l] \in Nat /\ Limits[l] > 0
<1>1. DOMAIN Limits = {"low", "critical"} /\ Limits["low"] = 2 /\ Limits["critical"] = 1
  BY DEF Limits
<1> QED
  BY <1>1 DEF Ai!Levels

LEMMA FewerCount ==
  ASSUME NEW S, IsFiniteSet(S), NEW T, T \subseteq S, NEW k \in Nat, Cardinality(S) <= k
  PROVE  Cardinality(T) <= k
<1>1. Cardinality(S) \in Nat /\ Cardinality(T) <= Cardinality(S) /\ IsFiniteSet(T)
  BY FS_Subset, FS_CardinalityType
<1>2. Cardinality(T) \in Nat
  BY <1>1, FS_CardinalityType
<1> QED
  BY <1>1, <1>2

LEMMA OneMoreCounts ==
  ASSUME NEW S, IsFiniteSet(S), NEW x, NEW T, T \subseteq S \cup {x},
         NEW k \in Nat, Cardinality(S) <= k
  PROVE  Cardinality(T) <= k + 1
<1>1. IsFiniteSet(S \cup {x})
  BY FS_AddElement
<1>2. \/ Cardinality(S \cup {x}) = Cardinality(S)
      \/ Cardinality(S \cup {x}) = Cardinality(S) + 1
  BY FS_AddElement, Zenon
<1>3. Cardinality(S \cup {x}) <= k + 1
  BY <1>1, <1>2, FS_CardinalityType
<1> QED
  BY <1>1, <1>3, FewerCount

LEMMA PaceInit ==
  ASSUME Ai!Init
  PROVE  PaceInv
<1>1. /\ clock = 0 /\ executions = [l \in Ai!Levels |-> Ai!NoEntry] /\ prompts = {}
      /\ completed = <<>>
  BY DEF Ai!Init
<1>2. IsFiniteSet({}) /\ Cardinality({}) = 0
  BY FS_EmptySet
<1>3. Ai!NoEntry \in [count : Nat, last : Int] /\ Ai!NoEntry.last <= 0
  BY PaceConstants DEF Ai!NoEntry
<1>4. Ai!Within(Second) = {} /\ \A h \in Prompts : {p \in Ai!Within(Memory) : p[2] = h} = {}
  BY <1>1 DEF Ai!Within
<1>8. PassesInv
  <2>1. running = 0 /\ passed = <<>>
    BY DEF Ai!Init
  <2>2. passed \in Seq(Passes) /\ DOMAIN passed = {} /\ DOMAIN completed = {}
    BY <1>1, <2>1
  <2>3. \A time : PassedAfter(time) = {} /\ EndedAfter(time) = {}
    BY <2>2 DEF PassedAfter, EndedAfter
  <2>4. \A time : Cardinality(PassedAfter(time)) = 0 /\ Cardinality(EndedAfter(time)) = 0
    BY <1>2, <2>3
  <2> QED
    BY <2>1, <2>2, <2>4 DEF PassesInv
<1>5. /\ Cardinality(Ai!Within(Second)) = 0
      /\ \A h \in Prompts : Cardinality({p \in Ai!Within(Memory) : p[2] = h}) = 0
  BY <1>2, <1>4
<1>6. /\ Cardinality(Ai!Within(Second)) <= MaxRapid + 1
      /\ \A h \in Prompts :
           Cardinality({p \in Ai!Within(Memory) : p[2] = h}) <= MaxSimilar + 1
  BY <1>5, PaceConstants
<1>7. \A l \in Ai!Levels : executions[l].last <= clock /\ EntryTells(executions[l])
  BY <1>1, <1>3 DEF EntryTells
<1> QED
  BY <1>1, <1>2, <1>3, <1>6, <1>7, <1>8 DEF PaceInv

\* Time or new prompts that are not there take nothing into a span that was not in it.
LEMMA PromptsFade ==
  ASSUME PaceInv, clock' \in Nat, clock' >= clock, prompts' \subseteq prompts
  PROVE  /\ prompts' \subseteq Nat \X Prompts /\ IsFiniteSet(prompts')
         /\ Cardinality(Ai!Within(Second)') <= MaxRapid + 1
         /\ \A h \in Prompts :
              Cardinality({p \in Ai!Within(Memory)' : p[2] = h}) <= MaxSimilar + 1
<1>1. prompts \subseteq Nat \X Prompts /\ IsFiniteSet(prompts) /\ clock \in Nat
  BY DEF PaceInv
<1>2. /\ Ai!Within(Second)' \subseteq Ai!Within(Second)
      /\ Ai!Within(Memory)' \subseteq Ai!Within(Memory)
  BY <1>1, PaceConstants DEF Ai!Within
<1>3. IsFiniteSet(Ai!Within(Second))
  BY <1>1, FS_Subset DEF Ai!Within
<1>4. Cardinality(Ai!Within(Second)') <= MaxRapid + 1
  <2>1. Cardinality(Ai!Within(Second)) <= MaxRapid + 1 /\ MaxRapid + 1 \in Nat
    BY PaceConstants DEF PaceInv
  <2> QED
    BY <1>2, <1>3, <2>1, FewerCount
<1>5. ASSUME NEW h \in Prompts
      PROVE  Cardinality({p \in Ai!Within(Memory)' : p[2] = h}) <= MaxSimilar + 1
  <2>1. /\ Cardinality({p \in Ai!Within(Memory) : p[2] = h}) <= MaxSimilar + 1
        /\ MaxSimilar + 1 \in Nat
    BY PaceConstants DEF PaceInv
  <2>2. IsFiniteSet({p \in Ai!Within(Memory) : p[2] = h})
    BY <1>1, FS_Subset DEF Ai!Within
  <2>3. {p \in Ai!Within(Memory)' : p[2] = h} \subseteq {p \in Ai!Within(Memory) : p[2] = h}
    BY <1>2
  <2> QED
    BY <2>1, <2>2, <2>3, FewerCount
<1> QED
  BY <1>1, <1>4, <1>5, FS_Subset

\* A prompt is remembered only when it and the others were few enough.
LEMMA PromptIsPaced ==
  ASSUME PaceInv, NEW h \in Prompts, ~Ai!Suspicious(h), Ai!Remember(h), clock' = clock
  PROVE  /\ prompts' \subseteq Nat \X Prompts /\ IsFiniteSet(prompts')
         /\ Cardinality(Ai!Within(Second)') <= MaxRapid + 1
         /\ \A g \in Prompts :
              Cardinality({p \in Ai!Within(Memory)' : p[2] = g}) <= MaxSimilar + 1
<1> DEFINE new == <<clock, h>>
<1>1. prompts \subseteq Nat \X Prompts /\ IsFiniteSet(prompts) /\ clock \in Nat
  BY DEF PaceInv
<1>2. prompts' \subseteq prompts \cup {new}
  BY DEF Ai!Remember
<1>3. prompts' \subseteq Nat \X Prompts /\ IsFiniteSet(prompts')
  <2>1. IsFiniteSet(prompts \cup {new})
    BY <1>1, FS_AddElement
  <2>2. prompts \cup {new} \subseteq Nat \X Prompts
    BY <1>1
  <2> QED
    BY <1>2, <2>1, <2>2, FS_Subset
<1>4. \A age : Ai!Within(age)' \subseteq Ai!Within(age) \cup {new}
  BY <1>2 DEF Ai!Within
<1>5. \A age : Ai!Within(age) \subseteq prompts
  BY DEF Ai!Within
<1>6. Cardinality(Ai!Within(Second)') <= MaxRapid + 1
  <2>1. IsFiniteSet(Ai!Within(Second)) /\ Cardinality(Ai!Within(Second)) \in Nat
    BY <1>1, <1>5, FS_Subset, FS_CardinalityType
  <2>2. Cardinality(Ai!Within(Second)) <= MaxRapid
    BY <2>1, PaceCounts, PaceConstants DEF Ai!Suspicious
  <2> QED
    BY <1>4, <2>1, <2>2, OneMoreCounts, PaceConstants
<1>7. ASSUME NEW g \in Prompts
      PROVE  Cardinality({p \in Ai!Within(Memory)' : p[2] = g}) <= MaxSimilar + 1
  <2> DEFINE old == {p \in Ai!Within(Memory) : p[2] = g}
  <2>1. IsFiniteSet(old) /\ Cardinality(old) \in Nat
    <3>1. old \subseteq prompts
      BY <1>5
    <3> QED
      BY <1>1, <3>1, FS_Subset, FS_CardinalityType
  <2>2. CASE g = h
    <3>1. Cardinality(old) <= MaxSimilar
      BY <2>1, <2>2, PaceCounts, PaceConstants DEF Ai!Suspicious
    <3>2. {p \in Ai!Within(Memory)' : p[2] = g} \subseteq old \cup {new}
      BY <1>4
    <3> HIDE DEF old
    <3> QED
      BY <2>1, <3>1, <3>2, OneMoreCounts, PaceConstants
  <2>3. CASE g # h
    <3>1. {p \in Ai!Within(Memory)' : p[2] = g} \subseteq old
      BY <1>4, <2>3
    <3>2. Cardinality(old) <= MaxSimilar + 1 /\ MaxSimilar + 1 \in Nat
      BY PaceConstants DEF PaceInv
    <3> HIDE DEF old
    <3> QED
      BY <2>1, <3>1, <3>2, FewerCount
  <2> QED
    BY <2>2, <2>3
<1> QED
  BY <1>3, <1>6, <1>7

\* The latest call is in the burst it ends.
LEMMA BurstIsNotEmpty ==
  ASSUME completed \in Seq(Nat)
  PROVE  /\ IsFiniteSet(Burst) /\ Cardinality(Burst) \in Nat
         /\ completed # <<>> => Cardinality(Burst) > 0
<1>1. Len(completed) \in Nat /\ DOMAIN completed = 1..Len(completed)
  BY LenProperties
<1>2. IsFiniteSet(1..Len(completed)) /\ Burst \subseteq 1..Len(completed)
  BY <1>1, FS_Interval DEF Burst
<1>3. IsFiniteSet(Burst) /\ Cardinality(Burst) \in Nat
  BY <1>2, FS_Subset, FS_CardinalityType
<1>4. ASSUME completed # <<>> PROVE Cardinality(Burst) > 0
  <2>1. Len(completed) \in DOMAIN completed
    BY <1>1, <1>4, EmptySeq
  <2>2. Len(completed) \in Burst
    BY <1>1, <2>1 DEF Burst
  <2>3. Cardinality(Burst) # 0
    BY <1>3, <2>2, FS_EmptySet
  <2> QED
    BY <1>3, <2>3
<1> QED
  BY <1>3, <1>4

\* A check leaves an entry that still tells of the same calls, and its count is that of
\* the calls since the last pause.
LEMMA ResetTells ==
  ASSUME PaceInv, NEW l \in Ai!Levels
  PROVE  LET e == Ai!Reset(executions[l])
         IN  /\ e \in [count : Nat, last : Int] /\ e.last <= clock /\ EntryTells(e)
             /\ e.count = Recent
<1> DEFINE e == executions[l]
           n == Len(completed)
<1>1. /\ clock \in Nat /\ completed \in Seq(Nat) /\ e \in [count : Nat, last : Int]
      /\ e.last <= clock /\ EntryTells(e)
  BY DEF PaceInv
<1>2. n \in Nat /\ DOMAIN completed = 1..n /\ (completed # <<>> => n \in DOMAIN completed)
  BY <1>1, LenProperties, EmptySeq
<1>3. IsFiniteSet({}) /\ Cardinality({}) = 0
  BY FS_EmptySet
<1>4. CASE completed = <<>>
  <2>1. e = Ai!NoEntry
    BY <1>1, <1>4 DEF EntryTells
  <2>2. Ai!Reset(e) = e
    BY <2>1 DEF Ai!Reset
  <2>3. DOMAIN completed = {}
    BY <1>4
  <2>4. Recent = 0
    BY <1>4 DEF Recent
  <2>5. e.count = 0
    BY <2>1 DEF Ai!NoEntry
  <2> QED
    BY <1>1, <1>3, <2>2, <2>4, <2>5
<1>5. CASE completed # <<>> /\ clock - completed[n] > ToolWindow
  <2>0. completed[n] \in Nat
    BY <1>1, <1>2, <1>5, ElementOfSeq
  <2>1. Recent = 0
    <3>1. ~(clock - completed[n] <= ToolWindow)
      BY <1>1, <1>5, <2>0, PaceConstants
    <3> QED
      BY <3>1 DEF Recent
  <2>2. e # Ai!NoEntry
    <3>1. \/ e.last = completed[n]
          \/ e.last - completed[n] > ToolWindow
      BY <1>1, <1>5 DEF EntryTells
    <3>2. e.last >= 0
      BY <1>1, <2>0, <3>1, PaceConstants
    <3>3. Ai!NoEntry.last < 0
      BY PaceConstants DEF Ai!NoEntry
    <3> QED
      BY <1>1, <3>2, <3>3, PaceConstants
  <2>3. CASE clock - e.last > ToolWindow
    <3>1. Ai!Reset(e) = [count |-> 0, last |-> clock]
      BY <2>2, <2>3 DEF Ai!Reset
    <3> QED
      BY <1>1, <1>5, <2>1, <3>1 DEF EntryTells
  <2>4. CASE ~(clock - e.last > ToolWindow)
    <3>1. Ai!Reset(e) = e
      BY <2>4 DEF Ai!Reset
    <3>2. e.count = 0
      BY <1>1, <1>5, <2>0, <2>4, PaceConstants DEF EntryTells
    <3> QED
      BY <1>1, <2>1, <3>1, <3>2
  <2> QED
    BY <2>3, <2>4
<1>6. CASE completed # <<>> /\ ~(clock - completed[n] > ToolWindow)
  <2>0. completed[n] \in Nat
    BY <1>1, <1>2, <1>6, ElementOfSeq
  <2>1. e.last = completed[n] /\ e.count = Cardinality(Burst)
    BY <1>1, <1>6, <2>0, PaceConstants DEF EntryTells
  <2>2. Ai!Reset(e) = e
    BY <1>6, <2>1 DEF Ai!Reset
  <2>3. clock - completed[n] <= ToolWindow
    BY <1>1, <1>6, <2>0, PaceConstants
  <2>4. Recent = Cardinality(Burst)
    BY <1>6, <2>3 DEF Recent
  <2> QED
    BY <1>1, <2>1, <2>2, <2>4
<1> QED
  BY <1>4, <1>5, <1>6

\* The calls that ended within the last window are among those since the last pause.
LEMMA EndedAreRecent ==
  ASSUME PaceInv
  PROVE  Cardinality(EndedAfter(clock - ToolWindow)) <= Recent /\ Recent \in Nat
<1> DEFINE n == Len(completed)
           E == EndedAfter(clock - ToolWindow)
<1>1. /\ clock \in Nat /\ completed \in Seq(Nat)
      /\ \A i \in DOMAIN completed : completed[i] <= clock
      /\ \A i, j \in DOMAIN completed : i <= j => completed[i] <= completed[j]
  BY DEF PaceInv
<1>2. /\ n \in Nat /\ DOMAIN completed = 1..n /\ (completed # <<>> <=> n # 0)
      /\ \A i \in 1..n : completed[i] \in Nat
  BY <1>1, LenProperties, EmptySeq, ElementOfSeq
<1>3. IsFiniteSet(Burst) /\ Cardinality(Burst) \in Nat /\ IsFiniteSet({}) /\ Cardinality({}) = 0
  BY <1>1, BurstIsNotEmpty, FS_EmptySet
<1>4. ASSUME NEW i \in E
      PROVE  i \in Burst /\ completed # <<>> /\ clock - completed[n] <= ToolWindow
  <2>1. i \in 1..n /\ completed[i] > clock - ToolWindow
    BY <1>2 DEF EndedAfter
  <2>2. ASSUME NEW j \in i..(n - 1) PROVE completed[j + 1] - completed[j] < ToolWindow
    <3>1. j \in 1..n /\ j + 1 \in 1..n /\ i <= j
      BY <1>2, <2>1
    <3>2. completed[j + 1] <= clock /\ completed[i] <= completed[j]
      BY <1>1, <1>2, <2>1, <3>1
    <3> HIDE DEF n
    <3> QED
      BY <1>1, <1>2, <2>1, <3>1, <3>2, PaceConstants
  <2>3. n \in 1..n /\ completed[i] <= completed[n]
    <3>1. n \in 1..n /\ i <= n
      BY <1>2, <2>1
    <3> QED
      BY <1>1, <1>2, <2>1, <3>1
  <2> QED
    BY <1>1, <1>2, <2>1, <2>2, <2>3, PaceConstants DEF Burst
<1>5. CASE E = {}
  <2>1. Cardinality(E) = 0
    BY <1>3, <1>5
  <2>2. Recent \in Nat
    BY <1>3 DEF Recent
  <2> HIDE DEF E
  <2> QED
    BY <2>1, <2>2 DEF E
<1>6. CASE E # {}
  <2>1. E \subseteq Burst /\ Recent = Cardinality(Burst)
    BY <1>4, <1>6 DEF Recent
  <2> QED
    BY <1>3, <2>1, FS_Subset
<1> QED
  BY <1>5, <1>6

LEMMA PassesHaveTimes ==
  ASSUME PaceInv, NEW i \in DOMAIN passed
  PROVE  passed[i].at \in Nat /\ passed[i].at <= clock
<1>1. passed \in Seq(Passes) /\ passed[i].at <= clock
  BY DEF PaceInv, PassesInv
<1>2. i \in 1..Len(passed)
  BY <1>1, LenProperties
<1>3. passed[i] \in Passes
  BY <1>1, <1>2, ElementOfSeq
<1> QED
  BY <1>1, <1>3 DEF Passes

LEMMA PassesAreFinite ==
  ASSUME PaceInv, NEW time
  PROVE  /\ IsFiniteSet(PassedAfter(time)) /\ Cardinality(PassedAfter(time)) \in Nat
         /\ IsFiniteSet(EndedAfter(time)) /\ Cardinality(EndedAfter(time)) \in Nat
<1>1. passed \in Seq(Passes) /\ completed \in Seq(Nat)
  BY DEF PaceInv, PassesInv
<1>2. /\ Len(passed) \in Nat /\ DOMAIN passed = 1..Len(passed)
      /\ Len(completed) \in Nat /\ DOMAIN completed = 1..Len(completed)
  BY <1>1, LenProperties
<1>3. IsFiniteSet(DOMAIN passed) /\ IsFiniteSet(DOMAIN completed)
  BY <1>2, FS_Interval
<1>4. PassedAfter(time) \subseteq DOMAIN passed /\ EndedAfter(time) \subseteq DOMAIN completed
  BY DEF PassedAfter, EndedAfter
<1> QED
  BY <1>3, <1>4, FS_Subset, FS_CardinalityType

\* A call is let through only while those that ended of late are fewer than its limit.
LEMMA PassIsPaced ==
  ASSUME PaceInv, NEW l \in Ai!Levels, Ai!Allowed(l), clock' = clock, completed' = completed,
         passed' = Append(passed, [at |-> clock, level |-> l, beside |-> running]),
         running' = running + 1
  PROVE  PassesInv'
<1> DEFINE n == Len(passed)
           new == [at |-> clock, level |-> l, beside |-> running]
<1>1. /\ clock \in Nat /\ running \in Nat /\ passed \in Seq(Passes)
      /\ \A i \in DOMAIN passed : passed[i].at <= clock
  BY DEF PaceInv, PassesInv
<1>2. new \in Passes /\ new.at = clock /\ new.level = l /\ new.beside = running
  BY <1>1 DEF Passes
<1> HIDE DEF new
<1>3. /\ n \in Nat /\ DOMAIN passed = 1..n /\ \A i \in 1..n : passed[i] \in Passes
  BY <1>1, LenProperties, ElementOfSeq
<1>4. /\ passed' \in Seq(Passes) /\ Len(passed') = n + 1
      /\ \A i \in 1..n : passed'[i] = passed[i]
      /\ passed'[n + 1] = new
  BY <1>1, <1>2, AppendProperties DEF new
<1>5. DOMAIN passed' = 1..(n + 1)
  BY <1>4, LenProperties
<1>6. \A i \in 1..(n + 1) : i \in 1..n \/ i = n + 1
  BY <1>3
<1> HIDE DEF n
<1>7. ASSUME NEW i \in DOMAIN passed' PROVE passed'[i].at <= clock'
  BY <1>1, <1>2, <1>3, <1>4, <1>5, <1>6
<1>8. ASSUME NEW time \in Int
      PROVE  Cardinality(PassedAfter(time)') <= Cardinality(EndedAfter(time)') + running'
  <2>1. PassedAfter(time)' \subseteq PassedAfter(time) \cup {n + 1}
    BY <1>3, <1>4, <1>5, <1>6 DEF PassedAfter
  <2>2. EndedAfter(time)' = EndedAfter(time)
    BY DEF EndedAfter
  <2>3. Cardinality(PassedAfter(time)) <= Cardinality(EndedAfter(time)) + running
    BY DEF PaceInv, PassesInv
  <2>4. /\ IsFiniteSet(PassedAfter(time))
        /\ Cardinality(EndedAfter(time)) + running \in Nat
    BY <1>1, PassesAreFinite
  <2>5. Cardinality(PassedAfter(time)') <= (Cardinality(EndedAfter(time)) + running) + 1
    BY <2>1, <2>3, <2>4, OneMoreCounts
  <2> QED
    BY <1>1, <2>2, <2>4, <2>5, PassesAreFinite
<1>9. ASSUME NEW i \in DOMAIN passed'
      PROVE  Cardinality(Ai!WindowOf(i)') <= Limits[passed'[i].level] + passed'[i].beside
  <2>1. CASE i \in 1..n
    <3>1. \A j \in 1..i : passed'[j] = passed[j]
      BY <1>3, <1>4, <2>1
    <3>2. Ai!WindowOf(i)' = Ai!WindowOf(i)
      BY <1>4, <2>1, <3>1 DEF Ai!WindowOf
    <3> QED
      BY <1>3, <1>4, <2>1, <3>2 DEF PaceInv, PassesInv
  <2>2. CASE i = n + 1
    <3> DEFINE time == clock - ToolWindow
    <3>0. time \in Int
      BY <1>1, PaceConstants
    <3>1. Ai!WindowOf(i)' \subseteq PassedAfter(time) \cup {n + 1}
      <4>1. ASSUME NEW j \in Ai!WindowOf(i)', j # n + 1 PROVE j \in PassedAfter(time)
        <5>1. j \in 1..n /\ passed'[i].at - passed'[j].at < ToolWindow
          BY <1>3, <1>6, <2>2, <4>1 DEF Ai!WindowOf
        <5>2. clock - passed[j].at < ToolWindow /\ passed[j].at \in Nat
          BY <1>2, <1>3, <1>4, <2>2, <5>1 DEF Passes
        <5> QED
          BY <1>1, <1>3, <5>1, <5>2, PaceConstants DEF PassedAfter
      <4> QED
        BY <4>1
    <3>2. Cardinality(PassedAfter(time)) <= Cardinality(EndedAfter(time)) + running
      BY <3>0 DEF PaceInv, PassesInv
    <3>3. Cardinality(EndedAfter(time)) <= Recent /\ Recent \in Nat
      BY EndedAreRecent
    <3>4. Recent < Limits[l] /\ Limits[l] \in Nat
      BY ResetTells, LimitsTyped DEF Ai!Allowed
    <3>5. /\ IsFiniteSet(PassedAfter(time)) /\ Cardinality(PassedAfter(time)) \in Nat
          /\ Cardinality(EndedAfter(time)) \in Nat
      BY PassesAreFinite
    <3> HIDE DEF time
    <3>6. Cardinality(PassedAfter(time)) <= (Limits[l] - 1) + running
            /\ (Limits[l] - 1) + running \in Nat
      BY <1>1, <3>2, <3>3, <3>4, <3>5
    <3>7. Cardinality(Ai!WindowOf(i)') <= ((Limits[l] - 1) + running) + 1
      BY <3>1, <3>5, <3>6, OneMoreCounts
    <3>8. passed'[i].level = l /\ passed'[i].beside = running
      BY <1>2, <1>4, <2>2
    <3>9. ((Limits[l] - 1) + running) + 1 = Limits[l] + running
      BY <1>1, <3>4
    <3> QED
      BY <3>7, <3>8, <3>9
  <2> QED
    BY <1>5, <1>6, <2>1, <2>2
<1> QED
  BY <1>1, <1>4, <1>7, <1>8, <1>9 DEF PassesInv

\* A call that ends was counted among those that ran.
LEMMA EndIsPaced ==
  ASSUME PaceInv, running > 0, running' = running - 1, completed' = Append(completed, clock),
         passed' = passed, clock' = clock
  PROVE  PassesInv'
<1> DEFINE n == Len(completed)
<1>1. /\ clock \in Nat /\ running \in Nat /\ passed \in Seq(Passes)
      /\ completed \in Seq(Nat) /\ \A i \in DOMAIN passed : passed[i].at <= clock
  BY DEF PaceInv, PassesInv
<1>2. /\ n \in Nat /\ DOMAIN completed = 1..n
  BY <1>1, LenProperties
<1>3. /\ completed' \in Seq(Nat) /\ Len(completed') = n + 1
      /\ \A i \in 1..n : completed'[i] = completed[i]
      /\ completed'[n + 1] = clock
  BY <1>1, AppendProperties
<1>4. DOMAIN completed' = 1..(n + 1)
  BY <1>3, LenProperties
<1>5. \A i \in 1..(n + 1) : i \in 1..n \/ i = n + 1
  BY <1>2
<1>6. n + 1 \notin 1..n /\ n + 1 \in 1..(n + 1) /\ 1..n \subseteq 1..(n + 1)
  BY <1>2
<1> HIDE DEF n
<1>7. ASSUME NEW time \in Int
      PROVE  Cardinality(PassedAfter(time)') <= Cardinality(EndedAfter(time)') + running'
  <2>1. PassedAfter(time)' = PassedAfter(time)
    BY DEF PassedAfter
  <2>2. Cardinality(PassedAfter(time)) <= Cardinality(EndedAfter(time)) + running
    BY DEF PaceInv, PassesInv
  <2>3. /\ IsFiniteSet(EndedAfter(time)) /\ Cardinality(EndedAfter(time)) \in Nat
        /\ Cardinality(PassedAfter(time)) \in Nat
    BY PassesAreFinite
  <2>4. CASE clock > time
    <3>1. EndedAfter(time)' = EndedAfter(time) \cup {n + 1}
      BY <1>2, <1>3, <1>4, <1>5, <1>6, <2>4 DEF EndedAfter
    <3>2. n + 1 \notin EndedAfter(time)
      BY <1>2, <1>6 DEF EndedAfter
    <3>3. Cardinality(EndedAfter(time)') = Cardinality(EndedAfter(time)) + 1
      BY <2>3, <3>1, <3>2, FS_AddElement
    <3> QED
      BY <1>1, <2>1, <2>2, <2>3, <3>3
  <2>5. CASE ~(clock > time)
    <3>1. ASSUME NEW j \in PassedAfter(time) PROVE FALSE
      <4>1. j \in DOMAIN passed /\ passed[j].at > time
        BY DEF PassedAfter
      <4> QED
        BY <1>1, <2>5, <4>1, PassesHaveTimes
    <3>2. PassedAfter(time) = {}
      BY <3>1
    <3>3. Cardinality(PassedAfter(time)) = 0
      BY <3>2, FS_EmptySet
    <3>4. EndedAfter(time)' = EndedAfter(time)
      BY <1>2, <1>3, <1>4, <1>5, <1>6, <2>5 DEF EndedAfter
    <3> QED
      BY <1>1, <2>1, <2>3, <3>3, <3>4
  <2> QED
    BY <2>4, <2>5
<1>8. \A i : Ai!WindowOf(i)' = Ai!WindowOf(i)
  BY DEF Ai!WindowOf
<1>9. running' \in Nat
  BY <1>1
<1> QED
  BY <1>1, <1>7, <1>8, <1>9 DEF PaceInv, PassesInv

LEMMA PassesStay ==
  ASSUME PaceInv, clock' \in Nat, clock' >= clock, UNCHANGED <<running, passed, completed>>
  PROVE  PassesInv'
<1>1. clock \in Nat /\ passed \in Seq(Passes)
  BY DEF PaceInv, PassesInv
<1>2. \A time : PassedAfter(time)' = PassedAfter(time) /\ EndedAfter(time)' = EndedAfter(time)
  BY DEF PassedAfter, EndedAfter
<1>3. \A i : Ai!WindowOf(i)' = Ai!WindowOf(i)
  BY DEF Ai!WindowOf
<1>4. ASSUME NEW i \in DOMAIN passed' PROVE passed'[i].at <= clock'
  <2>1. passed[i].at \in Nat /\ passed[i].at <= clock
    BY PassesHaveTimes
  <2> QED
    BY <1>1, <2>1 DEF PaceInv
<1> QED
  BY <1>2, <1>3, <1>4 DEF PaceInv, PassesInv

\* A call that ends is the one of its burst, or one more.
LEMMA BurstGrows ==
  ASSUME PaceInv, completed' = Append(completed, clock)
  PROVE  /\ completed' \in Seq(Nat) /\ completed' # <<>>
         /\ completed'[Len(completed')] = clock
         /\ \A i \in DOMAIN completed' : completed'[i] <= clock
         /\ \A i, j \in DOMAIN completed' : i <= j => completed'[i] <= completed'[j]
         /\ Cardinality(Burst') =
              IF completed # <<>> /\ clock - completed[Len(completed)] < ToolWindow
              THEN Cardinality(Burst) + 1 ELSE 1
<1> DEFINE n == Len(completed)
<1>1. /\ clock \in Nat /\ completed \in Seq(Nat)
      /\ \A i \in DOMAIN completed : completed[i] <= clock
      /\ \A i, j \in DOMAIN completed : i <= j => completed[i] <= completed[j]
  BY DEF PaceInv
<1>2. n \in Nat /\ DOMAIN completed = 1..n /\ (completed # <<>> <=> n # 0)
  BY <1>1, LenProperties, EmptySeq
<1>3. /\ completed' \in Seq(Nat) /\ Len(completed') = n + 1
      /\ \A i \in 1..n : completed'[i] = completed[i]
      /\ completed'[n + 1] = clock
  BY <1>1, AppendProperties
<1>4. DOMAIN completed' = 1..(n + 1)
  BY <1>3, LenProperties
<1>5. completed' # <<>> /\ \A i \in DOMAIN completed' : completed'[i] <= clock
  BY <1>1, <1>2, <1>3, <1>4
<1>0. ASSUME NEW i \in DOMAIN completed', NEW j \in DOMAIN completed', i <= j
      PROVE  completed'[i] <= completed'[j]
  <2>1. CASE j = n + 1
    BY <1>3, <1>5, <2>1
  <2>2. CASE j # n + 1
    <3>1. i \in 1..n /\ j \in 1..n
      <4> HIDE DEF n
      <4> QED
        BY <1>0, <1>2, <1>4, <2>2
    <3> QED
      BY <1>0, <1>1, <1>2, <1>3, <3>1
  <2> QED
    BY <2>1, <2>2
<1>6. Burst' = {i \in 1..(n + 1) :
                  \A j \in i..n : completed'[j + 1] - completed'[j] < ToolWindow}
  <2>1. Len(completed') - 1 = n
    BY <1>2, <1>3
  <2> QED
    BY <1>4, <2>1 DEF Burst
<1>7. n + 1 \in Burst'
  BY <1>2, <1>6
<1>8. CASE completed # <<>> /\ clock - completed[n] < ToolWindow
  <2>1. Burst' = Burst \cup {n + 1}
    <3>1. ASSUME NEW i \in Burst PROVE i \in Burst'
      <4>1. i \in 1..n
        BY <1>2 DEF Burst
      <4>2. ASSUME NEW j \in i..n PROVE completed'[j + 1] - completed'[j] < ToolWindow
        <5>1. CASE j = n
          <6>1. n \in 1..n
            BY <1>2, <4>1
          <6>2. completed'[j + 1] = clock /\ completed'[j] = completed[n]
            BY <1>3, <5>1, <6>1
          <6> QED
            BY <1>8, <6>2
        <5>2. CASE j # n
          <6>1. j \in i..(n - 1) /\ j \in 1..n /\ j + 1 \in 1..n
            <7> HIDE DEF n
            <7> QED
              BY <1>2, <4>1, <4>2, <5>2
          <6>2. completed[j + 1] - completed[j] < ToolWindow
            BY <6>1 DEF Burst
          <6> QED
            BY <1>3, <6>1, <6>2
        <5> QED
          BY <5>1, <5>2
      <4> QED
        BY <1>2, <1>6, <4>1, <4>2
    <3>2. ASSUME NEW i \in Burst', i # n + 1 PROVE i \in Burst
      <4>1. i \in 1..n
        BY <1>2, <1>6, <3>2
      <4>2. ASSUME NEW j \in i..(n - 1) PROVE completed[j + 1] - completed[j] < ToolWindow
        <5>1. j \in i..n /\ j \in 1..n /\ j + 1 \in 1..n
          BY <1>2, <4>1, <4>2
        <5>2. completed'[j + 1] - completed'[j] < ToolWindow
          BY <1>6, <5>1
        <5> QED
          BY <1>3, <5>1, <5>2
      <4> QED
        BY <1>2, <4>1, <4>2 DEF Burst
    <3> QED
      BY <1>7, <3>1, <3>2
  <2>2. n + 1 \notin Burst
    BY <1>2 DEF Burst
  <2>3. Cardinality(Burst') = Cardinality(Burst) + 1
    BY <1>1, <2>1, <2>2, BurstIsNotEmpty, FS_AddElement
  <2> QED
    BY <1>0, <1>3, <1>5, <1>8, <2>3
<1>9. CASE ~(completed # <<>> /\ clock - completed[n] < ToolWindow)
  <2>1. ASSUME NEW i \in Burst', i # n + 1 PROVE FALSE
    <3>1. i \in 1..n /\ n \in i..n /\ n # 0 /\ n \in 1..n
      BY <1>2, <1>6, <2>1
    <3>2. completed'[n + 1] - completed'[n] < ToolWindow
      BY <1>6, <3>1
    <3> QED
      BY <1>2, <1>3, <1>9, <3>1, <3>2
  <2>2. Burst' = {n + 1}
    BY <1>7, <2>1
  <2>3. Cardinality(Burst') = 1
    BY <2>2, FS_Singleton
  <2> QED
    BY <1>0, <1>3, <1>5, <1>9, <2>3
<1> QED
  BY <1>8, <1>9

\* Every level's entry counts the call that ended.
LEMMA CountedTells ==
  ASSUME PaceInv, completed' = Append(completed, clock), NEW l \in Ai!Levels
  PROVE  LET e == Ai!Counted(executions[l])
         IN  e \in [count : Nat, last : Int] /\ e.last = clock /\ e.count = Cardinality(Burst')
<1> DEFINE e == executions[l]
           n == Len(completed)
<1>1. /\ clock \in Nat /\ completed \in Seq(Nat) /\ e \in [count : Nat, last : Int]
      /\ e.last <= clock /\ EntryTells(e)
  BY DEF PaceInv
<1>2. Cardinality(Burst) \in Nat
  BY <1>1, BurstIsNotEmpty
<1>3. Ai!Counted(e) =
        [count |-> IF clock - e.last < ToolWindow THEN e.count + 1 ELSE 1, last |-> clock]
  BY DEF Ai!Counted
<1>4. /\ Ai!Counted(e) \in [count : Nat, last : Int] /\ Ai!Counted(e).last = clock
      /\ Ai!Counted(e).count = IF clock - e.last < ToolWindow THEN e.count + 1 ELSE 1
  BY <1>1, <1>3
<1>5. completed # <<>> => completed[n] \in Nat
  BY <1>1, LenProperties, EmptySeq, ElementOfSeq
<1>6. Cardinality(Burst') = IF completed # <<>> /\ clock - completed[n] < ToolWindow
                            THEN Cardinality(Burst) + 1 ELSE 1
  BY BurstGrows
<1>7. CASE completed = <<>>
  <2>1. e.last = -2 * ToolWindow
    BY <1>1, <1>7 DEF EntryTells, Ai!NoEntry
  <2>2. ~(clock - e.last < ToolWindow)
    BY <1>1, <2>1, PaceConstants
  <2> QED
    BY <1>4, <1>6, <1>7, <2>2
<1>8. CASE completed # <<>> /\ e.last = completed[n] /\ e.count = Cardinality(Burst)
  BY <1>4, <1>6, <1>8
<1>9. CASE completed # <<>> /\ e.count = 0 /\ e.last - completed[n] > ToolWindow
  <2>1. ~(clock - completed[n] < ToolWindow)
    BY <1>1, <1>5, <1>9, PaceConstants
  <2>2. Ai!Counted(e).count = 1
    BY <1>4, <1>9
  <2> QED
    BY <1>4, <1>6, <2>1, <2>2
<1> QED
  BY <1>1, <1>7, <1>8, <1>9 DEF EntryTells

LEMMA PaceNext ==
  ASSUME PaceInv, [Ai!Next]_toolVars
  PROVE  PaceInv'
<1>0. /\ clock \in Nat /\ completed \in Seq(Nat)
      /\ executions \in [Ai!Levels -> [count : Nat, last : Int]]
  BY DEF PaceInv
<1>1. ASSUME NEW l \in Ai!Levels, NEW h \in Prompts, Ai!ExecuteTool(l, h)
      PROVE  PaceInv'
  <2>1. /\ clock' = clock /\ completed' = completed
        /\ executions' = [executions EXCEPT ![l] = Ai!Reset(@)]
        /\ prompts' = prompts \/ (~Ai!Suspicious(h) /\ Ai!Remember(h))
        /\ \/ UNCHANGED <<running, passed>>
           \/ /\ Ai!Allowed(l) /\ running' = running + 1
              /\ passed' = Append(passed,
                                  [at |-> clock, level |-> l, beside |-> running])
    BY <1>1 DEF Ai!ExecuteTool
  <2>6. PassesInv'
    <3>1. clock' \in Nat /\ clock' >= clock
      BY <1>0, <2>1
    <3> QED
      BY <2>1, <3>1, PassIsPaced, PassesStay
  <2>2. /\ prompts' \subseteq Nat \X Prompts /\ IsFiniteSet(prompts')
        /\ Cardinality(Ai!Within(Second)') <= MaxRapid + 1
        /\ \A g \in Prompts :
             Cardinality({p \in Ai!Within(Memory)' : p[2] = g}) <= MaxSimilar + 1
    <3>1. CASE prompts' = prompts
      <4>1. clock' \in Nat /\ clock' >= clock
        BY <1>0, <2>1
      <4> QED
        BY <3>1, <4>1, PromptsFade
    <3>2. CASE ~Ai!Suspicious(h) /\ Ai!Remember(h)
      BY <2>1, <3>2, PromptIsPaced
    <3> QED
      BY <2>1, <3>1, <3>2
  <2>3. ASSUME NEW k \in Ai!Levels
        PROVE  /\ executions'[k] \in [count : Nat, last : Int]
               /\ executions'[k].last <= clock /\ EntryTells(executions'[k])
    <3>1. CASE k = l
      <4>1. executions'[k] = Ai!Reset(executions[l])
        BY <1>0, <2>1, <3>1
      <4> QED
        BY <4>1, ResetTells
    <3>2. CASE k # l
      BY <1>0, <2>1, <3>2 DEF PaceInv
    <3> QED
      BY <3>1, <3>2
  <2>4. \A k \in Ai!Levels : EntryTells(executions[k])'
    BY <2>1, <2>3 DEF EntryTells, Burst, Ai!NoEntry
  <2>5. executions' \in [Ai!Levels -> [count : Nat, last : Int]]
    BY <1>0, <2>1, <2>3
  <2> QED
    BY <2>1, <2>2, <2>3, <2>4, <2>5, <2>6 DEF PaceInv
<1>2. CASE Ai!Complete
  <2>1. /\ clock' = clock /\ prompts' = prompts /\ completed' = Append(completed, clock)
        /\ running > 0 /\ running' = running - 1 /\ passed' = passed
        /\ executions' = [l \in Ai!Levels |-> Ai!Counted(executions[l])]
    BY <1>2 DEF Ai!Complete
  <2>2. /\ prompts' \subseteq Nat \X Prompts /\ IsFiniteSet(prompts')
        /\ Cardinality(Ai!Within(Second)') <= MaxRapid + 1
        /\ \A g \in Prompts :
             Cardinality({p \in Ai!Within(Memory)' : p[2] = g}) <= MaxSimilar + 1
    <3>1. clock' \in Nat /\ clock' >= clock
      BY <1>0, <2>1
    <3> QED
      BY <2>1, <3>1, PromptsFade
  <2>3. /\ completed' \in Seq(Nat) /\ completed' # <<>>
        /\ completed'[Len(completed')] = clock
        /\ \A i \in DOMAIN completed' : completed'[i] <= clock
        /\ \A i, j \in DOMAIN completed' : i <= j => completed'[i] <= completed'[j]
    BY <2>1, BurstGrows
  <2>4. ASSUME NEW k \in Ai!Levels
        PROVE  /\ executions'[k] \in [count : Nat, last : Int]
               /\ executions'[k].last = clock /\ executions'[k].count = Cardinality(Burst')
    BY <2>1, CountedTells
  <2>5. \A k \in Ai!Levels : EntryTells(executions[k])'
    BY <2>3, <2>4 DEF EntryTells
  <2>6. executions' \in [Ai!Levels -> [count : Nat, last : Int]]
    BY <2>1, <2>4
  <2>7. \A k \in Ai!Levels : executions'[k].last <= clock'
    BY <1>0, <2>1, <2>4
  <2>8. PassesInv'
    BY <2>1, EndIsPaced
  <2> QED
    BY <1>0, <2>1, <2>2, <2>3, <2>5, <2>6, <2>7, <2>8 DEF PaceInv
<1>3. ASSUME clock' \in Nat, clock' >= clock,
             UNCHANGED <<executions, prompts, completed, running, passed>>
      PROVE  PaceInv'
  <2>1. /\ prompts' \subseteq Nat \X Prompts /\ IsFiniteSet(prompts')
        /\ Cardinality(Ai!Within(Second)') <= MaxRapid + 1
        /\ \A g \in Prompts :
             Cardinality({p \in Ai!Within(Memory)' : p[2] = g}) <= MaxSimilar + 1
    BY <1>3, PromptsFade
  <2>2. \A k \in Ai!Levels : EntryTells(executions[k])' 
    BY <1>3 DEF PaceInv, EntryTells, Burst, Ai!NoEntry
  <2>3. \A k \in Ai!Levels : executions'[k].last <= clock'
    BY <1>0, <1>3 DEF PaceInv
  <2>4. \A i \in DOMAIN completed' : completed'[i] <= clock'
    BY <1>0, <1>3, ElementOfSeq DEF PaceInv
  <2> QED
    BY <1>0, <1>3, <2>1, <2>2, <2>3, <2>4, PassesStay DEF PaceInv
<1>4. CASE Ai!Tick
  BY <1>0, <1>3, <1>4 DEF Ai!Tick
<1>5. CASE UNCHANGED toolVars
  BY <1>0, <1>3, <1>5 DEF toolVars
<1> QED
  BY <1>1, <1>2, <1>4, <1>5 DEF Ai!Next

LEMMA PaceDone ==
  ASSUME PaceInv
  PROVE  Ai!PacedByUse
<1>1. \A l \in Ai!Levels : Ai!Allowed(l) <=> Recent < Limits[l]
  BY ResetTells DEF Ai!Allowed
<1>2. ASSUME Ai!Paused PROVE Recent = 0
  <2>1. CASE completed = <<>>
    BY <2>1 DEF Recent
  <2>2. CASE completed # <<>> /\ clock - completed[Len(completed)] > ToolWindow
    <3>1. completed[Len(completed)] \in Nat /\ clock \in Nat
      BY <2>2, LenProperties, EmptySeq, ElementOfSeq DEF PaceInv
    <3> QED
      BY <2>2, <3>1, PaceConstants DEF Recent
  <2> QED
    BY <1>2, <2>1, <2>2 DEF Ai!Paused
<1>3. Ai!Paused => \A l \in Ai!Levels : Ai!Allowed(l)
  BY <1>1, <1>2, LimitsTyped
<1> QED
  BY <1>3, PaceCounts DEF PaceInv, PassesInv, Ai!PacedByUse

\* For any limits, windows and delays: however late and in whatever order commands reach
\* Redis, no window less the delay has more moments whose requests the script let through
\* than the limit; a window that ends with a call of an AI tool has no more calls than the
\* limit of its level and those under way, which none counts, and a pause opens every level
\* again; and prompts are let through no faster than their two limits
\* (token-rate-limiter.ts:93-125, 217, ai-tool-executor.ts:325-390,
\* prompt-security.ts:340-382).
THEOREM LimitsAreKept == Spec => []LimitsHold
<1>1. Init => WindowInv /\ PaceInv
  BY WindowInit, PaceInit DEF Init
<1>2. WindowInv /\ PaceInv /\ [Next]_all => (WindowInv /\ PaceInv)'
  BY LegacySteps, WindowNext, PaceNext
<1>3. WindowInv /\ PaceInv => LimitsHold
  BY PaceDone DEF WindowInv, LimitsHold
<1> QED
  BY <1>1, <1>2, <1>3, PTL DEF Spec
-----------------------------------------------------------------------------
(***************************************************************************)
(* The replay guard                                                        *)
(***************************************************************************)
\* What a guard may have forgotten of a message it accepted: one that has expired, or one
\* behind more than half a cache of later ones.
GuardInv ==
  /\ instant \in Nat /\ accepted \in Seq(Messages \X Nat)
  /\ \A i \in DOMAIN accepted : accepted[i][2] <= instant
  /\ requestCache \subseteq DOMAIN accepted
  /\ \A i \in DOMAIN accepted :
       \/ Guard!Age(i) >= CacheTtl
       \/ i \in requestCache
       \/ Len(accepted) - i > MaxCacheSize \div 2
  /\ Guard!ReplayNeedsPressure

LEMMA GuardConstants ==
  /\ MaxCacheSize \in Nat /\ MaxCacheSize > 0 /\ CacheTtl \in Nat
  /\ MaxCacheSize \div 2 \in Nat /\ MaxCacheSize \div 2 < MaxCacheSize
  BY OutsideAssumption

LEMMA GuardCounts == \A S : Guard!Cardinality(S) = Cardinality(S)
  BY DEF Guard!Cardinality, Cardinality

LEMMA LeastNumber ==
  ASSUME NEW S, S \subseteq Nat, S # {}
  PROVE  \E x \in S : \A y \in S : x <= y
<1> DEFINE R == OpToRel(<, Nat)
<1>1. IsWellFoundedOn(R, Nat)
  BY NatLessThanWellFounded
<1>2. \A x, y \in Nat : y < x => <<y, x>> \in R
  BY DEF OpToRel
<1> HIDE DEF R
<1>3. PICK x \in S : \A y \in S : ~(<<y, x>> \in R)
  BY <1>1, WFMin
<1>4. ASSUME NEW y \in S PROVE x <= y
  <2>1. x \in Nat /\ y \in Nat /\ ~(y < x)
    BY <1>2, <1>3
  <2> QED
    BY <2>1
<1> QED
  BY <1>4

LEMMA PartsOfIntervals ==
  ASSUME NEW a \in Int, NEW b \in Int, NEW S, S \subseteq a..b
  PROVE  /\ IsFiniteSet(S) /\ Cardinality(S) \in Nat
         /\ a <= b + 1 => Cardinality(S) <= b - a + 1
<1>1. IsFiniteSet(a..b) /\ Cardinality(a..b) = IF a > b THEN 0 ELSE b - a + 1
  BY FS_Interval
<1>2. IsFiniteSet(S) /\ Cardinality(S) <= Cardinality(a..b)
  BY <1>1, FS_Subset
<1>3. Cardinality(S) \in Nat /\ Cardinality(a..b) \in Nat
  BY <1>1, <1>2, FS_CardinalityType
<1> QED
  BY <1>1, <1>2, <1>3

LEMMA PartsOfCounts ==
  ASSUME NEW n \in Nat, NEW S, S \subseteq 1..n
  PROVE  IsFiniteSet(S) /\ Cardinality(S) \in Nat
<1>1. 1 \in Int /\ n \in Int
  OBVIOUS
<1> QED
  BY <1>1, PartsOfIntervals

\* Of a set of entries at most half is kept, and one that goes is older than half of them.
LEMMA HalvedIsHalf ==
  ASSUME NEW F, NEW n \in Nat, F \subseteq 1..n
  PROVE  /\ Guard!Halved(F) \subseteq F
         /\ Cardinality(Guard!Halved(F)) <= Cardinality(F) \div 2
         /\ \A i \in F : i \notin Guard!Halved(F) => n - i + 1 > Cardinality(F) \div 2
<1> DEFINE H == Guard!Halved(F)
           Later(i) == {j \in F : j >= i}
           middle == Cardinality(F) \div 2
<1>1. H = {i \in F : Cardinality(Later(i)) <= middle}
  BY GuardCounts DEF Guard!Halved
<1>2. /\ IsFiniteSet(F) /\ Cardinality(F) \in Nat /\ middle \in Nat
  <2>1. IsFiniteSet(F) /\ Cardinality(F) \in Nat
    BY PartsOfCounts
  <2> QED
    BY <2>1
<1>3. Cardinality(H) <= middle
  <2>1. CASE H = {}
    BY <1>2, <2>1, FS_EmptySet
  <2>2. CASE H # {}
    <3>1. H \subseteq Nat /\ H \subseteq F
      <4>1. H \subseteq F /\ 1..n \subseteq Nat
        BY <1>1
      <4> HIDE DEF H
      <4> QED
        BY <4>1
    <3>2. PICK x \in H : \A y \in H : x <= y
      BY <2>2, <3>1, LeastNumber
    <3>3. H \subseteq Later(x) /\ IsFiniteSet(Later(x))
      BY <1>2, <3>1, <3>2, FS_Subset
    <3>4. Cardinality(H) <= Cardinality(Later(x)) /\ IsFiniteSet(H)
      BY <3>3, FS_Subset
    <3>5. Cardinality(Later(x)) <= middle
      BY <1>1, <3>2
    <3>6. Cardinality(H) \in Nat /\ Cardinality(Later(x)) \in Nat
      BY <3>3, <3>4, FS_CardinalityType
    <3> HIDE DEF H, Later, middle
    <3> QED
      BY <1>2, <3>4, <3>5, <3>6
  <2> QED
    BY <2>1, <2>2
<1>4. ASSUME NEW i \in F, i \notin H
      PROVE  n - i + 1 > middle
  <2>1. i \in 1..n /\ Later(i) \subseteq i..n
    <3>1. \A j \in F : j \in 1..n
      OBVIOUS
    <3>2. \A j \in Later(i) : j \in i..n
      BY <3>1
    <3> QED
      BY <3>1, <3>2
  <2>2. Cardinality(Later(i)) \in Nat /\ Cardinality(Later(i)) <= n - i + 1
    <3>1. i \in Int /\ n \in Int /\ i <= n + 1
      BY <2>1
    <3> HIDE DEF Later
    <3> QED
      BY <2>1, <3>1, PartsOfIntervals
  <2>3. ~(Cardinality(Later(i)) <= middle)
    BY <1>1, <1>4
  <2> HIDE DEF middle, Later, H
  <2> QED
    BY <1>2, <2>1, <2>2, <2>3
<1> QED
  BY <1>1, <1>3, <1>4

\* Room for one more entry is made, and what goes has expired or is old.
LEMMA RoomIsMade ==
  ASSUME NEW C, NEW n \in Nat, C \subseteq 1..n, Cardinality(C) <= MaxCacheSize,
         \A i \in C : Guard!Age(i) \in Int
  PROVE  /\ Guard!Room(C) \subseteq C /\ Cardinality(Guard!Room(C)) < MaxCacheSize
         /\ \A i \in C : \/ i \in Guard!Room(C) \/ Guard!Age(i) > CacheTtl
                         \/ n - i + 1 > MaxCacheSize \div 2
<1> DEFINE fresh == {i \in C : Guard!Age(i) <= CacheTtl}
<1>1. /\ fresh \subseteq C /\ fresh \subseteq 1..n
      /\ \A i \in C : i \in fresh \/ Guard!Age(i) > CacheTtl
  <2>1. \A i \in C : Guard!Age(i) <= CacheTtl \/ Guard!Age(i) > CacheTtl
    BY GuardConstants
  <2> QED
    BY <2>1
<1>2. Guard!Room(C) = IF Cardinality(C) < MaxCacheSize THEN C
                      ELSE IF Cardinality(fresh) < MaxCacheSize THEN fresh
                      ELSE Guard!Halved(fresh)
  BY GuardCounts DEF Guard!Room
<1> HIDE DEF fresh
<1>3. /\ IsFiniteSet(C) /\ Cardinality(C) \in Nat
      /\ Cardinality(fresh) \in Nat /\ Cardinality(fresh) <= Cardinality(C)
  <2>1. IsFiniteSet(C) /\ Cardinality(C) \in Nat /\ Cardinality(fresh) \in Nat
    BY <1>1, PartsOfCounts
  <2> QED
    BY <1>1, <2>1, FS_Subset
<1>4. CASE Cardinality(C) < MaxCacheSize
  BY <1>2, <1>4
<1>5. CASE ~(Cardinality(C) < MaxCacheSize) /\ Cardinality(fresh) < MaxCacheSize
  BY <1>1, <1>2, <1>5
<1>6. CASE ~(Cardinality(C) < MaxCacheSize) /\ ~(Cardinality(fresh) < MaxCacheSize)
  <2>1. /\ Guard!Halved(fresh) \subseteq fresh
        /\ Cardinality(Guard!Halved(fresh)) <= Cardinality(fresh) \div 2
        /\ \A i \in fresh : i \notin Guard!Halved(fresh) =>
             n - i + 1 > Cardinality(fresh) \div 2
    BY <1>1, HalvedIsHalf
  <2>2. Cardinality(fresh) = MaxCacheSize
    BY <1>3, <1>6, GuardConstants
  <2>3. Guard!Room(C) = Guard!Halved(fresh)
    BY <1>2, <1>6
  <2>4. Cardinality(Guard!Halved(fresh)) \in Nat
    BY <1>1, <2>1, PartsOfCounts
  <2>5. Cardinality(Guard!Room(C)) < MaxCacheSize
    BY <2>1, <2>2, <2>3, <2>4, GuardConstants
  <2> QED
    BY <1>1, <2>1, <2>2, <2>3, <2>5
<1> QED
  BY <1>4, <1>5, <1>6

LEMMA GuardInit ==
  ASSUME Guard!Init
  PROVE  GuardInv
<1>1. instant = 0 /\ requestCache = {} /\ accepted = <<>>
  BY DEF Guard!Init
<1>2. Cardinality({}) = 0
  BY FS_EmptySet
<1>3. DOMAIN accepted = {}
  BY <1>1
<1>4. Guard!ReplayNeedsPressure
  BY <1>1, <1>2, <1>3, GuardCounts, GuardConstants DEF Guard!ReplayNeedsPressure
<1> QED
  BY <1>1, <1>3, <1>4 DEF GuardInv

LEMMA LookedIsFresh ==
  ASSUME GuardInv, NEW m \in Messages
  PROVE  /\ Guard!Looked(m) \subseteq requestCache
         /\ Cardinality(Guard!Looked(m)) <= MaxCacheSize
         /\ \A i \in requestCache : i \in Guard!Looked(m) \/ Guard!Age(i) >= CacheTtl
<1>1. /\ requestCache \subseteq 1..Len(accepted) /\ Len(accepted) \in Nat
      /\ \A i \in requestCache : Guard!Age(i) \in Int
  BY LenProperties, ElementOfSeq DEF GuardInv, Guard!Age
<1>2. /\ Guard!Looked(m) \subseteq requestCache
      /\ \A i \in requestCache : i \in Guard!Looked(m) \/ Guard!Age(i) >= CacheTtl
  BY <1>1, GuardConstants DEF Guard!Looked
<1>3. /\ IsFiniteSet(requestCache) /\ Cardinality(requestCache) \in Nat
      /\ Cardinality(Guard!Looked(m)) \in Nat
  BY <1>1, <1>2, PartsOfCounts
<1>4. Cardinality(Guard!Looked(m)) <= Cardinality(requestCache)
  BY <1>2, <1>3, FS_Subset
<1>5. Cardinality(requestCache) <= MaxCacheSize
  BY GuardCounts DEF GuardInv, Guard!ReplayNeedsPressure
<1> QED
  BY <1>2, <1>3, <1>4, <1>5, GuardConstants

\* A message comes through: one like it that is remembered no more is far behind.
LEMMA GuardAccepts ==
  ASSUME GuardInv, NEW m \in Messages, ~Guard!IsDuplicate(m), instant' = instant,
         requestCache' = Guard!Room(Guard!Looked(m)) \cup {Len(accepted) + 1},
         accepted' = Append(accepted, <<m, instant>>)
  PROVE  GuardInv'
<1> DEFINE n == Len(accepted)
           C == Guard!Looked(m)
           Room == Guard!Room(C)
<1>0. instant \in Nat /\ accepted \in Seq(Messages \X Nat) /\ <<m, instant>> \in Messages \X Nat
  BY DEF GuardInv
<1>1. n \in Nat /\ DOMAIN accepted = 1..n /\ \A i \in 1..n : accepted[i] \in Messages \X Nat
  BY <1>0, LenProperties, ElementOfSeq
<1>2. /\ accepted' \in Seq(Messages \X Nat) /\ Len(accepted') = n + 1
      /\ \A i \in 1..n : accepted'[i] = accepted[i]
      /\ accepted'[n + 1] = <<m, instant>>
  BY <1>0, AppendProperties
<1>3. DOMAIN accepted' = 1..(n + 1)
  BY <1>2, LenProperties
<1>4. \A i \in DOMAIN accepted' : accepted'[i][2] <= instant'
  <2>1. \A i \in 1..n : accepted[i][2] <= instant
    BY <1>1 DEF GuardInv
  <2>2. accepted'[n + 1][2] = instant
    BY <1>2
  <2>3. \A i \in 1..(n + 1) : i \in 1..n \/ i = n + 1
    BY <1>1
  <2> QED
    BY <1>0, <1>2, <1>3, <2>1, <2>2, <2>3
<1>5. requestCache \subseteq 1..n /\ \A i \in 1..n : Guard!Age(i) \in Int
  BY <1>0, <1>1 DEF GuardInv, Guard!Age
<1>6. /\ C \subseteq requestCache /\ Cardinality(C) <= MaxCacheSize
      /\ \A i \in requestCache : i \in C \/ Guard!Age(i) >= CacheTtl
  BY LookedIsFresh
<1>7. /\ Room \subseteq C /\ Cardinality(Room) < MaxCacheSize
      /\ \A i \in C : \/ i \in Room \/ Guard!Age(i) > CacheTtl
                      \/ n - i + 1 > MaxCacheSize \div 2
  <2>1. C \subseteq 1..n /\ \A i \in C : Guard!Age(i) \in Int
    BY <1>5, <1>6
  <2> HIDE DEF C
  <2> QED
    BY <1>1, <1>6, <2>1, RoomIsMade
<1>8. requestCache' = Room \cup {n + 1}
  OBVIOUS
<1> HIDE DEF C, Room
<1>9. requestCache' \subseteq DOMAIN accepted'
  <2>1. Room \subseteq 1..n
    BY <1>5, <1>6, <1>7, Zenon
  <2>2. 1..n \subseteq 1..(n + 1) /\ n + 1 \in 1..(n + 1)
    <3> HIDE DEF n
    <3> QED
      BY <1>1
  <2> QED
    BY <1>3, <1>8, <2>1, <2>2, Zenon
<1>10. Cardinality(requestCache') <= MaxCacheSize
  <2>1. IsFiniteSet(Room) /\ Cardinality(Room) \in Nat /\ n + 1 \notin Room
    <3>1. Room \subseteq 1..n
      BY <1>5, <1>6, <1>7, Zenon
    <3>2. n + 1 \notin 1..n
      <4> HIDE DEF n
      <4> QED
        BY <1>1
    <3>3. IsFiniteSet(Room) /\ Cardinality(Room) \in Nat
      BY <1>1, <3>1, PartsOfCounts
    <3> QED
      BY <3>1, <3>2, <3>3
  <2>2. Cardinality(requestCache') = Cardinality(Room) + 1
    BY <1>8, <2>1, FS_AddElement
  <2> QED
    BY <1>7, <2>1, <2>2, GuardConstants
<1>11. \A i \in 1..n : Guard!Age(i)' = Guard!Age(i)
  BY <1>2 DEF Guard!Age
<1>12. ASSUME NEW i \in DOMAIN accepted'
       PROVE  \/ Guard!Age(i)' >= CacheTtl
              \/ i \in requestCache'
              \/ Len(accepted') - i > MaxCacheSize \div 2
  <2>1. CASE i = n + 1
    BY <1>8, <2>1
  <2>2. CASE i # n + 1
    <3>1. i \in 1..n /\ Guard!Age(i)' = Guard!Age(i) /\ Guard!Age(i) \in Int
      BY <1>1, <1>3, <1>5, <1>11, <2>2
    <3>2. \/ Guard!Age(i) >= CacheTtl
          \/ i \in requestCache
          \/ n - i > MaxCacheSize \div 2
      BY <1>1, <3>1 DEF GuardInv
    <3>3. i \in requestCache =>
            \/ Guard!Age(i) >= CacheTtl \/ i \in Room \/ n - i + 1 > MaxCacheSize \div 2
      BY <1>6, <1>7, <3>1, GuardConstants
    <3>4. Len(accepted') - i = n - i + 1
      BY <1>1, <1>2, <3>1
    <3> QED
      BY <1>1, <1>8, <3>1, <3>2, <3>3, <3>4, GuardConstants
  <2> QED
    BY <2>1, <2>2
<1>13. ASSUME NEW i \in DOMAIN accepted', NEW j \in DOMAIN accepted', i < j,
              accepted'[i][1] = accepted'[j][1],
              accepted'[j][2] - accepted'[i][2] < CacheTtl
       PROVE  j - i - 1 > MaxCacheSize \div 2
  <2>1. i \in 1..n
    BY <1>1, <1>3, <1>13
  <2>2. CASE j = n + 1
    <3>1. accepted[i][1] = m /\ Guard!Age(i) < CacheTtl
      BY <1>2, <1>13, <2>1, <2>2 DEF Guard!Age
    <3>2. i \notin requestCache
      BY <3>1 DEF Guard!IsDuplicate
    <3>3. n - i > MaxCacheSize \div 2
      BY <1>1, <1>5, <2>1, <3>1, <3>2, GuardConstants DEF GuardInv
    <3> QED
      BY <1>1, <2>1, <2>2, <3>3, GuardConstants
  <2>3. CASE j # n + 1
    <3>1. j \in 1..n
      BY <1>1, <1>3, <2>3
    <3>2. /\ accepted[i][1] = accepted[j][1]
          /\ accepted[j][2] - accepted[i][2] < CacheTtl
      BY <1>2, <1>13, <2>1, <3>1
    <3> QED
      BY <1>1, <1>13, <2>1, <3>1, <3>2 DEF GuardInv, Guard!ReplayNeedsPressure
  <2> QED
    BY <2>2, <2>3
<1>14. Guard!ReplayNeedsPressure'
  BY <1>10, <1>13, GuardCounts DEF Guard!ReplayNeedsPressure
<1> QED
  BY <1>0, <1>2, <1>4, <1>9, <1>12, <1>14 DEF GuardInv

LEMMA GuardNext ==
  ASSUME GuardInv, [Guard!Next]_guardVars
  PROVE  GuardInv'
<1>0. /\ instant \in Nat /\ accepted \in Seq(Messages \X Nat)
      /\ Len(accepted) \in Nat /\ DOMAIN accepted = 1..Len(accepted)
      /\ \A i \in DOMAIN accepted : accepted[i] \in Messages \X Nat
  BY LenProperties, ElementOfSeq DEF GuardInv
<1>1. ASSUME instant' \in Nat, instant' >= instant, UNCHANGED <<requestCache, accepted>>
      PROVE  GuardInv'
  <2>1. \A i \in DOMAIN accepted : /\ Guard!Age(i) \in Int /\ Guard!Age(i)' \in Int
                                   /\ Guard!Age(i)' >= Guard!Age(i)
    BY <1>0, <1>1 DEF Guard!Age
  <2>2. \A i \in DOMAIN accepted' : accepted'[i][2] <= instant'
    BY <1>0, <1>1 DEF GuardInv
  <2>3. \A i \in DOMAIN accepted' : \/ Guard!Age(i)' >= CacheTtl
                                    \/ i \in requestCache'
                                    \/ Len(accepted') - i > MaxCacheSize \div 2
    BY <1>1, <2>1, GuardConstants DEF GuardInv
  <2>4. Guard!ReplayNeedsPressure'
    BY <1>1 DEF GuardInv, Guard!ReplayNeedsPressure
  <2> QED
    BY <1>0, <1>1, <2>2, <2>3, <2>4 DEF GuardInv
<1>2. CASE Guard!Tick
  BY <1>0, <1>1, <1>2 DEF Guard!Tick
<1>3. CASE UNCHANGED guardVars
  BY <1>0, <1>1, <1>3 DEF guardVars
<1>4. ASSUME NEW m \in Messages, Guard!ValidateMessage(m)
      PROVE  GuardInv'
  <2>1. CASE requestCache' = Guard!Looked(m) /\ UNCHANGED <<instant, accepted>>
    <3>1. /\ requestCache' \subseteq requestCache /\ Cardinality(requestCache') <= MaxCacheSize
          /\ \A i \in requestCache : i \in requestCache' \/ Guard!Age(i) >= CacheTtl
      BY <2>1, LookedIsFresh
    <3>2. Guard!ReplayNeedsPressure'
      BY <2>1, <3>1, GuardCounts DEF GuardInv, Guard!ReplayNeedsPressure
    <3>3. \A i \in DOMAIN accepted' : \/ Guard!Age(i)' >= CacheTtl
                                      \/ i \in requestCache'
                                      \/ Len(accepted') - i > MaxCacheSize \div 2
      BY <2>1, <3>1 DEF GuardInv, Guard!Age
    <3> QED
      BY <1>0, <2>1, <3>1, <3>2, <3>3 DEF GuardInv
  <2>2. CASE ~Guard!IsDuplicate(m) /\ UNCHANGED instant
             /\ requestCache' = Guard!Room(Guard!Looked(m)) \cup {Len(accepted) + 1}
             /\ accepted' = Append(accepted, <<m, instant>>)
    BY <2>2, GuardAccepts
  <2> QED
    BY <1>4, <2>1, <2>2 DEF Guard!ValidateMessage
<1> QED
  BY <1>2, <1>3, <1>4 DEF Guard!Next

\* For any size of the cache, any time to live and whatever is sent: the cache keeps to its
\* size, and a message comes through again within CACHE_TTL only after more than half a
\* cache of others came through in between (mcp-security.ts:384-425).
THEOREM ReplaysNeedPressure == Spec => []ReplayNeedsPressure
<1>1. Init => GuardInv
  BY GuardInit DEF Init
<1>2. GuardInv /\ [Next]_all => GuardInv'
  BY LegacySteps, GuardNext
<1>3. GuardInv => ReplayNeedsPressure
  BY DEF GuardInv, ReplayNeedsPressure
<1> QED
  BY <1>1, <1>2, <1>3, PTL DEF Spec
=============================================================================
