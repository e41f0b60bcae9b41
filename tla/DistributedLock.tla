--------------------------- MODULE DistributedLock ---------------------------
(***************************************************************************)
(* RedisDistributedLock of the historical v1 server: several instances     *)
(* lock one key by SET NX PX, release and extend it by a script that       *)
(* compares the value first, and retry while another holds it.  Commands   *)
(* may fail before they are executed or lose their reply after it, and the *)
(* key expires while its holder works.                                     *)
(***************************************************************************)
EXTENDS Naturals

CONSTANTS
  Clients,     \* callers of the lock, of any instance
  Ttl,         \* options.ttl, in ticks
  PerSecond,   \* ticks in a second, the unit of EXPIRE
  NewTtls,     \* the arguments given to extendLock()
  MaxRetries,  \* options.maxRetries
  None         \* no value, no command, no reply

VARIABLES
  stored,      \* Redis: the key's value, or None
  ttl,         \* Redis: ticks until the key expires
  turn,        \* tells a client's latest lock value from the one before it
  acquired,    \* lock.acquired of each client's handle
  command,     \* the command a client awaits, or None
  reply,       \* its reply: "yes", "no", "error", or None before there is one
  attempts     \* failed attempts of an acquireLock() call

lockVars == <<stored, ttl, turn, acquired, command, reply, attempts>>

Value(c) == <<c, turn[c]>>

Set == [name |-> "set"]
Release == [name |-> "release"]
Validate == [name |-> "validate"]
Extend(new) == [name |-> "extend", ttl |-> new]
Commands == {Set, Release, Validate} \cup {Extend(new) : new \in NewTtls}

Init ==
  /\ stored = None /\ ttl = 0
  /\ turn = [c \in Clients |-> FALSE] /\ acquired = [c \in Clients |-> FALSE]
  /\ command = [c \in Clients |-> None] /\ reply = [c \in Clients |-> None]
  /\ attempts = [c \in Clients |-> 0]

Send(c, cmd) == command' = [command EXCEPT ![c] = cmd] /\ reply' = [reply EXCEPT ![c] = None]
-----------------------------------------------------------------------------
\* acquireLock(): a new value, tried until MaxRetries attempts have failed.
AcquireLock(c) ==
  /\ command[c] = None
  /\ turn' = [turn EXCEPT ![c] = ~@] /\ acquired' = [acquired EXCEPT ![c] = FALSE]
  /\ attempts' = [attempts EXCEPT ![c] = 0]
  /\ Send(c, Set)
  /\ UNCHANGED <<stored, ttl>>

\* releaseLock(), extendLock() and isLockValid() ask only for an acquired lock.
UseLock(c) ==
  /\ command[c] = None /\ acquired[c]
  /\ \E cmd \in Commands \ {Set} : Send(c, cmd)
  /\ UNCHANGED <<stored, ttl, turn, acquired, attempts>>

\* Mutant: the script deletes the key without comparing its value.
ExecutesOfBlind(c) ==
  IF command[c] = Set THEN stored = None
  ELSE IF command[c] = Release THEN stored # None ELSE stored = Value(c)

\* Whether Redis does what it is asked: SET NX, or a script that compares.
Executes(c) == IF command[c] = Set THEN stored = None ELSE stored = Value(c)

\* What EXPIRE makes of the new time: whole seconds, and none deletes the key.
Expire(new) == (new \div PerSecond) * PerSecond

\* Redis executes a command; the reply to it may be lost.
Execute(c) ==
  /\ command[c] # None /\ reply[c] = None
  /\ LET cmd == command[c]
         left == IF cmd.name = "extend" THEN Expire(cmd.ttl) ELSE Ttl
     IN  /\ \E answer \in {IF Executes(c) THEN "yes" ELSE "no", "error"} :
              reply' = [reply EXCEPT ![c] = answer]
         /\ IF Executes(c) /\ cmd # Validate
            THEN IF cmd = Release \/ left = 0
                 THEN stored' = None /\ ttl' = 0
                 ELSE stored' = Value(c) /\ ttl' = left
            ELSE UNCHANGED <<stored, ttl>>
  /\ UNCHANGED <<turn, acquired, command, attempts>>

\* The command never reaches Redis.
Fail(c) ==
  /\ command[c] # None /\ reply[c] = None
  /\ reply' = [reply EXCEPT ![c] = "error"]
  /\ UNCHANGED <<stored, ttl, turn, acquired, command, attempts>>

\* The caller gets the reply.  A failed attempt is repeated after a delay; a lock
\* whose release failed still counts as acquired.
Receive(c) ==
  /\ reply[c] # None
  /\ LET failed == command[c] = Set /\ reply[c] # "yes"
     IN  /\ attempts' = IF failed THEN [attempts EXCEPT ![c] = @ + 1] ELSE attempts
         /\ Send(c, IF failed /\ attempts[c] + 1 < MaxRetries THEN Set ELSE None)
  /\ acquired' = IF reply[c] # "yes" THEN acquired
                 ELSE [acquired EXCEPT ![c] = IF command[c] = Release THEN FALSE ELSE TRUE]
  /\ UNCHANGED <<stored, ttl, turn>>

\* forceReleaseLock(), by whoever knows the key.
ForceRelease ==
  /\ stored # None
  /\ stored' = None /\ ttl' = 0
  /\ UNCHANGED <<turn, acquired, command, reply, attempts>>

Tick ==
  /\ ttl > 0
  /\ ttl' = ttl - 1 /\ stored' = IF ttl = 1 THEN None ELSE stored
  /\ UNCHANGED <<turn, acquired, command, reply, attempts>>

Next ==
  \/ \E c \in Clients : AcquireLock(c) \/ UseLock(c) \/ Execute(c) \/ Fail(c) \/ Receive(c)
  \/ ForceRelease \/ Tick

Spec == Init /\ [][Next]_lockVars
-----------------------------------------------------------------------------
TypeOK ==
  /\ stored \in {None} \cup (Clients \X BOOLEAN) /\ (stored = None <=> ttl = 0)
  /\ attempts \in [Clients -> 0..MaxRetries]

\* Whoever's release, extension or attempt arrives late, after the lock expired
\* and another took it: only its own holder's command, its time or force ends a
\* hold, and no step passes a lock from one holder to another (lines 113-126).
OnlyTheHolderUnlocks ==
  [][/\ TypeOK'
     /\ stored # None /\ stored' # stored =>
          /\ stored' = None
          /\ \/ ttl = 1 \/ ForceRelease
             \/ \E c \in Clients : stored = Value(c) /\ Execute(c)]_lockVars
=============================================================================
