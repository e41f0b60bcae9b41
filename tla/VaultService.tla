----------------------------- MODULE VaultService ----------------------------
(***************************************************************************)
(* The historical v1 server's use of Vault: every worker of the cluster    *)
(* initialises a client of its own with the same token, makes the transit  *)
(* engine when it is missing, looks for its key, and renews the token at   *)
(* two thirds of the life it found.  A request settles within a tick: its  *)
(* timeout is far below a third of the token's life.                       *)
(***************************************************************************)
EXTENDS Naturals

CONSTANTS
  Workers,
  Life,      \* ttl of the token after a renewal, in ticks
  Cap,       \* tick at which Vault's maximum ends the token
  None

VARIABLES
  now,       \* bounded by Cap
  mounted,   \* of Vault: the transit engine is enabled
  key,       \* of Vault: the encryption key exists
  expires,   \* of Vault: tick at which the token ends
  pc,        \* of each worker: where initializeVault() is
  every,     \* of each worker: the interval of its renewals, or None
  due,       \* tick of the next renewal
  refused,   \* workers one of whose initialising calls failed
  missed,    \* workers whose last renewal failed
  keyless    \* workers whose encryption found no key

vaultState == <<mounted, key, expires>>
vaultVars == <<now, vaultState, pc, every, due, refused, missed, keyless>>

Init ==
  /\ now = 0 /\ mounted \in BOOLEAN /\ key \in {FALSE, mounted} /\ expires = Life
  /\ pc = [w \in Workers |-> "off"] /\ every = [w \in Workers |-> None]
  /\ due = [w \in Workers |-> 0] /\ refused = {} /\ missed = {} /\ keyless = {}

Alive == now < expires
Goto(w, next) == pc' = [pc EXCEPT ![w] = next]
Initialised(w) == pc[w] \in {"info", "ready"}

\* A call that fails, or that Vault refuses because the token has ended.
Fails(w) == refused' = refused \cup {w}
Others == UNCHANGED <<now, every, due, missed, keyless>>
-----------------------------------------------------------------------------
\* health() needs no token; its failure ends the start.
Health(w) ==
  /\ pc[w] = "off" /\ UNCHANGED vaultState
  /\ \/ Goto(w, "mounts") /\ UNCHANGED refused
     \/ Goto(w, "failed") /\ Fails(w)
  /\ Others

\* initializeTransitEngine(): the mounts are read, and the engine enabled when it is
\* not there.  What fails is logged and the start goes on; that a mount fails because
\* another worker made it in between is no failure of the worker's own.
ReadMounts(w) ==
  /\ pc[w] = "mounts" /\ UNCHANGED vaultState
  /\ \/ Alive /\ Goto(w, IF mounted THEN "key" ELSE "mount") /\ UNCHANGED refused
     \/ Goto(w, "key") /\ Fails(w)
  /\ Others

Mount(w) ==
  /\ pc[w] = "mount" /\ Goto(w, "key") /\ UNCHANGED <<key, expires>>
  /\ \/ Alive /\ mounted' = TRUE /\ UNCHANGED refused
     \/ mounted' \in {mounted, Alive \/ mounted} /\ Fails(w)
  /\ Others

\* createEncryptionKey(): the key is read.  A missing one is a failure like any
\* other, logged and passed over: the status the code compares with 404 is not where
\* node-vault puts it (response.statusCode), and the creation is never reached.
ReadKey(w) ==
  /\ pc[w] = "key" /\ Goto(w, "info") /\ UNCHANGED vaultState
  /\ \/ Alive /\ key /\ UNCHANGED refused
     \/ Fails(w)
  /\ Others

Interval(life) == (2 * life) \div 3

\* setupTokenRenewal(): the token's life is read once; a failure is logged, and the
\* worker runs without renewing.  Lives below two ticks are too short for the model.
SetUpRenewal(w) ==
  /\ pc[w] = "info" /\ Goto(w, "ready")
  /\ \/ /\ Alive /\ expires - now > 1
        /\ every' = [every EXCEPT ![w] = Interval(expires - now)]
        /\ due' = [due EXCEPT ![w] = now + Interval(expires - now)]
     \/ UNCHANGED <<every, due>>
  /\ UNCHANGED <<now, vaultState, refused, missed, keyless>>

\* The interval's callback: renewToken() extends the token's life up to the cap; a
\* failure is logged, and the next try comes one interval later.
Renew(w) ==
  /\ pc[w] = "ready" /\ every[w] # None /\ due[w] = now
  /\ due' = [due EXCEPT ![w] = now + every[w]]
  /\ \/ /\ Alive /\ missed' = missed \ {w}
        /\ expires' = IF now + Life < Cap THEN now + Life ELSE Cap
     \/ missed' = missed \cup {w} /\ UNCHANGED expires
  /\ UNCHANGED <<now, mounted, key, pc, every, refused, keyless>>
-----------------------------------------------------------------------------
\* encrypt() and decrypt() in a worker that is initialised, and no key in Vault: it
\* refuses, or makes the key for the first text a token that may do so encrypts.
Transit(w) ==
  /\ Initialised(w) /\ Alive /\ ~key
  /\ \/ keyless' = keyless \cup {w} /\ UNCHANGED key
     \/ mounted /\ key' = TRUE /\ UNCHANGED keyless
  /\ UNCHANGED <<now, mounted, expires, pc, every, due, refused, missed>>

\* A worker ends, and the cluster starts another in its place.
Restart(w) ==
  /\ pc[w] # "off" /\ Goto(w, "off")
  /\ every' = [every EXCEPT ![w] = None] /\ due' = [due EXCEPT ![w] = 0]
  /\ refused' = refused \ {w} /\ missed' = missed \ {w}
  /\ keyless' = keyless \ {w}
  /\ UNCHANGED <<now, vaultState>>

\* Timers fire in their tick.
Tick ==
  /\ now < Cap /\ \A w \in Workers : every[w] # None => due[w] > now
  /\ now' = now + 1
  /\ UNCHANGED <<vaultState, pc, every, due, refused, missed, keyless>>

Next ==
  \/ \E w \in Workers :
       \/ Health(w) \/ ReadMounts(w) \/ Mount(w) \/ ReadKey(w) \/ SetUpRenewal(w)
       \/ Renew(w) \/ Transit(w) \/ Restart(w)
  \/ Tick

Spec == Init /\ [][Next]_vaultVars
-----------------------------------------------------------------------------
\* However the workers' starts interleave, and whatever they do not find in Vault, a
\* start fails only at Vault's health, and encryption finds no key only in a worker
\* whose own start was told so, or could not look: a mount that another worker made
\* in between is not taken for it.  Each worker's next renewal comes before the token
\* ends, unless its last one failed or Vault's maximum is reached (vault.ts:38-66,
\* 181-234, 461-513, 552-577).
VaultIsUsable ==
  /\ \A w \in Workers :
       /\ pc[w] = "failed" => w \in refused
       /\ w \in keyless => w \in refused
       /\ every[w] # None => due[w] < expires \/ w \in missed \/ expires = Cap
  /\ key => mounted
=============================================================================
