----------------------------- MODULE BulkInsert -----------------------------
(***************************************************************************)
(* bulkInsert() of the historical version: rows are written in batches,    *)
(* each batch in a transaction that is tried again after a passing fault,  *)
(* while the counts of the result are kept outside of it.  A row may fail  *)
(* in Prisma or in the database, which then rejects the rest of the        *)
(* transaction and rolls it back at its commit, and the reply to a commit  *)
(* may be lost.                                                            *)
(***************************************************************************)
EXTENDS Integers, FiniteSets, Sequences

CONSTANTS
  Data,        \* the rows, as a sequence of batches, which are sequences of row ids
  Strategies,  \* subset of {"ignore", "update", "error"}
  MaxRetries   \* attempts of a transaction

VARIABLES
  strategy,
  batch, item,     \* position: the batch and the row to be written next
  attempt,         \* attempts of the current batch's transaction
  written,         \* rows the open transaction has written
  aborted,         \* the database has given the transaction up
  table,           \* rows committed
  updated, errors, \* counts of the result.  "inserted" stays 0: two Date objects are
                   \* never identical
  result           \* "none", then "returned" or "thrown"

bulkVars == <<strategy, batch, item, attempt, written, aborted, table, updated, errors,
              result>>

Init ==
  /\ strategy \in Strategies
  /\ batch = 1 /\ item = 1 /\ attempt = 1
  /\ written = {} /\ aborted = FALSE /\ table = {}
  /\ updated = 0 /\ errors = 0 /\ result = "none"

Rows == Data[batch]
Writing == result = "none" /\ batch <= Len(Data) /\ item <= Len(Rows)
Committing == result = "none" /\ batch <= Len(Data) /\ item > Len(Rows)
-----------------------------------------------------------------------------
\* The upsert of a row succeeds, unless the transaction was given up.
Upsert ==
  /\ Writing /\ ~aborted
  /\ written' = written \cup {Rows[item]} /\ updated' = updated + 1
  /\ item' = item + 1
  /\ UNCHANGED <<strategy, batch, attempt, aborted, table, errors, result>>

\* The next transaction, of the same batch or another.
Begin(b, n) == batch' = b /\ item' = 1 /\ attempt' = n /\ written' = {} /\ aborted' = FALSE

\* Mutant: a batch whose transaction failed for good is logged and not counted.
TransactionFailsOfQuiet(passing, counted) ==
  /\ errors' = errors + counted
  /\ IF passing /\ attempt < MaxRetries
     THEN Begin(batch, attempt + 1) /\ UNCHANGED result
     ELSE /\ Begin(batch + 1, 1)
          /\ result' = IF strategy = "error" THEN "thrown" ELSE "none"

\* executeTransaction(): an attempt throws, with a fault that may pass or not.  After the
\* last one all rows of the batch are errors, those counted within it once more.
TransactionFails(passing, counted) ==
  IF passing /\ attempt < MaxRetries
  THEN Begin(batch, attempt + 1) /\ errors' = errors + counted /\ UNCHANGED result
  ELSE /\ Begin(batch + 1, 1)
       /\ errors' = errors + counted + Len(Rows)
       /\ result' = IF strategy = "error" THEN "thrown" ELSE "none"

\* A row is refused by Prisma, or by the database, which refuses the rest then.  It is
\* counted and left out, or ends the attempt.
RowFails(where, passing) ==
  /\ Writing /\ (aborted => where = "database")
  /\ IF strategy = "error" THEN TransactionFails(passing, 1)
     ELSE /\ item' = item + 1
          /\ errors' = errors + 1
          /\ aborted' = (aborted \/ where = "database")
          /\ UNCHANGED <<batch, attempt, written, result>>
  /\ UNCHANGED <<strategy, table, updated>>

\* The commit is done and reported; of a transaction given up it is a rollback that
\* reports no error.
Commit ==
  /\ Committing
  /\ table' = IF aborted THEN table ELSE table \cup written
  /\ Begin(batch + 1, 1)
  /\ UNCHANGED <<strategy, updated, errors, result>>

\* The attempt fails before its commit, or at it, done or not.
AttemptFails(done, passing) ==
  /\ Writing \/ Committing
  /\ done => Committing /\ ~aborted
  /\ table' = IF done THEN table \cup written ELSE table
  /\ TransactionFails(passing, 0)
  /\ UNCHANGED <<strategy, updated>>

Return ==
  /\ result = "none" /\ batch > Len(Data)
  /\ result' = "returned"
  /\ UNCHANGED <<strategy, batch, item, attempt, written, aborted, table, updated, errors>>

Next ==
  \/ Upsert \/ Commit \/ Return
  \/ \E passing \in BOOLEAN :
       \/ \E where \in {"prisma", "database"} : RowFails(where, passing)
       \/ \E done \in BOOLEAN : AttemptFails(done, passing)

Spec == Init /\ [][Next]_bulkVars
-----------------------------------------------------------------------------
All(b) == {Data[b][i] : i \in DOMAIN Data[b]}
AllRows == UNION {All(b) : b \in DOMAIN Data}

\* A result without errors means that every row is stored, whatever was retried; a
\* result counts every row, as updated or failed; and where the first error is to end
\* the insertion, a batch is stored whole or not at all (connection.ts:269-312, 352-435).
CountsAreHonest ==
  /\ result = "returned" /\ errors = 0 => AllRows \subseteq table
  /\ result = "returned" => Cardinality(AllRows) <= updated + errors
  /\ strategy = "error" => \A b \in DOMAIN Data : All(b) \cap table \in {{}, All(b)}
=============================================================================
