------------------------------ MODULE ReadTools ------------------------------
(***************************************************************************)
(* One call of a read tool: documents_read opens the parts of a path below *)
(* the workspace one by one, api_read fetches the one configured URL; both *)
(* then read until the end, or until one byte more than they may return.   *)
(* The call may be aborted, and the file change, between any two steps.    *)
(***************************************************************************)
EXTENDS Naturals

CONSTANTS
  MaxBytes,    \* workspace or API limit on the bytes returned
  MaxParts     \* bound: parts of a path

VARIABLES
  tool,        \* "documents_read" or "api_read"
  parts,       \* how many parts the path has
  pc,          \* "opening", "reading", "finally" or "settled"
  opened,      \* handles whose close has not been called; the response's body
  size,        \* bytes the file has now; what the server has left to send
  total,       \* bytes read
  ended,       \* the last read met the end
  aborted,     \* signal.aborted
  result       \* "none", "ok" or the error's code

readVars == <<tool, parts, pc, opened, size, total, ended, aborted, result>>

document == tool = "documents_read"
MaxSize == MaxBytes + 2

Init ==
  /\ tool \in {"documents_read", "api_read"} /\ parts \in 1..MaxParts
  /\ pc = "opening" /\ opened = 0 /\ size \in 0..MaxSize /\ total = 0
  /\ ended = FALSE /\ aborted \in BOOLEAN /\ result = "none"

\* The code an error leaves with: RuntimeFailures keep theirs, others become
\* "cancelled" or the tool's own.
CodeOf(error) ==
  IF error # "other" THEN error
  ELSE IF aborted THEN "cancelled"
  ELSE IF document THEN "not_found" ELSE "upstream_failed"

Settle(next, code) == pc' = next /\ result' = code

\* The read loop is left, by an exception or with the text.
Leave(error) ==
  /\ Settle("finally", CodeOf(error))
  /\ UNCHANGED <<tool, parts, opened, size, total, ended, aborted>>
-----------------------------------------------------------------------------
\* An absolute path, a hidden part: refused before anything is opened.
RefusePath ==
  /\ pc = "opening" /\ document /\ opened = 0
  /\ Settle("settled", "denied")
  /\ UNCHANGED <<tool, parts, opened, size, total, ended, aborted>>

\* open() below the handle before it, unless the call was aborted meanwhile.
OpenPart ==
  /\ pc = "opening" /\ document /\ opened < parts
  /\ \/ ~aborted /\ opened' = opened + 1
        /\ UNCHANGED <<tool, parts, pc, size, total, ended, aborted, result>>
     \/ Leave("other")

\* stat() of the last handle: it fails, is no file, or is a file that may be read.
Stat ==
  /\ pc = "opening" /\ document /\ opened = parts
  /\ \/ \E error \in {"other", "denied"} : Leave(error)
     \/ size > MaxBytes /\ Leave("output_too_large")
     \/ /\ size <= MaxBytes /\ pc' = "reading"
        /\ UNCHANGED <<tool, parts, opened, size, total, ended, aborted, result>>

\* fetch(): no response (also: aborted), a refused one whose body is cancelled,
\* or a body to be read.
Fetch ==
  /\ pc = "opening" /\ ~document
  /\ \/ /\ \E error \in {"other", "upstream_failed"} : Settle("settled", CodeOf(error))
        /\ UNCHANGED opened
     \/ ~aborted /\ opened' = 1 /\ pc' = "reading" /\ UNCHANGED result
  /\ UNCHANGED <<tool, parts, size, total, ended, aborted>>

\* The buffer is one byte longer than what may be returned.
Capacity == MaxBytes + 1

\* What the loop still asks for: the document's is capped by its buffer.
reading == pc = "reading" /\ ~ended /\ (IF document THEN total < Capacity ELSE total <= MaxBytes)
Available == IF total < size THEN size - total ELSE 0

\* One read: bytes, or none at the end.  Without the abort the loop goes on.
Read ==
  /\ reading /\ ~aborted
  /\ IF Available = 0
     THEN ended' = TRUE /\ UNCHANGED total
     ELSE /\ \E n \in 1..Available :
               /\ document => total + n <= Capacity
               /\ total' = total + n
          /\ UNCHANGED ended
  /\ UNCHANGED <<tool, parts, pc, opened, size, aborted, result>>

\* throwIfAborted() before a read, or a read that fails.
ReadFails == reading /\ Leave("other")

\* After the loop: too much, or the bytes decoded strictly.
Finish ==
  /\ pc = "reading" /\ ~reading
  /\ IF total > MaxBytes
     THEN Leave("output_too_large")
     ELSE \E outcome \in {"ok", "other"} : Leave(outcome)

\* Mutant: only the handle that was read is closed.
ReleasedOfLast == IF opened > 0 THEN 1 ELSE 0

\* Every handle's close() is called before any is awaited.
Released == opened

\* Promise.all of the closes, or reader.cancel(): a rejection takes the place of
\* the result, raw for a document.
Finally ==
  /\ pc = "finally"
  /\ opened' = opened - Released
  /\ \E code \in {result, IF document THEN "close_error" ELSE CodeOf("other")} :
       Settle("settled", code)
  /\ UNCHANGED <<tool, parts, size, total, ended, aborted>>

\* The deadline or the caller aborts; a file is written to or truncated.
Abort ==
  /\ pc # "settled" /\ ~aborted /\ aborted' = TRUE
  /\ UNCHANGED <<tool, parts, pc, opened, size, total, ended, result>>

Change ==
  /\ pc \in {"opening", "reading"}
  /\ size' \in (0..MaxSize) \ {size}
  /\ UNCHANGED <<tool, parts, pc, opened, total, ended, aborted, result>>

Next ==
  \/ RefusePath \/ OpenPart \/ Stat \/ Fetch \/ Read \/ ReadFails \/ Finish \/ Finally
  \/ Abort \/ Change

Spec == Init /\ [][Next]_readVars
-----------------------------------------------------------------------------
TypeOK ==
  /\ parts \in 1..MaxParts /\ opened \in 0..MaxParts
  /\ size \in 0..MaxSize /\ total \in 0..MaxSize
  /\ pc \in {"opening", "reading", "finally", "settled"}

\* A text is returned only if it is the whole of what was read to its end, however
\* the file grew meanwhile: never a prefix, never beyond the limit (tools.ts:85-93).
WholeOrRefused == TypeOK /\ (result = "ok" => ended /\ total <= MaxBytes)

\* Wherever opening, reading or the abort stopped the call, it settles with
\* nothing left open (tools.ts:70, 103, 146).
NothingLeftOpen == pc = "settled" => opened = 0
=============================================================================
