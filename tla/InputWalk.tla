------------------------------ MODULE InputWalk ------------------------------
(***************************************************************************)
(* The iterative walk that bounds a tool's arguments before they are       *)
(* validated or serialised.  A value is a graph of containers: embedding   *)
(* code may pass one container twice, or a cycle of them.                  *)
(***************************************************************************)
EXTENDS FiniteSets, Naturals, Sequences, SequencesExt

CONSTANTS
  Containers,  \* the arrays and objects a value may be made of
  Leaf,        \* any value that is neither
  Width,       \* bound: entries of one container
  Maximum      \* limits.maxInputElements

VARIABLES
  value,       \* the argument of withinInputElementLimit()
  entries,     \* the own entries of each container, in order
  reserved,    \* the containers with an own "__proto__" key
  pending,     \* containers still to be walked; the last is taken first
  current,     \* the container whose entries are being met, or Leaf
  met,         \* how many of them were
  count,       \* entries met so far
  verdict      \* "none", then what the walk returns

graph == <<value, entries, reserved>>
walkVars == <<graph, pending, current, met, count, verdict>>

Values == Containers \cup {Leaf}

Init ==
  /\ value \in Values
  /\ entries \in [Containers -> UNION {[1..n -> Values] : n \in 0..Width}]
  /\ reserved \in SUBSET Containers
  /\ pending = <<value>> /\ current = Leaf /\ met = 0 /\ count = 0 /\ verdict = "none"
-----------------------------------------------------------------------------
\* The last pending value is taken: one that is no container is passed over, and one
\* with a reserved key ends the walk.
Take ==
  /\ verdict = "none" /\ current = Leaf /\ pending # <<>>
  /\ current' = Last(pending) /\ pending' = Front(pending)
  /\ verdict' = IF current' \in reserved THEN "refused" ELSE "none"
  /\ UNCHANGED <<graph, met, count>>

\* Mutant: the limit itself is refused.
ReachesLimit(n) == n >= Maximum

TooMany(n) == n > Maximum

\* The next entry is counted, and kept for later if it is a container.
Meet ==
  /\ verdict = "none" /\ current # Leaf /\ met < Len(entries[current])
  /\ met' = met + 1 /\ count' = count + 1
  /\ LET child == entries[current][met + 1]
     IN  IF TooMany(count') THEN verdict' = "refused" /\ UNCHANGED pending
         ELSE /\ pending' = IF child = Leaf THEN pending ELSE Append(pending, child)
              /\ UNCHANGED verdict
  /\ UNCHANGED <<graph, current>>

\* All entries of a container were met.
Leave ==
  /\ verdict = "none" /\ current # Leaf /\ met = Len(entries[current])
  /\ current' = Leaf /\ met' = 0
  /\ UNCHANGED <<graph, pending, count, verdict>>

Finish ==
  /\ verdict = "none" /\ current = Leaf /\ pending = <<>>
  /\ verdict' = "within"
  /\ UNCHANGED <<graph, pending, current, met, count>>

Next == Take \/ Meet \/ Leave \/ Finish

Spec == Init /\ [][Next]_walkVars /\ WF_walkVars(Next)
-----------------------------------------------------------------------------
\* The reference.  An entry of the tree that the value unfolds to is the path to it:
\* containers and positions in them, each container being what the last position holds.
\* A tree with a path longer than Maximum has too many entries anyway.
Positions == Containers \X (1..Width)
Child(position) == entries[position[1]][position[2]]

IsPath(path) ==
  /\ path[1][1] = value
  /\ \A k \in DOMAIN path : path[k][2] \in DOMAIN entries[path[k][1]]
  /\ \A k \in 1..(Len(path) - 1) : path[k + 1][1] = Child(path[k])

Unfolded == {path \in UNION {[1..n -> Positions] : n \in 1..(Maximum + 1)} : IsPath(path)}

MeetsReserved ==
  value \in reserved \/ \E path \in Unfolded : Child(Last(path)) \in reserved

\* What the walk keeps is bounded by the limit, never by the value.
TypeOK ==
  /\ verdict \in {"none", "within", "refused"} /\ current \in Values /\ met \in Nat
  /\ pending \in Seq(Values) /\ Len(pending) <= count + 1
  /\ count \in 0..(Maximum + 1) /\ (count > Maximum => verdict = "refused")

\* Whatever is shared or cyclic, the walk accepts exactly the values that unfold to at
\* most Maximum entries without a reserved key (input.ts:15-37).
WalkDecides ==
  /\ TypeOK
  /\ verdict # "none" =>
       (verdict = "within" <=> Cardinality(Unfolded) <= Maximum /\ ~MeetsReserved)

\* The walk ends (input.ts:14).
WalkEnds == <>(verdict # "none")
=============================================================================
