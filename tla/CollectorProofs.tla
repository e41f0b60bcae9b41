-------------------------- MODULE CollectorProofs ---------------------------
(***************************************************************************)
(* Theorems about the audit stream, the socket sink and its collector at   *)
(* the two ends, for any number of records, any limits of either end and   *)
(* any records of other clients, through every crash, restart and power    *)
(* loss.                                                                   *)
(***************************************************************************)
EXTENDS AuditCollector, FiniteSetTheorems, FunctionTheorems, SequenceTheorems, TLAPS

LEMMA Limits ==
  /\ MaxRecords \in Nat /\ MaxJournal \in Nat
  /\ Limit \in Nat /\ QueueLimit \in Nat /\ BatchSize \in Nat /\ AckLimit \in Nat
  /\ Limit > 0 /\ QueueLimit > 0 /\ BatchSize > 0 /\ AckLimit > 0
  BY LimitsAssumption

LEMMA Recorded ==
  /\ Records \subseteq Nat \ {0} /\ Foreign \subseteq Nat \ {0}
  /\ Records \cap Foreign = {}
  /\ \A r \in Records : \A q \in 1..(r - 1) : q \in Records
  BY LimitsAssumption DEF Records

LEMMA RecordsAreNumbers ==
  \A r \in Records : r \in Nat
  BY Recorded

In(x, s) == \E k \in 1..Len(s) : s[k] = x

\* What the collector has read and not yet written to the journal.
Unwritten == IF step = "writing" THEN batch ELSE <<>>

\* Everything on its way into the journal, in the order in which it will stand there.
Taken == journal \o Unwritten \o queue
Course == Taken \o wire

\* A sequence that holds the sink's records in the order of the calls and without a
\* hole, a being what the sink has answered.
Sound(s, a) ==
  \A i \in 1..Len(s) : s[i] \in Records =>
    /\ a[s[i]] \in {"open", "acked", "lost"}
    /\ \A j \in 1..(i - 1) : s[j] \in Records => s[j] < s[i]
    /\ \A r \in 1..(s[i] - 1) : a[r] = "refused" \/ \E j \in 1..(i - 1) : s[j] = r

\* The sink: what is pending is what is open, in order; a failure leaves nothing.
SinkInv ==
  /\ \A r, s \in Records : s < r /\ answer[r] # "none" => answer[s] # "none"
  /\ \A r \in Records : answer[r] = "open" <=> In(r, pending)
  /\ \A i, j \in 1..Len(pending) : i < j => pending[i] < pending[j]
  /\ \A r, s \in Records : answer[r] = "acked" /\ answer[s] = "open" => r < s
  /\ ~failed => \A r \in Records : answer[r] # "lost"
  /\ link \in {"none", "dead"} => pending = <<>>
  /\ failed \/ closed => link \in {"none", "dead"}
  /\ link = "dead" => failed \/ closed
  /\ link \in {"none", "connecting"} => sent = 0 /\ ~writable

\* The collector: a partial record ends the journal and the writing.
JournalInv ==
  /\ step = "idle" => queue = <<>>
  /\ step = "gather" => queue # <<>>
  /\ running = "down" \/ ~healthy => step = "idle"
  /\ \A k \in 1..Len(journal) :
       journal[k] = Journal!Torn => k = Len(journal) /\ (running = "down" \/ ~healthy)
  /\ \A k \in 1..Len(queue) : queue[k] \in Records \cup Foreign
  /\ \A k \in 1..Len(batch) : batch[k] \in Records \cup Foreign
  /\ \A i, j \in 1..Len(batch) :
       i < j /\ batch[i] \in Records /\ batch[j] \in Records => batch[i] < batch[j]
  /\ step = "syncing" => \A k \in 1..Len(batch) : In(batch[k], journal)

\* The stream: the bytes on their way back are owed for the oldest pending records,
\* which are durable, and the other records sent are on their way, all of them while
\* the connection stands.
StreamInv ==
  /\ acks <= sent
  /\ \A k \in 1..acks : pending[k] \in Journal!Durable
  /\ \A r \in Records : answer[r] = "acked" => r \in Journal!Durable
  /\ ~failed =>
       /\ link # "open" => wire = <<>>
       /\ \A r \in Records : In(r, batch) \/ In(r, queue) \/ In(r, wire) =>
            \E k \in (acks + 1)..sent : pending[k] = r
       /\ \A r \in Records : In(r, journal) =>
            answer[r] = "acked" \/ \E k \in 1..sent : pending[k] = r
  /\ link = "open" =>
       \A k \in (acks + 1)..sent :
         In(pending[k], batch) \/ In(pending[k], queue) \/ In(pending[k], wire)

IInv == TypeOK /\ SinkInv /\ JournalInv /\ Sound(Course, answer) /\ StreamInv
-----------------------------------------------------------------------------
(***************************************************************************)
(* Sequences that hold the records in order                                *)
(***************************************************************************)

\* A sequence that begins as a sound one does, and goes on with none of the sink's
\* records, is sound, also when the sink has answered more.
LEMMA SoundBeginning ==
  ASSUME NEW s \in Seq(Nat), NEW t \in Seq(Nat), NEW a, NEW b, Sound(t, a),
         NEW n \in Nat, n <= Len(s), n <= Len(t),
         \A i \in 1..n : s[i] = t[i],
         \A i \in (n + 1)..Len(s) : s[i] \notin Records,
         \A r \in Records : /\ a[r] = "refused" => b[r] = "refused"
                            /\ a[r] \in {"open", "acked", "lost"} => b[r] \in {"open", "acked", "lost"}
  PROVE  Sound(s, b)
<1> SUFFICES ASSUME NEW i \in 1..Len(s), s[i] \in Records
             PROVE  /\ b[s[i]] \in {"open", "acked", "lost"}
                    /\ \A j \in 1..(i - 1) : s[j] \in Records => s[j] < s[i]
                    /\ \A r \in 1..(s[i] - 1) : b[r] = "refused" \/ \E j \in 1..(i - 1) : s[j] = r
  BY DEF Sound
<1>1. i \in 1..n
  OBVIOUS
<1>2. i \in 1..Len(t) /\ s[i] = t[i] /\ \A j \in 1..(i - 1) : s[j] = t[j]
  BY <1>1
<1>3. \A r \in 1..(s[i] - 1) : r \in Records
  BY Recorded
<1>4. /\ a[t[i]] \in {"open", "acked", "lost"}
      /\ \A j \in 1..(i - 1) : t[j] \in Records => t[j] < t[i]
      /\ \A r \in 1..(t[i] - 1) : a[r] = "refused" \/ \E j \in 1..(i - 1) : t[j] = r
  BY <1>2 DEF Sound
<1> QED
  BY <1>2, <1>3, <1>4

\* A record of another client may come anywhere.
LEMMA SoundInsertion ==
  ASSUME NEW s \in Seq(Nat), NEW t \in Seq(Nat), NEW a, Sound(t, a),
         NEW n \in 1..Len(s), Len(s) = Len(t) + 1, s[n] \notin Records,
         \A i \in 1..(n - 1) : s[i] = t[i],
         \A i \in n..Len(t) : s[i + 1] = t[i]
  PROVE  Sound(s, a)
<1> DEFINE at(i) == IF i < n THEN i ELSE i - 1
<1>1. \A i \in 1..Len(s) : i # n => at(i) \in 1..Len(t) /\ t[at(i)] = s[i]
  <2> TAKE i \in 1..Len(s)
  <2> HAVE i # n
  <2>1. CASE i < n
    BY <2>1
  <2>2. CASE i > n
    <3>1. i - 1 \in n..Len(t) /\ (i - 1) + 1 = i
      BY <2>2
    <3> QED
      BY <2>2, <3>1
  <2> QED
    BY <2>1, <2>2
<1>2. \A i \in 1..Len(t) : \E j \in 1..Len(s) : j # n /\ at(j) = i /\ s[j] = t[i]
  <2> TAKE i \in 1..Len(t)
  <2>1. CASE i < n
    BY <2>1
  <2>2. CASE i >= n
    <3>1. i + 1 \in 1..Len(s) /\ i + 1 # n /\ at(i + 1) = i /\ s[i + 1] = t[i]
      BY <2>2
    <3> HIDE DEF at
    <3> QED
      BY <3>1
  <2> QED
    BY <2>1, <2>2
<1> SUFFICES ASSUME NEW i \in 1..Len(s), s[i] \in Records
             PROVE  /\ a[s[i]] \in {"open", "acked", "lost"}
                    /\ \A j \in 1..(i - 1) : s[j] \in Records => s[j] < s[i]
                    /\ \A r \in 1..(s[i] - 1) : a[r] = "refused" \/ \E j \in 1..(i - 1) : s[j] = r
  BY DEF Sound
<1>3. i # n /\ at(i) \in 1..Len(t) /\ t[at(i)] = s[i]
  BY <1>1
<1>4. /\ a[s[i]] \in {"open", "acked", "lost"}
      /\ \A j \in 1..(at(i) - 1) : t[j] \in Records => t[j] < s[i]
      /\ \A r \in 1..(s[i] - 1) : a[r] = "refused" \/ \E j \in 1..(at(i) - 1) : t[j] = r
  BY <1>3 DEF Sound
<1>5. \A j \in 1..(i - 1) : s[j] \in Records => s[j] < s[i]
  <2> TAKE j \in 1..(i - 1)
  <2> HAVE s[j] \in Records
  <2>1. j # n /\ j \in 1..Len(s) /\ j < i
    OBVIOUS
  <2>2. at(j) \in 1..(at(i) - 1) /\ t[at(j)] = s[j]
    <3>1. at(j) < at(i)
      <4>1. i \in Nat /\ j \in Nat /\ n \in Nat /\ i # n
        BY <1>3
      <4> QED
        BY <2>1, <4>1
    <3>2. at(j) \in 1..Len(t) /\ t[at(j)] = s[j]
      BY <1>1, <2>1
    <3> HIDE DEF at
    <3> QED
      BY <1>3, <3>1, <3>2
  <2> QED
    BY <1>4, <2>2
<1>6. ASSUME NEW r \in 1..(s[i] - 1), a[r] # "refused" PROVE \E j \in 1..(i - 1) : s[j] = r
  <2>1. PICK k \in 1..(at(i) - 1) : t[k] = r
    BY <1>4, <1>6
  <2>2. PICK j \in 1..Len(s) : j # n /\ at(j) = k /\ s[j] = t[k]
    <3>1. k \in 1..Len(t)
      BY <1>3
    <3> QED
      BY <1>2, <3>1
  <2>3. j < i
    BY <1>3, <2>1, <2>2
  <2> QED
    BY <2>1, <2>2, <2>3
<1> QED
  BY <1>4, <1>5, <1>6

\* What taking a sequence's beginning off leaves, and what adding to its end does.
LEMMA TakenOff ==
  ASSUME NEW S, NEW s \in Seq(S), NEW n \in 0..Len(s)
  PROVE  /\ SubSeq(s, 1, n) \in Seq(S) /\ Len(SubSeq(s, 1, n)) = n
         /\ \A k \in 1..n : SubSeq(s, 1, n)[k] = s[k]
         /\ SubSeq(s, n + 1, Len(s)) \in Seq(S) /\ Len(SubSeq(s, n + 1, Len(s))) = Len(s) - n
         /\ \A k \in 1..(Len(s) - n) : SubSeq(s, n + 1, Len(s))[k] = s[n + k]
<1>1. SubSeq(s, n + 1, Len(s)) \in Seq(S) /\ Len(SubSeq(s, n + 1, Len(s))) = Len(s) - n
  OBVIOUS
<1>2. \A k \in 1..(Len(s) - n) : SubSeq(s, n + 1, Len(s))[k] = s[n + k]
  OBVIOUS
<1> QED
  BY <1>1, <1>2

LEMMA Shifted ==
  ASSUME NEW m \in Nat, NEW n \in Nat, NEW k \in (m + 1)..n
  PROVE  k - m \in 1..(n - m) /\ m + (k - m) = k
  OBVIOUS

LEMMA Ranges ==
  ASSUME NEW l \in Nat, NEW m \in Nat, NEW n \in Nat, l <= m, m <= n
  PROVE  /\ \A k \in (l + 1)..m : k \in (l + 1)..n
         /\ \A k \in (m + 1)..n : k \in (l + 1)..n
         /\ \A k \in 1..m : k \in 1..n
         /\ \A k \in (l + 1)..n : k \in (l + 1)..m \/ k \in (m + 1)..n
  OBVIOUS

LEMMA Split ==
  ASSUME NEW l \in Nat, NEW m \in Nat, l <= m
  PROVE  /\ \A k \in 1..m : k \in 1..l \/ k \in (l + 1)..m
         /\ \A k \in (l + 1)..m : k \in 1..m
  OBVIOUS

LEMMA Slice ==
  ASSUME NEW S, NEW s \in Seq(S), NEW m \in Nat, NEW n \in m..Len(s)
  PROVE  /\ SubSeq(s, m + 1, n) \in Seq(S) /\ Len(SubSeq(s, m + 1, n)) = n - m
         /\ \A k \in 1..(n - m) : SubSeq(s, m + 1, n)[k] = s[m + k]
<1>1. Len(SubSeq(s, m + 1, n)) = n - m
  OBVIOUS
<1>2. \A k \in 1..(n - m) : SubSeq(s, m + 1, n)[k] = s[m + k]
  OBVIOUS
<1>3. SubSeq(s, m + 1, n) \in Seq(S)
  OBVIOUS
<1> QED
  BY <1>1, <1>2, <1>3

LEMMA Joined ==
  ASSUME NEW S, NEW s \in Seq(S), NEW t \in Seq(S)
  PROVE  /\ s \o t \in Seq(S) /\ Len(s \o t) = Len(s) + Len(t)
         /\ \A k \in 1..Len(s) : (s \o t)[k] = s[k]
         /\ \A k \in 1..Len(t) : (s \o t)[Len(s) + k] = t[k]
  OBVIOUS

LEMMA Added ==
  ASSUME NEW S, NEW s \in Seq(S), NEW x \in S
  PROVE  /\ Append(s, x) \in Seq(S) /\ Append(s, x) # <<>>
         /\ Len(Append(s, x)) = Len(s) + 1 /\ Append(s, x)[Len(s) + 1] = x
         /\ \A k \in 1..Len(s) : Append(s, x)[k] = s[k]
         /\ \A k \in 1..(Len(s) + 1) : k \in 1..Len(s) \/ k = Len(s) + 1
  OBVIOUS
-----------------------------------------------------------------------------
(***************************************************************************)
(* Types                                                                   *)
(***************************************************************************)
LEMMA SameRecords == Sink!Records = Records /\ Durable!Records = Records
  BY DEF Sink!Records, Durable!Records, Records

LEMMA SinkTyped ==
  TypeOK => /\ answer \in [Records -> {"none", "open", "acked", "lost", "refused"}]
            /\ pending \in Seq(Records) /\ sent \in Nat /\ sent <= Len(pending)
            /\ failed \in BOOLEAN /\ closed \in BOOLEAN /\ writable \in BOOLEAN
            /\ link \in {"none", "connecting", "open", "cut", "dead"}
            /\ wire \in Seq(Records) /\ acks \in Nat
            /\ Len(pending) \in Nat /\ Len(wire) \in Nat
  BY SameRecords DEF TypeOK, Sink!TypeOK

LEMMA JournalTyped ==
  TypeOK => /\ running \in {"down", "up", "stopping"} /\ healthy \in BOOLEAN
            /\ queue \in Seq(Nat) /\ batch \in Seq(Nat) /\ journal \in Seq(Nat)
            /\ step \in {"idle", "gather", "writing", "syncing"}
            /\ step \in {"writing", "syncing"} <=> batch # <<>>
            /\ synced \in Nat /\ synced <= Len(journal)
            /\ Len(queue) \in Nat /\ Len(batch) \in Nat /\ Len(journal) \in Nat
  BY DEF TypeOK, Journal!TypeOK

\* What flush() does: it writes the records from "done" on, some or all, and stops
\* for a pause.
LEMMA FlushEffect ==
  ASSUME wire \in Seq(Records), NEW q \in Seq(Records), NEW done \in 0..Len(q),
         NEW ready \in BOOLEAN, Sink!Flush(q, done, ready)
  PROVE  /\ pending' = q /\ sent' \in done..Len(q) /\ writable' \in BOOLEAN
         /\ ~ready => sent' = done /\ ~writable'
         /\ wire' = IF link' = "open" THEN wire \o SubSeq(q, done + 1, sent') ELSE wire
         /\ wire' \in Seq(Records)
<1>1. /\ pending' = q /\ sent' \in done..Len(q) /\ writable' \in BOOLEAN
      /\ ~ready => sent' = done /\ ~writable'
      /\ wire' = IF link' = "open" THEN wire \o SubSeq(q, done + 1, sent') ELSE wire
  BY DEF Sink!Flush
<1>2. wire \o SubSeq(q, done + 1, sent') \in Seq(Records)
  BY <1>1
<1> QED
  BY <1>1, <1>2

LEMMA TruncatedType ==
  ASSUME NEW S, NEW s \in Seq(S), NEW t \in Sink!Truncated(s)
  PROVE  /\ t \in Seq(S) /\ Len(t) <= Len(s)
         /\ \A i \in 1..Len(t) : t[i] = s[i]
  BY DEF Sink!Truncated

LEMMA GiveUpEffect ==
  ASSUME TypeOK, Sink!GiveUp
  PROVE  /\ answer' = [r \in Records |-> IF answer[r] = "open" THEN "lost" ELSE answer[r]]
         /\ pending' = <<>> /\ sent' = 0 /\ acks' = 0 /\ failed'
         /\ wire' \in Seq(Records) /\ Len(wire') <= Len(wire)
         /\ \A i \in 1..Len(wire') : wire'[i] = wire[i]
<1>1. /\ answer' = [r \in Records |-> IF answer[r] = "open" THEN "lost" ELSE answer[r]]
      /\ pending' = <<>> /\ sent' = 0 /\ acks' = 0 /\ failed'
  BY SameRecords DEF Sink!GiveUp
<1>2. wire' \in Sink!Truncated(wire)
  BY DEF Sink!GiveUp
<1> QED
  BY <1>1, <1>2, SinkTyped, TruncatedType

\* The records of the answers and of the stream have their types when a step of the
\* sink gives up, and when it writes.
LEMMA GiveUpTypes ==
  ASSUME TypeOK, Sink!GiveUp, link' \in {"none", "dead"}, closed' \in BOOLEAN, writable' \in BOOLEAN
  PROVE  Sink!TypeOK'
<1>1. answer' \in [Sink!Records -> {"none", "open", "acked", "lost", "refused"}]
  BY SinkTyped, GiveUpEffect, SameRecords
<1>2. pending' = <<>> /\ sent' = 0 /\ acks' = 0 /\ failed' = TRUE /\ wire' \in Seq(Sink!Records)
  BY GiveUpEffect, SameRecords DEF Sink!GiveUp
<1>3. pending' \in Seq(Sink!Records) /\ sent' \in 0..Len(pending')
  BY <1>2
<1> QED
  BY <1>1, <1>2, <1>3 DEF Sink!TypeOK

LEMMA FlushTypes ==
  ASSUME TypeOK, NEW q \in Seq(Records), NEW done \in 0..Len(q), NEW ready \in BOOLEAN,
         Sink!Flush(q, done, ready),
         answer' \in [Records -> {"none", "open", "acked", "lost", "refused"}],
         UNCHANGED <<failed, closed>>, acks' \in Nat,
         link' \in {"none", "connecting", "open", "cut", "dead"}
  PROVE  Sink!TypeOK'
<1>1. pending' = q /\ sent' \in done..Len(q) /\ writable' \in BOOLEAN /\ wire' \in Seq(Records)
  BY FlushEffect, SinkTyped
<1>2. sent' \in 0..Len(pending')
  BY <1>1
<1>3. failed' \in BOOLEAN /\ closed' \in BOOLEAN
  BY SinkTyped
<1> QED
  BY <1>1, <1>2, <1>3, SameRecords DEF Sink!TypeOK

LEMMA SinkTypes ==
  ASSUME TypeOK, SinkStep, UNCHANGED journalVars
  PROVE  TypeOK'
<1>1. Journal!TypeOK'
  BY DEF journalVars, TypeOK, Journal!TypeOK
<1> SUFFICES Sink!TypeOK'
  BY <1>1 DEF TypeOK
<1>2. ASSUME Sink!Fail PROVE Sink!TypeOK'
  BY <1>2, GiveUpTypes, SinkTyped DEF Sink!Fail, Sink!Destroy
<1>3. ASSUME NEW r \in Records, Sink!Send(r) PROVE Sink!TypeOK'
  <2>1. Append(pending, r) \in Seq(Records) /\ sent \in 0..Len(Append(pending, r)) /\ writable \in BOOLEAN
    BY SinkTyped
  <2>2. Sink!Flush(Append(pending, r), sent, writable)
    BY <1>3 DEF Sink!Send
  <2>3. /\ answer' \in [Records -> {"none", "open", "acked", "lost", "refused"}]
        /\ UNCHANGED <<failed, closed>> /\ acks' \in Nat
        /\ link' \in {"none", "connecting", "open", "cut", "dead"}
    BY <1>3, SinkTyped DEF Sink!Send
  <2> QED
    BY <2>1, <2>2, <2>3, FlushTypes
<1>4. ASSUME NEW r \in Records, Sink!Refuse(r) PROVE Sink!TypeOK'
  BY <1>4, SameRecords DEF Sink!Refuse, Sink!streamVars, TypeOK, Sink!TypeOK
<1>5. ASSUME NEW n \in 1..acks, Sink!Data(n), n <= sent PROVE Sink!TypeOK'
  <2> DEFINE rest == SubSeq(pending, n + 1, Len(pending))
  <2>1. rest \in Seq(Records) /\ sent - n \in 0..Len(rest) /\ writable \in BOOLEAN
    BY <1>5, SinkTyped
  <2>2. Sink!Flush(rest, sent - n, writable)
    BY <1>5, SinkTyped DEF Sink!Data
  <2>3. answer' = [r \in Records |-> IF r \in Sink!Acked(n) THEN "acked" ELSE answer[r]]
        /\ UNCHANGED <<failed, closed>> /\ acks' = acks - n /\ link' = link
    BY <1>5, SinkTyped, SameRecords DEF Sink!Data
  <2>4. /\ answer' \in [Records -> {"none", "open", "acked", "lost", "refused"}]
        /\ acks' \in Nat
    BY <1>5, <2>3, SinkTyped
  <2> QED
    BY <2>1, <2>2, <2>3, <2>4, FlushTypes, SinkTyped
<1>6. CASE Sink!Connected \/ Sink!Drain
  <2>1. Sink!Flush(pending, sent, TRUE)
    BY <1>6 DEF Sink!Connected, Sink!Drain
  <2>2. pending \in Seq(Records) /\ sent \in 0..Len(pending)
    BY SinkTyped
  <2>3. UNCHANGED <<answer, failed, closed, acks>> /\ link' \in {"open", "cut"}
    BY <1>6 DEF Sink!Connected, Sink!Drain
  <2> QED
    BY <2>1, <2>2, <2>3, FlushTypes, SinkTyped
<1>7. CASE Sink!Disconnected \/ Sink!Destroyed \/ Sink!Close
  <2>1. link' \in {"none", "dead"} /\ closed' \in BOOLEAN /\ writable' \in BOOLEAN
    BY <1>7, SinkTyped DEF Sink!Disconnected, Sink!Destroyed, Sink!Close, Sink!Destroy
  <2>2. CASE Sink!GiveUp
    BY <2>1, <2>2, GiveUpTypes
  <2>3. CASE ~Sink!GiveUp
    <3>1. UNCHANGED <<answer, pending, sent, failed, wire>> /\ acks' \in {0, acks}
      BY <1>7, <2>3 DEF Sink!Disconnected, Sink!Destroyed, Sink!Close
    <3> QED
      BY <2>1, <3>1 DEF TypeOK, Sink!TypeOK
  <2> QED
    BY <2>2, <2>3
<1>8. ASSUME NEW n \in 1..acks, Sink!Data(n), n > sent PROVE Sink!Fail
  BY <1>8 DEF Sink!Data
<1>9. ASSUME NEW n \in 1..acks, Sink!Data(n) PROVE Sink!TypeOK'
  BY <1>2, <1>5, <1>8, <1>9, SinkTyped
<1> QED
  BY <1>2, <1>3, <1>4, <1>6, <1>7, <1>9 DEF SinkStep, Sink!Expire, Sink!Refused

LEMMA OwedType ==
  ASSUME TypeOK
  PROVE  /\ IsFiniteSet({k \in 1..Len(batch) : batch[k] \notin Foreign})
         /\ Journal!Owed = Cardinality({k \in 1..Len(batch) : batch[k] \notin Foreign})
         /\ Journal!Owed \in Nat
<1> DEFINE own == {k \in 1..Len(batch) : batch[k] \notin Foreign}
<1>1. IsFiniteSet(own)
  <2>1. Len(batch) \in Nat
    BY JournalTyped
  <2>2. IsFiniteSet(1..Len(batch))
    BY <2>1, FS_Interval
  <2> QED
    BY <2>2, FS_Subset
<1>2. Journal!Owed = Cardinality(own)
  BY DEF Journal!Owed, Journal!Cardinality, Cardinality
<1> QED
  BY <1>1, <1>2, FS_CardinalityType

LEMMA CutEffect ==
  ASSUME TypeOK, Journal!Cut
  PROVE  /\ wire' = <<>> /\ acks' = acks
         /\ link' = IF link = "open" THEN "cut" ELSE link
         /\ wire' \in Seq(Records) /\ acks' \in Nat
         /\ link' \in {"none", "connecting", "open", "cut", "dead"}
  BY SinkTyped DEF Journal!Cut

\* What an interrupted write leaves: a beginning of the batch, and perhaps one more
\* record in part.
LEMMA PartialEffect ==
  ASSUME NEW s \in Journal!Partial, batch \in Seq(Nat)
  PROVE  /\ s \in Seq(Nat)
         /\ \E n \in 0..Len(batch) :
              /\ n <= Len(s) /\ \A i \in 1..n : s[i] = batch[i]
              /\ \A i \in (n + 1)..Len(s) : i = Len(s) /\ s[i] = Journal!Torn
<1>1. CASE \E k \in 0..Len(batch) : s = SubSeq(batch, 1, k)
  <2>1. PICK k \in 0..Len(batch) : s = SubSeq(batch, 1, k)
    BY <1>1
  <2>2. s \in Seq(Nat) /\ Len(s) = k /\ \A i \in 1..k : s[i] = batch[i]
    BY <2>1
  <2> QED
    BY <2>2
<1>2. CASE \E k \in 0..(Len(batch) - 1) : s = SubSeq(batch, 1, k) \o <<Journal!Torn>>
  <2>1. PICK k \in 0..(Len(batch) - 1) : s = SubSeq(batch, 1, k) \o <<Journal!Torn>>
    BY <1>2
  <2>2. Journal!Torn \in Nat
    BY DEF Journal!Torn
  <2>3. /\ s \in Seq(Nat) /\ Len(s) = k + 1 /\ s[k + 1] = Journal!Torn
        /\ \A i \in 1..k : s[i] = batch[i]
    BY <2>1, <2>2
  <2>4. k \in 0..Len(batch) /\ \A i \in (k + 1)..Len(s) : i = k + 1
    BY <2>3
  <2> QED
    BY <2>3, <2>4
<1> QED
  BY <1>1, <1>2 DEF Journal!Partial

\* What a power loss leaves of a file, which holds at least what was synced.
LEMMA SurvivorsEffect ==
  ASSUME NEW file \in Seq(Nat), synced \in Nat, synced <= Len(file), NEW s \in Journal!Survivors(file)
  PROVE  /\ s \in Seq(Nat)
         /\ \E n \in synced..Len(file) :
              /\ n <= Len(s) /\ \A i \in 1..n : s[i] = file[i]
              /\ \A i \in (n + 1)..Len(s) : i = Len(s) /\ s[i] = Journal!Torn /\ n < Len(file)
<1>1. CASE \E k \in synced..Len(file) : s = SubSeq(file, 1, k)
  <2>1. PICK k \in synced..Len(file) : s = SubSeq(file, 1, k)
    BY <1>1
  <2>2. s \in Seq(Nat) /\ Len(s) = k /\ \A i \in 1..k : s[i] = file[i]
    BY <2>1
  <2> QED
    BY <2>2
<1>2. CASE \E k \in synced..(Len(file) - 1) : s = SubSeq(file, 1, k) \o <<Journal!Torn>>
  <2>1. PICK k \in synced..(Len(file) - 1) : s = SubSeq(file, 1, k) \o <<Journal!Torn>>
    BY <1>2
  <2>2. Journal!Torn \in Nat
    BY DEF Journal!Torn
  <2>3. /\ s \in Seq(Nat) /\ Len(s) = k + 1 /\ s[k + 1] = Journal!Torn
        /\ \A i \in 1..k : s[i] = file[i]
    BY <2>1, <2>2
  <2>4. k \in synced..Len(file) /\ k < Len(file) /\ \A i \in (k + 1)..Len(s) : i = k + 1
    BY <2>3
  <2> QED
    BY <2>3, <2>4
<1> QED
  BY <1>1, <1>2 DEF Journal!Survivors
\* The places of the course's four parts.
LEMMA CoursePlaces ==
  ASSUME TypeOK
  PROVE  /\ Unwritten \in Seq(Nat) /\ Course \in Seq(Nat) /\ wire \in Seq(Nat)
         /\ Len(Unwritten) \in Nat /\ Len(Course) \in Nat
         /\ Len(Course) = Len(journal) + Len(Unwritten) + Len(queue) + Len(wire)
         /\ \A k \in 1..Len(journal) : Course[k] = journal[k]
         /\ \A k \in 1..Len(Unwritten) : Course[Len(journal) + k] = Unwritten[k]
         /\ \A k \in 1..Len(queue) : Course[Len(journal) + Len(Unwritten) + k] = queue[k]
         /\ \A k \in 1..Len(wire) : Course[Len(journal) + Len(Unwritten) + Len(queue) + k] = wire[k]
         /\ \A k \in 1..Len(Course) :
              \/ k \in 1..Len(journal)
              \/ k - Len(journal) \in 1..Len(Unwritten)
              \/ k - Len(journal) - Len(Unwritten) \in 1..Len(queue)
              \/ k - Len(journal) - Len(Unwritten) - Len(queue) \in 1..Len(wire)
<1>1. journal \in Seq(Nat) /\ queue \in Seq(Nat) /\ batch \in Seq(Nat)
  BY JournalTyped
<1>2. Unwritten \in Seq(Nat)
  BY <1>1 DEF Unwritten
<1>3. wire \in Seq(Nat)
  BY SinkTyped, Recorded, SeqMonotonic
<1>4. /\ Len(journal) \in Nat /\ Len(Unwritten) \in Nat /\ Len(queue) \in Nat /\ Len(wire) \in Nat
      /\ Course = journal \o Unwritten \o queue \o wire
  BY <1>1, <1>2, <1>3 DEF Course, Taken
<1>5. Course \in Seq(Nat) /\ Len(Course) = Len(journal) + Len(Unwritten) + Len(queue) + Len(wire)
  BY <1>1, <1>2, <1>3, <1>4
<1>6. /\ \A k \in 1..Len(journal) : Course[k] = journal[k]
      /\ \A k \in 1..Len(Unwritten) : Course[Len(journal) + k] = Unwritten[k]
  BY <1>1, <1>2, <1>3, <1>4
<1>7. \A k \in 1..Len(queue) : Course[Len(journal) + Len(Unwritten) + k] = queue[k]
  BY <1>1, <1>2, <1>3, <1>4
<1>8. \A k \in 1..Len(wire) : Course[Len(journal) + Len(Unwritten) + Len(queue) + k] = wire[k]
  BY <1>1, <1>2, <1>3, <1>4
<1>9. \A k \in 1..Len(Course) :
        \/ k \in 1..Len(journal)
        \/ k - Len(journal) \in 1..Len(Unwritten)
        \/ k - Len(journal) - Len(Unwritten) \in 1..Len(queue)
        \/ k - Len(journal) - Len(Unwritten) - Len(queue) \in 1..Len(wire)
  BY <1>4, <1>5
<1> QED
  BY <1>2, <1>3, <1>4, <1>5, <1>6, <1>7, <1>8, <1>9

LEMMA TakenType ==
  ASSUME TypeOK
  PROVE  Taken \in Seq(Nat) /\ wire \in Seq(Nat)
<1>1. journal \in Seq(Nat) /\ Unwritten \in Seq(Nat) /\ queue \in Seq(Nat)
  BY JournalTyped, CoursePlaces
<1> QED
  BY <1>1, CoursePlaces DEF Taken

LEMMA InCourse ==
  ASSUME TypeOK, JournalInv
  PROVE  \A x : In(x, Course) <=> In(x, journal) \/ In(x, batch) \/ In(x, queue) \/ In(x, wire)
<1> TAKE x
<1> DEFINE j == Len(journal)  u == Len(Unwritten)  q == Len(queue)  w == Len(wire)
<1>1. j \in Nat /\ u \in Nat /\ q \in Nat /\ w \in Nat /\ Len(Course) = j + u + q + w
  BY CoursePlaces, JournalTyped, SinkTyped
<1>2. /\ \A k \in 1..j : Course[k] = journal[k]
      /\ \A k \in 1..u : Course[j + k] = Unwritten[k]
      /\ \A k \in 1..q : Course[j + u + k] = queue[k]
      /\ \A k \in 1..w : Course[j + u + q + k] = wire[k]
      /\ \A k \in 1..Len(Course) :
              \/ k \in 1..j
              \/ k - j \in 1..u
              \/ k - j - u \in 1..q
              \/ k - j - u - q \in 1..w
  BY CoursePlaces
<1>3. In(x, Unwritten) => In(x, batch)
  BY JournalTyped DEF In, Unwritten
<1>4. In(x, batch) => In(x, journal) \/ In(x, Unwritten)
  <2>1. CASE step = "writing"
    BY <2>1 DEF Unwritten
  <2>2. CASE step = "syncing"
    BY <2>2 DEF JournalInv, In
  <2>3. CASE step \notin {"writing", "syncing"}
    <3>1. Len(batch) = 0
      BY <2>3, JournalTyped
    <3> QED
      BY <3>1 DEF In
  <2> QED
    BY <2>1, <2>2, <2>3
<1>5. ASSUME In(x, journal) \/ In(x, Unwritten) \/ In(x, queue) \/ In(x, wire) PROVE In(x, Course)
  <2>1. /\ \A k \in 1..j : k \in 1..Len(Course)
        /\ \A k \in 1..u : j + k \in 1..Len(Course)
        /\ \A k \in 1..q : j + u + k \in 1..Len(Course)
        /\ \A k \in 1..w : j + u + q + k \in 1..Len(Course)
    BY <1>1
  <2>2. In(x, journal) \/ In(x, Unwritten) => In(x, Course)
    BY <1>2, <2>1 DEF In
  <2>3. In(x, queue) \/ In(x, wire) => In(x, Course)
    BY <1>2, <2>1 DEF In
  <2> QED
    BY <1>5, <2>2, <2>3
<1>6. ASSUME In(x, Course) PROVE In(x, journal) \/ In(x, Unwritten) \/ In(x, queue) \/ In(x, wire)
  <2>1. PICK k \in 1..Len(Course) : Course[k] = x
    BY <1>6 DEF In
  <2>2. /\ j + (k - j) = k /\ j + u + (k - j - u) = k /\ j + u + q + (k - j - u - q) = k
    BY <1>1
  <2>3. CASE k \in 1..j
    BY <1>2, <2>1, <2>3 DEF In
  <2>4. CASE k - j \in 1..u
    BY <1>2, <2>1, <2>2, <2>4 DEF In
  <2>5. CASE k - j - u \in 1..q
    BY <1>2, <2>1, <2>2, <2>5 DEF In
  <2>6. CASE k - j - u - q \in 1..w
    BY <1>2, <2>1, <2>2, <2>6 DEF In
  <2> QED
    BY <1>2, <2>3, <2>4, <2>5, <2>6
<1> QED
  BY <1>3, <1>4, <1>5, <1>6

LEMMA DurableIsJournaled ==
  ASSUME TypeOK
  PROVE  \A x \in Journal!Durable : In(x, journal)
  BY JournalTyped DEF Journal!Durable, In

LEMMA QueueSorted ==
  ASSUME TypeOK, Sound(Course, answer)
  PROVE  \A i, j \in 1..Len(queue) :
           i < j /\ queue[i] \in Records /\ queue[j] \in Records => queue[i] < queue[j]
<1> SUFFICES ASSUME NEW i \in 1..Len(queue), NEW j \in 1..Len(queue), i < j,
                    queue[i] \in Records, queue[j] \in Records
             PROVE  queue[i] < queue[j]
  OBVIOUS
<1> DEFINE m == Len(journal) + Len(Unwritten)
<1>1. m \in Nat /\ Len(queue) \in Nat /\ Len(wire) \in Nat /\ Len(Course) = m + Len(queue) + Len(wire)
  BY CoursePlaces, JournalTyped, SinkTyped
<1>2. Course[m + i] = queue[i] /\ Course[m + j] = queue[j]
  BY CoursePlaces
<1> HIDE DEF m
<1>3. m + j \in 1..Len(Course) /\ m + i \in 1..((m + j) - 1)
  BY <1>1
<1> QED
  BY <1>2, <1>3 DEF Sound
-----------------------------------------------------------------------------
(***************************************************************************)
(* The collector                                                           *)
(***************************************************************************)
TornLast(s) == \A k \in 1..Len(s) : s[k] = Journal!Torn => k = Len(s)

\* Whatever ends the flush loop, its journal ends with a partial record at most.
LEMMA Halts ==
  ASSUME running' \in {"down", "up", "stopping"}, healthy' \in BOOLEAN, running' = "down" \/ ~healthy',
         queue' = <<>>, batch' = <<>>, step' = "idle", journal' \in Seq(Nat), TornLast(journal'),
         synced' \in Nat, synced' <= Len(journal')
  PROVE  Journal!TypeOK' /\ JournalInv'
<1>1. queue' \in Seq(Nat) /\ batch' \in Seq(Nat) /\ Len(queue') = 0 /\ Len(batch') = 0
  OBVIOUS
<1>2. Journal!TypeOK'
  BY <1>1 DEF Journal!TypeOK
<1>3. JournalInv'
  BY <1>1 DEF JournalInv, TornLast
<1> QED
  BY <1>2, <1>3

\* The file as it is or is about to be, when the collector dies or gives up.
LEMMA FileTorn ==
  ASSUME TypeOK, JournalInv
  PROVE  /\ TornLast(journal)
         /\ step \in {"writing", "syncing"} =>
              /\ \A k \in 1..Len(journal) : journal[k] # Journal!Torn
              /\ \A k \in 1..Len(batch) : batch[k] # Journal!Torn
<1>1. Journal!Torn \notin Records \cup Foreign
  BY Recorded DEF Journal!Torn
<1>2. \A k \in 1..Len(batch) : batch[k] # Journal!Torn
  BY <1>1 DEF JournalInv
<1> QED
  BY <1>2 DEF JournalInv, TornLast

LEMMA BreakKeepsJournal ==
  ASSUME TypeOK, JournalInv, Journal!Break, journal' \in Seq(Nat), TornLast(journal'),
         Len(journal) <= Len(journal')
  PROVE  Journal!TypeOK' /\ JournalInv'
<1>1. /\ running' = running /\ healthy' = FALSE /\ queue' = <<>> /\ batch' = <<>> /\ step' = "idle"
      /\ synced' = synced
  BY DEF Journal!Break, Journal!Forget
<1>2. Len(journal) \in Nat /\ Len(journal') \in Nat
  BY JournalTyped
<1>3. synced' \in Nat /\ synced' <= Len(journal')
  BY <1>1, <1>2, JournalTyped
<1> QED
  BY <1>1, <1>3, Halts, JournalTyped

\* What an interrupted write leaves of the journal.
LEMMA PartialJournal ==
  ASSUME TypeOK, JournalInv, step = "writing", NEW appended \in Journal!Partial,
         journal' = journal \o appended
  PROVE  journal' \in Seq(Nat) /\ TornLast(journal') /\ Len(journal) <= Len(journal')
<1>1. /\ appended \in Seq(Nat)
      /\ \E n \in 0..Len(batch) :
           /\ n <= Len(appended) /\ \A i \in 1..n : appended[i] = batch[i]
           /\ \A i \in (n + 1)..Len(appended) : i = Len(appended) /\ appended[i] = Journal!Torn
  BY PartialEffect, JournalTyped
<1>2. PICK n \in 0..Len(batch) :
        /\ n <= Len(appended) /\ \A i \in 1..n : appended[i] = batch[i]
        /\ \A i \in (n + 1)..Len(appended) : i = Len(appended) /\ appended[i] = Journal!Torn
  BY <1>1
<1>3. journal \in Seq(Nat) /\ batch \in Seq(Nat)
  BY JournalTyped
<1>4. /\ journal' \in Seq(Nat) /\ Len(journal') = Len(journal) + Len(appended)
      /\ \A i \in 1..Len(journal) : journal'[i] = journal[i]
      /\ \A i \in 1..Len(appended) : journal'[Len(journal) + i] = appended[i]
  BY <1>1, <1>3
<1>5. ASSUME NEW k \in 1..Len(journal'), journal'[k] = Journal!Torn PROVE k = Len(journal')
  <2>1. k \notin 1..Len(journal)
    BY <1>4, <1>5, FileTorn
  <2>2. k - Len(journal) \in 1..Len(appended) /\ Len(journal) + (k - Len(journal)) = k
    BY <1>1, <1>3, <1>4, <2>1
  <2>3. appended[k - Len(journal)] = Journal!Torn
    BY <1>4, <1>5, <2>2
  <2>4. k - Len(journal) \notin 1..n
    BY <1>2, <2>3, FileTorn
  <2>5. k - Len(journal) \in (n + 1)..Len(appended)
    BY <2>2, <2>4
  <2>6. k - Len(journal) = Len(appended)
    BY <1>2, <2>5
  <2> QED
    BY <1>1, <1>3, <1>4, <2>6
<1> QED
  BY <1>1, <1>3, <1>4, <1>5 DEF TornLast

LEMMA PowerLossJournal ==
  ASSUME TypeOK, JournalInv, Journal!PowerLoss
  PROVE  Journal!TypeOK' /\ JournalInv'
<1> DEFINE file == IF step = "writing" THEN journal \o batch ELSE journal
<1>1. journal \in Seq(Nat) /\ batch \in Seq(Nat) /\ synced \in Nat /\ synced <= Len(journal)
  BY JournalTyped
<1>2. file \in Seq(Nat) /\ Len(journal) <= Len(file) /\ TornLast(file)
  <2>1. CASE step = "writing"
    <3>1. /\ journal \o batch \in Seq(Nat) /\ Len(journal \o batch) = Len(journal) + Len(batch)
          /\ \A i \in 1..Len(journal) : (journal \o batch)[i] = journal[i]
          /\ \A i \in (Len(journal) + 1)..Len(journal \o batch) :
               i - Len(journal) \in 1..Len(batch) /\ (journal \o batch)[i] = batch[i - Len(journal)]
      BY <1>1
    <3>2. \A i \in 1..Len(journal \o batch) : (journal \o batch)[i] # Journal!Torn
      BY <1>1, <2>1, <3>1, FileTorn
    <3> QED
      BY <1>1, <2>1, <3>1, <3>2 DEF TornLast
  <2>2. CASE step # "writing"
    BY <1>1, <2>2, FileTorn
  <2> QED
    BY <2>1, <2>2
<1>3. journal' \in Journal!Survivors(file)
  BY DEF Journal!PowerLoss
<1> HIDE DEF file
<1>4. synced <= Len(file)
  BY <1>1, <1>2
<1>5. PICK n \in synced..Len(file) :
        /\ journal' \in Seq(Nat)
        /\ n <= Len(journal') /\ \A i \in 1..n : journal'[i] = file[i]
        /\ \A i \in (n + 1)..Len(journal') : i = Len(journal') /\ n < Len(file)
  BY <1>1, <1>2, <1>3, <1>4, SurvivorsEffect
<1>6. TornLast(journal')
  <2> SUFFICES ASSUME NEW k \in 1..Len(journal'), journal'[k] = Journal!Torn
               PROVE  k = Len(journal')
    BY DEF TornLast
  <2>1. CASE k \in 1..n
    <3>1. file[k] = Journal!Torn /\ k \in 1..Len(file)
      BY <1>1, <1>2, <1>5, <2>1
    <3>2. k = Len(file)
      BY <3>1, <1>2 DEF TornLast
    <3>3. n = Len(file) /\ n = k
      BY <1>1, <1>2, <1>5, <2>1, <3>2
    <3> QED
      BY <1>5, <3>3
  <2>2. CASE k \notin 1..n
    BY <1>5, <2>2
  <2> QED
    BY <2>1, <2>2
<1>7. /\ running' = "down" /\ healthy' = healthy /\ queue' = <<>> /\ batch' = <<>> /\ step' = "idle"
      /\ synced' = synced
  BY DEF Journal!PowerLoss, Journal!Forget
<1>8. synced' \in Nat /\ synced' <= Len(journal')
  BY <1>1, <1>2, <1>5, <1>7
<1> QED
  BY <1>5, <1>6, <1>7, <1>8, Halts, JournalTyped

LEMMA JournalPreserved ==
  ASSUME TypeOK, JournalInv, Sound(Course, answer), JournalStep
  PROVE  Journal!TypeOK' /\ JournalInv'
<1> USE JournalTyped
<1>1. CASE Journal!Start \/ Journal!IdleTimeout \/ Journal!Stop \/ Journal!Exit
  <2>1. UNCHANGED <<queue, batch, step, journal>>
    BY <1>1 DEF Journal!Start, Journal!IdleTimeout, Journal!Stop, Journal!Exit, Journal!journalVars
  <2>2. /\ running' \in {"down", "up", "stopping"} /\ healthy' \in BOOLEAN
        /\ synced' \in {synced, Len(journal)}
        /\ running' = "down" \/ ~healthy' => step = "idle"
        /\ \A k \in 1..Len(journal) :
             journal[k] = Journal!Torn => k = Len(journal) /\ (running' = "down" \/ ~healthy')
    <3>1. CASE Journal!Start
      BY <3>1 DEF Journal!Start, JournalInv
    <3>2. CASE Journal!IdleTimeout
      BY <3>2 DEF Journal!IdleTimeout, Journal!journalVars, JournalInv
    <3>3. CASE Journal!Stop
      BY <3>3 DEF Journal!Stop, JournalInv
    <3>4. CASE Journal!Exit
      BY <3>4 DEF Journal!Exit, JournalInv
    <3> QED
      BY <1>1, <3>1, <3>2, <3>3, <3>4
  <2>3. synced' \in Nat /\ synced' <= Len(journal)
    BY <2>2
  <2>4. Journal!TypeOK'
    BY <2>1, <2>2, <2>3 DEF TypeOK, Journal!TypeOK
  <2>5. JournalInv'
    BY <2>1, <2>2 DEF JournalInv, In
  <2> QED
    BY <2>4, <2>5
<1>2. ASSUME NEW r \in Records \cup Foreign, running = "up", healthy,
             queue' = Append(queue, r), step' = Journal!Wake,
             UNCHANGED <<running, healthy, batch, journal, synced>>
      PROVE  Journal!TypeOK' /\ JournalInv'
  <2>1. /\ queue' \in Seq(Nat) /\ queue' # <<>>
        /\ \A k \in 1..Len(queue') : queue'[k] \in Records \cup Foreign
    <3>1. r \in Nat
      BY Recorded
    <3>2. /\ queue' \in Seq(Nat) /\ queue' # <<>>
          /\ Len(queue') = Len(queue) + 1 /\ queue'[Len(queue) + 1] = r
          /\ \A k \in 1..Len(queue) : queue'[k] = queue[k]
          /\ \A k \in 1..(Len(queue) + 1) : k \in 1..Len(queue) \/ k = Len(queue) + 1
      BY <1>2, <3>1, Added
    <3>3. \A k \in 1..Len(queue) : queue[k] \in Records \cup Foreign
      BY DEF JournalInv
    <3> QED
      BY <3>2, <3>3
  <2>2. step' = IF step = "idle" THEN "gather" ELSE step
    BY <1>2 DEF Journal!Wake
  <2>3. Journal!TypeOK'
    BY <1>2, <2>1, <2>2 DEF TypeOK, Journal!TypeOK
  <2>4. JournalInv'
    BY <1>2, <2>1, <2>2 DEF JournalInv, In
  <2> QED
    BY <2>3, <2>4
<1>3. CASE Journal!Receive
  <2>1. CASE ~healthy \/ Len(queue) + Len(batch) >= QueueLimit
    <3>1. UNCHANGED <<running, healthy, queue, step, batch, journal, synced>>
      BY <1>3, <2>1 DEF Journal!Receive
    <3> QED
      BY <3>1 DEF TypeOK, Journal!TypeOK, JournalInv, In
  <2>2. CASE ~(~healthy \/ Len(queue) + Len(batch) >= QueueLimit)
    <3>1. Head(wire) \in Records
      BY <1>3, SinkTyped DEF Journal!Receive
    <3> QED
      BY <1>2, <1>3, <2>2, <3>1 DEF Journal!Receive
  <2> QED
    BY <2>1, <2>2
<1>4. ASSUME NEW r \in Foreign, Journal!ReceiveForeign(r) PROVE Journal!TypeOK' /\ JournalInv'
  BY <1>2, <1>4 DEF Journal!ReceiveForeign
<1>5. ASSUME Journal!Break, UNCHANGED journal PROVE Journal!TypeOK' /\ JournalInv'
  BY <1>5, BreakKeepsJournal, FileTorn
<1>6. CASE Journal!Gather
  <2> DEFINE n == Journal!Smaller(BatchSize, Len(queue))
  <2>1. CASE Len(journal) + n > MaxJournal
    BY <1>5, <1>6, <2>1 DEF Journal!Gather
  <2>2. CASE ~(Len(journal) + n > MaxJournal)
    <3>1. /\ batch' = SubSeq(queue, 1, n) /\ queue' = SubSeq(queue, n + 1, Len(queue))
          /\ step' = "writing" /\ step = "gather"
          /\ UNCHANGED <<running, healthy, journal, synced>>
      BY <1>6, <2>2 DEF Journal!Gather
    <3>2. n \in 1..Len(queue)
      BY <3>1, Limits DEF Journal!Smaller, JournalInv
    <3> HIDE DEF n
    <3>3. /\ batch' \in Seq(Nat) /\ Len(batch') = n /\ \A k \in 1..n : batch'[k] = queue[k]
          /\ queue' \in Seq(Nat) /\ Len(queue') = Len(queue) - n
          /\ \A k \in 1..(Len(queue) - n) : queue'[k] = queue[n + k]
      <4>1. n \in 0..Len(queue)
        BY <3>2
      <4> QED
        BY <3>1, <4>1, TakenOff
    <3>4. Journal!TypeOK'
      <4>1. batch' # <<>>
        BY <3>2, <3>3
      <4> QED
        BY <3>1, <3>3, <4>1 DEF TypeOK, Journal!TypeOK
    <3>5. /\ \A k \in 1..Len(queue') : queue'[k] \in Records \cup Foreign
          /\ \A k \in 1..Len(batch') : batch'[k] \in Records \cup Foreign
      <4>1. \A k \in 1..Len(queue) : queue[k] \in Records \cup Foreign
        BY DEF JournalInv
      <4>2. /\ \A k \in 1..(Len(queue) - n) : n + k \in 1..Len(queue)
            /\ \A k \in 1..n : k \in 1..Len(queue)
        BY <3>2
      <4> QED
        BY <3>3, <4>1, <4>2
    <3>6. \A i, j \in 1..Len(batch') :
            i < j /\ batch'[i] \in Records /\ batch'[j] \in Records => batch'[i] < batch'[j]
      <4>1. \A k \in 1..n : k \in 1..Len(queue)
        BY <3>2
      <4> QED
        BY <3>3, <4>1, QueueSorted
    <3>7. JournalInv'
      BY <3>1, <3>5, <3>6 DEF JournalInv
    <3> QED
      BY <3>4, <3>7
  <2> QED
    BY <2>1, <2>2
<1>7. CASE Journal!Write
  <2>1. /\ step = "writing" /\ step' = "syncing" /\ journal' = journal \o batch
        /\ UNCHANGED <<running, healthy, queue, batch, synced>>
    BY <1>7 DEF Journal!Write
  <2>2. /\ journal' \in Seq(Nat) /\ Len(journal') = Len(journal) + Len(batch)
        /\ \A k \in 1..Len(journal) : journal'[k] = journal[k]
        /\ \A k \in 1..Len(batch) : journal'[Len(journal) + k] = batch[k]
        /\ \A k \in 1..Len(journal') : k \in 1..Len(journal) \/ k - Len(journal) \in 1..Len(batch)
        /\ \A k \in 1..Len(batch) : Len(journal) + k \in 1..Len(journal')
        /\ \A k \in 1..Len(journal') : Len(journal) + (k - Len(journal)) = k
    BY <2>1
  <2>3. \A k \in 1..Len(journal') : journal'[k] # Journal!Torn
    BY <2>1, <2>2, FileTorn
  <2>4. \A k \in 1..Len(batch) : In(batch[k], journal)'
    BY <2>1, <2>2 DEF In
  <2>5. Journal!TypeOK'
    <3>1. synced' \in Nat /\ synced' <= Len(journal')
      BY <2>1, <2>2
    <3> QED
      BY <2>1, <2>2, <3>1 DEF TypeOK, Journal!TypeOK
  <2>6. JournalInv'
    BY <2>1, <2>3, <2>4 DEF JournalInv
  <2> QED
    BY <2>5, <2>6
<1>8. CASE Journal!WriteFails
  <2>1. /\ step = "writing" /\ Journal!Break
        /\ \E appended \in Journal!Partial : journal' = journal \o appended
    BY <1>8 DEF Journal!WriteFails
  <2>2. journal' \in Seq(Nat) /\ TornLast(journal') /\ Len(journal) <= Len(journal')
    BY <2>1, PartialJournal
  <2> QED
    BY <2>1, <2>2, BreakKeepsJournal
<1>9. CASE Journal!Sync
  <2>1. /\ step = "syncing" /\ batch' = <<>> /\ synced' = Len(journal)
        /\ step' = IF queue = <<>> THEN "idle" ELSE "gather"
        /\ UNCHANGED <<running, healthy, queue, journal>>
    BY <1>9 DEF Journal!Sync
  <2>2. batch' \in Seq(Nat) /\ Len(batch') = 0 /\ synced' \in Nat /\ synced' <= Len(journal')
    BY <2>1
  <2>3. Journal!TypeOK'
    BY <2>1, <2>2 DEF TypeOK, Journal!TypeOK
  <2>4. JournalInv'
    BY <2>1, <2>2 DEF JournalInv
  <2> QED
    BY <2>3, <2>4
<1>10. CASE Journal!Kill
  <2>1. /\ running' = "down" /\ queue' = <<>> /\ batch' = <<>> /\ step' = "idle"
        /\ UNCHANGED <<healthy, synced>>
    BY <1>10 DEF Journal!Kill, Journal!Forget
  <2>2. journal' \in Seq(Nat) /\ TornLast(journal') /\ Len(journal) <= Len(journal')
    <3>1. CASE step = "writing"
      BY <1>10, <3>1, PartialJournal DEF Journal!Kill
    <3>2. CASE step # "writing"
      <4>1. journal' = journal \o <<>>
        BY <1>10, <3>2 DEF Journal!Kill
      <4>2. journal' = journal
        BY <4>1
      <4> QED
        BY <4>2, FileTorn
    <3> QED
      BY <3>1, <3>2
  <2>3. Len(journal') \in Nat /\ synced' \in Nat /\ synced' <= Len(journal')
    BY <2>1, <2>2
  <2> QED
    BY <2>1, <2>2, <2>3, Halts
<1>11. CASE Journal!SyncFails
  BY <1>5, <1>11 DEF Journal!SyncFails
<1> QED
  BY <1>1, <1>3, <1>4, <1>6, <1>7, <1>8, <1>9, <1>10, <1>11 DEF JournalStep
-----------------------------------------------------------------------------
(***************************************************************************)
(* The sink                                                                *)
(***************************************************************************)

\* A step of the collector reads from the stream, acknowledges into it or cuts it.
LEMMA StreamTouched ==
  ASSUME TypeOK, JournalStep
  PROVE  /\ wire' \in Seq(Records) /\ acks' \in Nat
         /\ link' = link \/ (link = "open" /\ link' = "cut")
<1> USE SinkTyped
<1>1. CASE UNCHANGED <<link, wire, acks>>
  BY <1>1
<1>2. CASE Journal!Cut
  BY <1>2, CutEffect
<1>3. CASE Journal!Receive
  <2>1. CASE wire # <<>> /\ wire' = Tail(wire) /\ UNCHANGED <<link, acks>>
    BY <2>1
  <2> QED
    BY <1>2, <1>3, <2>1 DEF Journal!Receive
<1>4. CASE Journal!Sync
  <2>1. CASE acks' = acks + Journal!Owed /\ UNCHANGED <<link, wire>>
    BY <2>1, OwedType
  <2> QED
    BY <1>1, <1>2, <1>4, <2>1 DEF Journal!Sync, Journal!Acknowledge
<1>5. CASE Journal!Gather
  BY <1>1, <1>2, <1>5 DEF Journal!Gather, Journal!Break
<1>6. CASE Journal!WriteFails \/ Journal!SyncFails \/ Journal!IdleTimeout \/ Journal!Stop \/ Journal!Kill
  BY <1>2, <1>6 DEF Journal!WriteFails, Journal!SyncFails, Journal!IdleTimeout, Journal!Stop,
                   Journal!Kill, Journal!Break
<1>7. CASE Journal!Start \/ Journal!Write \/ Journal!Exit \/ \E r \in Foreign : Journal!ReceiveForeign(r)
  BY <1>1, <1>7 DEF Journal!Start, Journal!Write, Journal!Exit, Journal!ReceiveForeign
<1> QED
  BY <1>3, <1>4, <1>5, <1>6, <1>7 DEF JournalStep

LEMMA JournalKeepsSink ==
  ASSUME TypeOK, SinkInv, JournalStep, UNCHANGED sinkVars
  PROVE  Sink!TypeOK' /\ SinkInv'
<1>1. /\ wire' \in Seq(Records) /\ acks' \in Nat
      /\ link' = link \/ (link = "open" /\ link' = "cut")
  BY StreamTouched
<1>2. Sink!TypeOK'
  BY <1>1, SameRecords DEF TypeOK, Sink!TypeOK, sinkVars
<1>3. SinkInv'
  BY <1>1 DEF SinkInv, sinkVars, In
<1> QED
  BY <1>2, <1>3

\* A failure leaves nothing pending and nothing open.
LEMMA GiveUpKeepsSink ==
  ASSUME TypeOK, SinkInv, Sink!GiveUp, link' \in {"none", "dead"}, link' = "none" => ~writable'
  PROVE  SinkInv'
<1>1. /\ answer' = [r \in Records |-> IF answer[r] = "open" THEN "lost" ELSE answer[r]]
      /\ pending' = <<>> /\ sent' = 0 /\ failed'
  BY GiveUpEffect
<1>2. Len(pending') = 0
  BY <1>1
<1>3. /\ \A r, s \in Records : s < r /\ answer'[r] # "none" => answer'[s] # "none"
      /\ \A r \in Records : answer'[r] # "open" /\ ~In(r, pending')
  BY <1>1, <1>2 DEF SinkInv, In
<1>4. \A i, j \in 1..Len(pending') : i < j => pending'[i] < pending'[j]
  BY <1>2
<1> QED
  BY <1>1, <1>3, <1>4 DEF SinkInv, In

\* A write changes nothing of what is pending, but how much of it was written.
LEMMA FlushKeepsSink ==
  ASSUME TypeOK, NEW q \in Seq(Records), NEW done \in 0..Len(q), NEW ready \in BOOLEAN,
         Sink!Flush(q, done, ready), ~failed, ~closed, UNCHANGED <<failed, closed>>,
         link' \in {"connecting", "open", "cut"},
         link' = "connecting" => done = 0 /\ ~ready,
         \A r, s \in Records : s < r /\ answer'[r] # "none" => answer'[s] # "none",
         \A r \in Records : answer'[r] = "open" <=> In(r, q),
         \A i, j \in 1..Len(q) : i < j => q[i] < q[j],
         \A r, s \in Records : answer'[r] = "acked" /\ answer'[s] = "open" => r < s,
         \A r \in Records : answer'[r] # "lost"
  PROVE  SinkInv'
<1>1. /\ pending' = q /\ sent' \in done..Len(q) /\ (~ready => sent' = done /\ ~writable')
  BY FlushEffect, SinkTyped
<1>2. \A r \in Records : answer'[r] = "open" <=> In(r, pending)'
  BY <1>1 DEF In
<1>3. link' \in {"none", "connecting"} => sent' = 0 /\ ~writable'
  BY <1>1
<1> QED
  BY <1>1, <1>2, <1>3 DEF SinkInv

LEMMA FailKeepsSink ==
  ASSUME TypeOK, SinkInv, Sink!Fail
  PROVE  SinkInv'
<1>1. /\ Sink!GiveUp /\ link' = (IF link = "none" THEN "none" ELSE "dead") /\ writable' = writable
  BY DEF Sink!Fail, Sink!Destroy
<1>2. link' = "none" => ~writable'
  BY <1>1 DEF SinkInv
<1> QED
  BY <1>1, <1>2, GiveUpKeepsSink

\* A record that is called next comes after every record called before.
LEMMA NextIsLast ==
  ASSUME TypeOK, SinkInv, NEW r \in Records, r \in Sink!NextRecord
  PROVE  /\ answer[r] = "none"
         /\ \A s \in Records : answer[s] # "none" <=> s < r
<1>1. answer[r] = "none" /\ \A s \in Records : s < r => answer[s] # "none"
  BY SameRecords DEF Sink!NextRecord, Sink!Called
<1>2. \A s \in Records : answer[s] # "none" => s < r
  <2> TAKE s \in Records
  <2> HAVE answer[s] # "none"
  <2>1. r \in Nat /\ s \in Nat /\ s # r
    BY <1>1, Recorded
  <2>2. ~(r < s)
    BY <1>1 DEF SinkInv
  <2> QED
    BY <2>1, <2>2
<1> QED
  BY <1>1, <1>2

LEMMA SendKeepsSink ==
  ASSUME TypeOK, SinkInv, NEW r \in Records, Sink!Send(r)
  PROVE  SinkInv'
<1> DEFINE q == Append(pending, r)
<1>1. /\ answer[r] = "none" /\ \A s \in Records : answer[s] # "none" <=> s < r
  BY NextIsLast DEF Sink!Send
<1>2. /\ ~failed /\ ~closed /\ UNCHANGED <<failed, closed>>
      /\ answer' = [answer EXCEPT ![r] = "open"]
      /\ link' = IF link = "none" THEN "connecting" ELSE link
      /\ Sink!Flush(q, sent, writable)
  BY DEF Sink!Send
<1>3. /\ q \in Seq(Records) /\ Len(q) = Len(pending) + 1 /\ q[Len(pending) + 1] = r
      /\ \A k \in 1..Len(pending) : q[k] = pending[k]
      /\ \A k \in 1..(Len(pending) + 1) : k \in 1..Len(pending) \/ k = Len(pending) + 1
  BY SinkTyped, Added
<1>4. sent \in 0..Len(q) /\ Len(pending) \in Nat
  BY <1>3, SinkTyped
<1> HIDE DEF q
<1>5. answer' = [s \in Records |-> IF s = r THEN "open" ELSE answer[s]]
  BY <1>2, SinkTyped
<1>6. \A s \in Records : In(s, q) <=> In(s, pending) \/ s = r
  BY <1>3, <1>4 DEF In
<1>7. \A s \in Records : answer'[s] = "open" <=> In(s, q)
  <2>1. \A s \in Records : answer[s] = "open" <=> In(s, pending)
    BY DEF SinkInv
  <2> QED
    BY <1>5, <1>6, <2>1
<1>8. \A i, j \in 1..Len(q) : i < j => q[i] < q[j]
  <2> SUFFICES ASSUME NEW i \in 1..Len(q), NEW j \in 1..Len(q), i < j PROVE q[i] < q[j]
    OBVIOUS
  <2>1. i \in 1..Len(pending)
    BY <1>3, <1>4
  <2>2. CASE j \in 1..Len(pending)
    BY <1>3, <2>1, <2>2 DEF SinkInv
  <2>3. CASE j = Len(pending) + 1
    <3>1. pending[i] \in Records /\ answer[pending[i]] = "open"
      BY <2>1, SinkTyped DEF SinkInv, In
    <3> QED
      BY <1>1, <1>3, <2>1, <2>3, <3>1
  <2> QED
    BY <1>3, <2>2, <2>3
<1>9. \A p, s \in Records : answer'[p] = "acked" /\ answer'[s] = "open" => p < s
  BY <1>1, <1>5 DEF SinkInv
<1>10. \A p, s \in Records : s < p /\ answer'[p] # "none" => answer'[s] # "none"
  BY <1>1, <1>5 DEF SinkInv
<1>11. /\ \A s \in Records : answer'[s] # "lost"
       /\ link' \in {"connecting", "open", "cut"}
       /\ link' = "connecting" => sent = 0 /\ ~writable
  BY <1>2, <1>5, SinkTyped DEF SinkInv
<1>12. writable \in BOOLEAN
  BY SinkTyped
<1> QED
  BY <1>2, <1>3, <1>4, <1>7, <1>8, <1>9, <1>10, <1>11, <1>12, FlushKeepsSink

\* Of n acknowledgements, as many records are answered, the oldest.
LEMMA DataEffect ==
  ASSUME TypeOK, SinkInv, NEW n \in 1..acks, Sink!Data(n), n <= sent
  PROVE  /\ n \in Nat /\ n <= Len(pending) /\ ~failed /\ ~closed /\ UNCHANGED <<failed, closed, link>>
         /\ link \in {"open", "cut"} /\ acks' = acks - n
         /\ Sink!Flush(SubSeq(pending, n + 1, Len(pending)), sent - n, writable)
         /\ answer' = [r \in Records |-> IF \E k \in 1..n : pending[k] = r THEN "acked" ELSE answer[r]]
<1>1. /\ link \in {"open", "cut"} /\ UNCHANGED <<failed, closed, link>> /\ acks' = acks - n
      /\ Sink!Flush(SubSeq(pending, n + 1, Len(pending)), sent - n, writable)
      /\ answer' = [r \in Records |-> IF r \in Sink!Acked(n) THEN "acked" ELSE answer[r]]
  BY SinkTyped, SameRecords DEF Sink!Data
<1>2. \A r \in Records : r \in Sink!Acked(n) <=> \E k \in 1..n : pending[k] = r
  BY DEF Sink!Acked
<1>3. ~failed /\ ~closed
  BY <1>1 DEF SinkInv
<1>4. n \in Nat /\ n <= Len(pending)
  BY SinkTyped
<1> QED
  BY <1>1, <1>2, <1>3, <1>4

LEMMA DataKeepsSink ==
  ASSUME TypeOK, SinkInv, NEW n \in 1..acks, Sink!Data(n), n <= sent
  PROVE  SinkInv'
<1> DEFINE q == SubSeq(pending, n + 1, Len(pending))
<1>1. /\ n \in Nat /\ n <= Len(pending) /\ ~failed /\ ~closed /\ UNCHANGED <<failed, closed, link>>
      /\ link \in {"open", "cut"} /\ Sink!Flush(q, sent - n, writable)
      /\ answer' = [r \in Records |-> IF \E k \in 1..n : pending[k] = r THEN "acked" ELSE answer[r]]
  BY DataEffect
<1>2. /\ q \in Seq(Records) /\ Len(q) = Len(pending) - n
      /\ \A k \in 1..(Len(pending) - n) : q[k] = pending[n + k]
  <2>1. pending \in Seq(Records) /\ n \in 0..Len(pending)
    BY <1>1, SinkTyped
  <2> QED
    BY <2>1, TakenOff
<1>3. Len(pending) \in Nat /\ sent - n \in 0..Len(q) /\ writable \in BOOLEAN
  BY <1>1, <1>2, SinkTyped
<1> HIDE DEF q
<1>4. /\ \A r \in Records : answer[r] = "open" <=> In(r, pending)
      /\ \A i, j \in 1..Len(pending) : i < j => pending[i] < pending[j]
      /\ \A k \in 1..Len(pending) : pending[k] \in Records
  BY SinkTyped DEF SinkInv
<1>5. \A k \in 1..Len(q) : n + k \in 1..Len(pending) /\ q[k] = pending[n + k] /\ n + k > n
  BY <1>1, <1>2, <1>3
<1>6. \A k \in 1..Len(pending) : k > n => k - n \in 1..Len(q) /\ q[k - n] = pending[k]
  <2> TAKE k \in 1..Len(pending)
  <2> HAVE k > n
  <2>1. k - n \in 1..(Len(pending) - n) /\ n + (k - n) = k
    BY <1>1, <1>3
  <2> QED
    BY <1>2, <2>1
<1>7. \A r \in Records : answer'[r] = "open" <=> In(r, q)
  <2> TAKE r \in Records
  <2>1. ASSUME In(r, q) PROVE answer'[r] = "open"
    <3>1. PICK k \in 1..Len(q) : q[k] = r
      BY <2>1 DEF In
    <3>2. n + k \in 1..Len(pending) /\ pending[n + k] = r /\ n + k > n
      BY <1>5, <3>1
    <3>3. \A j \in 1..n : j \in 1..Len(pending) /\ j < n + k
      BY <1>1, <1>3, <3>2
    <3>4. \A j \in 1..n : pending[j] # r
      BY <1>4, <3>2, <3>3, Recorded
    <3>5. answer[r] = "open"
      BY <1>4, <3>2 DEF In
    <3> QED
      BY <1>1, <3>4, <3>5
  <2>2. ASSUME answer'[r] = "open" PROVE In(r, q)
    <3>1. answer[r] = "open" /\ ~\E k \in 1..n : pending[k] = r
      BY <1>1, <2>2
    <3>2. PICK k \in 1..Len(pending) : pending[k] = r
      BY <1>4, <3>1 DEF In
    <3>3. k > n
      BY <1>1, <3>1, <3>2
    <3> QED
      BY <1>6, <3>2, <3>3 DEF In
  <2> QED
    BY <2>1, <2>2
<1>8. \A i, j \in 1..Len(q) : i < j => q[i] < q[j]
  <2> TAKE i, j \in 1..Len(q)
  <2> HAVE i < j
  <2>1. n + i < n + j
    BY <1>1
  <2> QED
    BY <1>4, <1>5, <2>1
<1>9. \A p, s \in Records : answer'[p] = "acked" /\ answer'[s] = "open" => p < s
  <2> TAKE p, s \in Records
  <2> HAVE answer'[p] = "acked" /\ answer'[s] = "open"
  <2>1. answer[s] = "open" /\ In(s, q)
    BY <1>1, <1>7
  <2>2. CASE answer[p] = "acked"
    BY <2>1, <2>2 DEF SinkInv
  <2>3. CASE \E k \in 1..n : pending[k] = p
    <3>1. PICK k \in 1..n : pending[k] = p
      BY <2>3
    <3>2. PICK j \in 1..Len(q) : q[j] = s
      BY <2>1 DEF In
    <3>3. k \in 1..Len(pending) /\ n + j \in 1..Len(pending) /\ k < n + j /\ pending[n + j] = s
      BY <1>1, <1>3, <1>5, <3>1, <3>2
    <3> QED
      BY <1>4, <3>1, <3>3
  <2> QED
    BY <1>1, <2>2, <2>3
<1>10. \A p, s \in Records : s < p /\ answer'[p] # "none" => answer'[s] # "none"
  <2>1. \A p \in Records : answer'[p] # "none" <=> answer[p] # "none"
    <3>1. \A k \in 1..n : answer[pending[k]] = "open"
      <4>1. \A k \in 1..n : k \in 1..Len(pending)
        BY <1>1, <1>3
      <4> QED
        BY <1>4, <4>1 DEF In
    <3> QED
      BY <1>1, <3>1
  <2> QED
    BY <2>1 DEF SinkInv
<1>11. \A s \in Records : answer'[s] # "lost"
  BY <1>1 DEF SinkInv
<1>12. link' \in {"connecting", "open", "cut"} /\ link' # "connecting"
  BY <1>1
<1> QED
  BY <1>1, <1>2, <1>3, <1>7, <1>8, <1>9, <1>10, <1>11, <1>12, FlushKeepsSink

LEMMA SinkPreserved ==
  ASSUME TypeOK, SinkInv, SinkStep
  PROVE  SinkInv'
<1>1. ASSUME NEW r \in Records, Sink!Refuse(r) PROVE SinkInv'
  <2>1. /\ answer[r] = "none" /\ \A s \in Records : answer[s] # "none" <=> s < r
    BY <1>1, NextIsLast DEF Sink!Refuse
  <2>2. /\ answer' = [s \in Records |-> IF s = r THEN "refused" ELSE answer[s]]
        /\ UNCHANGED <<pending, sent, failed, closed, writable, link>>
    BY <1>1, SinkTyped DEF Sink!Refuse, Sink!streamVars
  <2>3. \A s \in Records : answer'[s] = "open" <=> In(s, pending)
    BY <2>1, <2>2 DEF SinkInv
  <2>4. \A p, s \in Records : s < p /\ answer'[p] # "none" => answer'[s] # "none"
    BY <2>1, <2>2 DEF SinkInv
  <2> QED
    BY <2>2, <2>3, <2>4 DEF SinkInv, In
<1>2. ASSUME NEW n \in 1..acks, Sink!Data(n) PROVE SinkInv'
  <2>1. CASE n <= sent
    BY <1>2, <2>1, DataKeepsSink
  <2>2. CASE ~(n <= sent)
    <3>1. n > sent
      BY <2>2, SinkTyped
    <3> QED
      BY <1>2, <3>1, FailKeepsSink DEF Sink!Data
  <2> QED
    BY <2>1, <2>2
<1>3. CASE Sink!Connected \/ Sink!Drain
  <2>1. Sink!Flush(pending, sent, TRUE)
    BY <1>3 DEF Sink!Connected, Sink!Drain
  <2>2. /\ link \in {"connecting", "open", "cut"} /\ link' \in {"open", "cut"}
        /\ UNCHANGED <<answer, failed, closed>>
    BY <1>3 DEF Sink!Connected, Sink!Drain
  <2>3. ~failed /\ ~closed
    BY <2>2 DEF SinkInv
  <2>4. pending \in Seq(Records) /\ sent \in 0..Len(pending)
    BY SinkTyped
  <2>5. /\ \A r, s \in Records : s < r /\ answer'[r] # "none" => answer'[s] # "none"
        /\ \A r \in Records : answer'[r] = "open" <=> In(r, pending)
        /\ \A i, j \in 1..Len(pending) : i < j => pending[i] < pending[j]
        /\ \A r, s \in Records : answer'[r] = "acked" /\ answer'[s] = "open" => r < s
        /\ \A r \in Records : answer'[r] # "lost"
    BY <2>2, <2>3 DEF SinkInv
  <2>6. link' = "connecting" => sent = 0 /\ ~TRUE
    BY <2>2
  <2>7. link' \in {"connecting", "open", "cut"} /\ TRUE \in BOOLEAN
    BY <2>2
  <2> QED
    BY <2>1, <2>2, <2>3, <2>4, <2>5, <2>6, <2>7, FlushKeepsSink
<1>4. CASE Sink!Refused \/ \E r \in Records : Sink!Expire(r)
  BY <1>4, FailKeepsSink DEF Sink!Refused, Sink!Expire
<1>5. CASE Sink!Disconnected
  <2>1. link = "cut" /\ link' = "none" /\ writable' = FALSE
    BY <1>5 DEF Sink!Disconnected
  <2>2. CASE Sink!GiveUp
    BY <2>1, <2>2, GiveUpKeepsSink
  <2>3. CASE ~Sink!GiveUp
    <3>1. pending = <<>> /\ UNCHANGED <<answer, pending, sent, failed, closed>>
      BY <1>5, <2>3 DEF Sink!Disconnected
    <3>2. sent = 0
      BY <3>1, SinkTyped
    <3> QED
      BY <2>1, <3>1, <3>2 DEF SinkInv, In
  <2> QED
    BY <2>2, <2>3
<1>6. CASE Sink!Destroyed
  <2>1. /\ link = "dead" /\ link' = "none" /\ writable' = FALSE
        /\ UNCHANGED <<answer, pending, sent, failed, closed>>
    BY <1>6 DEF Sink!Destroyed
  <2>2. pending = <<>>
    BY <2>1 DEF SinkInv
  <2>3. sent = 0
    BY <2>2, SinkTyped
  <2> QED
    BY <2>1, <2>2, <2>3 DEF SinkInv, In
<1>7. CASE Sink!Close
  <2>1. closed' = TRUE /\ link' = (IF link = "none" THEN "none" ELSE "dead") /\ writable' = writable
    BY <1>7 DEF Sink!Close, Sink!Destroy
  <2>2. link' = "none" => ~writable'
    BY <2>1 DEF SinkInv
  <2>3. CASE Sink!GiveUp
    BY <2>1, <2>2, <2>3, GiveUpKeepsSink
  <2>4. CASE ~Sink!GiveUp
    <3>1. pending = <<>> /\ UNCHANGED <<answer, pending, sent, failed>>
      BY <1>7, <2>4 DEF Sink!Close
    <3>2. sent = 0
      BY <3>1, SinkTyped
    <3> QED
      BY <2>1, <2>2, <3>1, <3>2 DEF SinkInv, In
  <2> QED
    BY <2>3, <2>4
<1>8. CASE \E r \in Records : Sink!Send(r)
  BY <1>8, SendKeepsSink
<1> QED
  BY <1>1, <1>2, <1>3, <1>4, <1>5, <1>6, <1>7, <1>8 DEF SinkStep
-----------------------------------------------------------------------------
(***************************************************************************)
(* The stream, when the sink takes a step                                  *)
(***************************************************************************)

\* Of q, done records were written before this step: those that are not durable are on
\* their way, and nothing else of the sink's is.
Written(q, done) ==
  /\ acks' <= done
  /\ \A k \in 1..acks' : q[k] \in Journal!Durable
  /\ \A r \in Records : answer'[r] = "acked" => r \in Journal!Durable
  /\ link' # "open" => wire = <<>>
  /\ \A r \in Records : In(r, batch) \/ In(r, queue) \/ In(r, wire) =>
       \E k \in (acks' + 1)..done : q[k] = r
  /\ \A r \in Records : In(r, journal) => answer'[r] = "acked" \/ \E k \in 1..done : q[k] = r
  /\ link' = "open" =>
       \A k \in (acks' + 1)..done : In(q[k], batch) \/ In(q[k], queue) \/ In(q[k], wire)

LEMMA FlushKeepsStream ==
  ASSUME TypeOK, NEW q \in Seq(Records), NEW done \in 0..Len(q), NEW ready \in BOOLEAN,
         Sink!Flush(q, done, ready), UNCHANGED journalVars, Written(q, done),
         ~failed', acks' \in Nat
  PROVE  StreamInv'
<1>1. /\ pending' = q /\ sent' \in done..Len(q)
      /\ wire' = IF link' = "open" THEN wire \o SubSeq(q, done + 1, sent') ELSE wire
  BY FlushEffect, SinkTyped
<1>2. UNCHANGED <<queue, batch, journal, synced>>
  BY DEF journalVars
<1>3. Journal!Durable' = Journal!Durable
  BY <1>2 DEF Journal!Durable
<1>4. Len(q) \in Nat /\ sent' \in Nat /\ done \in Nat /\ Len(wire) \in Nat /\ wire \in Seq(Records)
  BY <1>1, SinkTyped
<1>9. sent' \in done..Len(q)
  BY <1>1
<1>10. done \in Nat /\ sent' \in Nat
  BY <1>4
<1>11. wire \in Seq(Records)
  BY <1>4
<1>5. link' = "open" =>
        /\ Len(wire') = Len(wire) + (sent' - done)
        /\ \A k \in 1..Len(wire) : wire'[k] = wire[k]
        /\ \A k \in 1..(sent' - done) : wire'[Len(wire) + k] = q[done + k]
  <2> DEFINE more == SubSeq(q, done + 1, sent')
  <2>1. /\ more \in Seq(Records) /\ Len(more) = sent' - done
        /\ \A k \in 1..(sent' - done) : more[k] = q[done + k]
    BY <1>4, <1>9, Slice
  <2>2. link' = "open" => wire' = wire \o more
    BY <1>1
  <2> HIDE DEF more
  <2>4. more \in Seq(Records)
    BY <2>1
  <2>3. /\ Len(wire \o more) = Len(wire) + Len(more)
        /\ \A k \in 1..Len(wire) : (wire \o more)[k] = wire[k]
        /\ \A k \in 1..Len(more) : (wire \o more)[Len(wire) + k] = more[k]
    BY <1>11, <2>4
  <2> QED
    BY <2>1, <2>2, <2>3
<1>6. \A r \in Records : In(r, wire') => In(r, wire) \/ \E k \in (done + 1)..sent' : q[k] = r
  <2> TAKE r \in Records
  <2> HAVE In(r, wire')
  <2>1. CASE link' = "open"
    <3>1. PICK k \in 1..Len(wire') : wire'[k] = r
      BY DEF In
    <3>2. CASE k \in 1..Len(wire)
      BY <1>5, <2>1, <3>1, <3>2 DEF In
    <3>3. CASE k \notin 1..Len(wire)
      <4>1. k - Len(wire) \in 1..(sent' - done) /\ Len(wire) + (k - Len(wire)) = k
        BY <1>1, <1>4, <1>5, <2>1, <3>3
      <4>2. q[done + (k - Len(wire))] = r
        BY <1>5, <2>1, <3>1, <4>1
      <4>3. done + (k - Len(wire)) \in (done + 1)..sent'
        BY <1>1, <1>4, <4>1
      <4> QED
        BY <4>2, <4>3
    <3> QED
      BY <3>2, <3>3
  <2>2. CASE link' # "open"
    BY <1>1, <2>2 DEF In
  <2> QED
    BY <2>1, <2>2
<1>7. ASSUME link' = "open", NEW k \in (done + 1)..sent' PROVE In(q[k], wire')
  <2> DEFINE i == k - done
  <2>1. i \in 1..(sent' - done) /\ done + i = k
    BY <1>10, Shifted
  <2> HIDE DEF i
  <2>2. wire'[Len(wire) + i] = q[done + i]
    BY <1>5, <1>7, <2>1
  <2>3. Len(wire) + i \in 1..Len(wire')
    BY <1>4, <1>5, <1>7, <2>1
  <2>4. wire'[Len(wire) + i] = q[k]
    BY <2>1, <2>2
  <2> QED
    BY <2>3, <2>4 DEF In
<1>8. ASSUME link' = "open", NEW x, In(x, wire) PROVE In(x, wire')
  <2>1. PICK k \in 1..Len(wire) : wire[k] = x
    BY <1>8 DEF In
  <2>2. k \in 1..Len(wire') /\ wire'[k] = x
    <3>1. Len(wire) <= Len(wire') /\ Len(wire') \in Nat
      BY <1>1, <1>4, <1>5, <1>8
    <3> QED
      BY <1>4, <1>5, <1>8, <2>1, <3>1
  <2> QED
    BY <2>2 DEF In
<1>12. acks' <= sent' /\ \A k \in 1..acks' : pending'[k] \in Journal!Durable'
  <2>1. acks' <= done /\ \A k \in 1..acks' : q[k] \in Journal!Durable
    BY DEF Written
  <2> QED
    BY <1>1, <1>3, <1>10, <2>1
<1>13. \A r \in Records : answer'[r] = "acked" => r \in Journal!Durable'
  BY <1>3 DEF Written
<1>14. /\ \A k \in (acks' + 1)..done : k \in (acks' + 1)..sent'
       /\ \A k \in (done + 1)..sent' : k \in (acks' + 1)..sent'
       /\ \A k \in 1..done : k \in 1..sent'
       /\ \A k \in (acks' + 1)..sent' : k \in (acks' + 1)..done \/ k \in (done + 1)..sent'
  <2>1. acks' <= done /\ done <= sent'
    BY <1>9, <1>10 DEF Written
  <2> QED
    BY <1>10, <2>1, Ranges
<1>15. link' # "open" => wire' = <<>>
  BY <1>1 DEF Written
<1>16. \A r \in Records : In(r, batch) \/ In(r, queue) \/ In(r, wire') =>
         \E k \in (acks' + 1)..sent' : q[k] = r
  BY <1>6, <1>14 DEF Written
<1>17. \A r \in Records : In(r, journal) => answer'[r] = "acked" \/ \E k \in 1..sent' : q[k] = r
  BY <1>14 DEF Written
<1>18. link' = "open" =>
         \A k \in (acks' + 1)..sent' : In(q[k], batch) \/ In(q[k], queue) \/ In(q[k], wire')
  BY <1>7, <1>8, <1>14 DEF Written
<1>19. UNCHANGED <<queue, batch, journal>> /\ pending' = q
  BY <1>1, <1>2
<1> QED
  BY <1>12, <1>13, <1>15, <1>16, <1>17, <1>18, <1>19 DEF StreamInv

\* s begins as t does and goes on with the records of q after the first "done".
Continues(s, t, q, done) ==
  /\ Len(t) <= Len(s) /\ done + (Len(s) - Len(t)) <= Len(q)
  /\ \A i \in 1..Len(t) : s[i] = t[i]
  /\ \A i \in 1..(Len(s) - Len(t)) : s[Len(t) + i] = q[done + i]

\* q holds the open records in order, each of them after every acknowledged one.
Pending(q, a) ==
  /\ \A i, j \in 1..Len(q) : i < j => q[i] < q[j]
  /\ \A r \in Records : a[r] = "open" <=> In(r, q)
  /\ \A r, p \in Records : p < r /\ a[r] = "open" => a[p] \in {"open", "acked", "refused"}
  /\ \A r, p \in Records : a[p] = "acked" /\ a[r] = "open" => p < r

\* t holds the first "done" records of q, the acknowledged ones, and no other.
Holds(t, a, q, done) ==
  /\ \A r \in Records : a[r] = "acked" => In(r, t)
  /\ \A k \in 1..done : In(q[k], t)
  /\ \A r \in Records : In(r, t) => a[r] = "acked" \/ \E k \in 1..done : q[k] = r

\* A sound sequence goes on with the next of the open records.
LEMMA SoundContinued ==
  ASSUME NEW s \in Seq(Nat), NEW t \in Seq(Nat), NEW a, Sound(t, a),
         NEW q \in Seq(Records), NEW done \in Nat,
         Continues(s, t, q, done), Pending(q, a), Holds(t, a, q, done)
  PROVE  Sound(s, a)
<1> DEFINE n == Len(t)
<1> SUFFICES ASSUME NEW i \in 1..Len(s), s[i] \in Records
             PROVE  /\ a[s[i]] \in {"open", "acked", "lost"}
                    /\ \A j \in 1..(i - 1) : s[j] \in Records => s[j] < s[i]
                    /\ \A r \in 1..(s[i] - 1) : a[r] = "refused" \/ \E j \in 1..(i - 1) : s[j] = r
  BY DEF Sound
<1>1. /\ n \in Nat /\ n <= Len(s) /\ done + (Len(s) - n) <= Len(q) /\ Len(q) \in Nat /\ Len(s) \in Nat
      /\ \A k \in 1..n : s[k] = t[k]
      /\ \A k \in 1..(Len(s) - n) : s[n + k] = q[done + k]
  <2>1. n \in Nat /\ Len(q) \in Nat /\ Len(s) \in Nat
    OBVIOUS
  <2>2. n <= Len(s) /\ done + (Len(s) - n) <= Len(q)
    BY DEF Continues
  <2>3. /\ \A k \in 1..n : s[k] = t[k]
        /\ \A k \in 1..(Len(s) - n) : s[n + k] = q[done + k]
    BY DEF Continues
  <2> QED
    BY <2>1, <2>2, <2>3
<1>4. n \in Nat /\ Len(q) \in Nat /\ Len(s) \in Nat /\ n <= Len(s)
  BY <1>1
<1>2. CASE i \in 1..n
  <2>1. i \in 1..Len(t) /\ s[i] = t[i] /\ \A j \in 1..(i - 1) : s[j] = t[j]
    BY <1>1, <1>2
  <2>2. /\ a[t[i]] \in {"open", "acked", "lost"}
        /\ \A j \in 1..(i - 1) : t[j] \in Records => t[j] < t[i]
        /\ \A r \in 1..(t[i] - 1) : a[r] = "refused" \/ \E j \in 1..(i - 1) : t[j] = r
    BY <2>1 DEF Sound
  <2>3. \A r \in 1..(s[i] - 1) : a[r] = "refused" \/ \E j \in 1..(i - 1) : s[j] = r
    BY <2>1, <2>2
  <2> QED
    BY <2>1, <2>2, <2>3
<1>3. CASE i \notin 1..n
  <2> DEFINE k == done + (i - n)
  <2>1. i - n \in 1..(Len(s) - n) /\ n + (i - n) = i
    BY <1>1, <1>3
  <2>2. s[i] = q[k]
    BY <1>1, <2>1
  <2>3. k \in 1..Len(q) /\ k > done
    BY <1>1, <2>1
  <2>4. \A j \in 1..(i - 1) : j \notin 1..n => done + (j - n) < k /\ done + (j - n) \in 1..Len(q)
    BY <1>1, <2>1
  <2>5. \A j \in 1..(i - 1) : j \notin 1..n => s[j] = q[done + (j - n)]
    <3> TAKE j \in 1..(i - 1)
    <3> HAVE j \notin 1..n
    <3>1. j - n \in 1..(Len(s) - n) /\ n + (j - n) = j
      BY <1>1
    <3> QED
      BY <1>1, <3>1
  <2>6. \A m \in (done + 1)..(k - 1) : n + (m - done) \in 1..(i - 1) /\ s[n + (m - done)] = q[m]
    <3> TAKE m \in (done + 1)..(k - 1)
    <3>1. m - done \in 1..(Len(s) - n) /\ done + (m - done) = m /\ n + (m - done) \in 1..(i - 1)
      BY <1>1, <2>1
    <3> QED
      BY <1>1, <3>1
  <2> HIDE DEF n, k
  <2>7. a[q[k]] = "open" /\ q[k] \in Records
    BY <2>3 DEF In, Pending
  <2>8. ASSUME NEW j \in 1..(i - 1), s[j] \in Records PROVE s[j] < q[k]
    <3>1. CASE j \in 1..n
      <4>1. In(s[j], t)
        BY <1>1, <3>1 DEF In, n
      <4>2. CASE a[s[j]] = "acked"
        BY <2>7, <2>8, <4>2 DEF Pending
      <4>3. CASE \E m \in 1..done : q[m] = s[j]
        <5>1. PICK m \in 1..done : q[m] = s[j]
          BY <4>3
        <5>2. m \in 1..Len(q) /\ m < k
          BY <1>4, <2>3, <5>1
        <5> QED
          BY <2>3, <5>1, <5>2 DEF Pending
      <4> QED
        BY <2>8, <4>1, <4>2, <4>3 DEF Holds
    <3>2. CASE j \notin 1..n
      BY <2>3, <2>4, <2>5, <3>2 DEF Pending
    <3> QED
      BY <3>1, <3>2
  <2>9. ASSUME NEW r \in 1..(q[k] - 1), a[r] # "refused" PROVE \E j \in 1..(i - 1) : s[j] = r
    <3>1. q[k] \in Nat /\ \A p \in 1..(q[k] - 1) : p \in Records
      BY <2>7, Recorded
    <3>2. r \in Records /\ r < q[k]
      BY <3>1
    <3>3. ASSUME In(r, t) PROVE \E j \in 1..(i - 1) : s[j] = r
      <4>1. PICK j \in 1..n : t[j] = r
        BY <3>3 DEF In, n
      <4>2. j \in 1..(i - 1)
        BY <1>3, <1>4, <4>1
      <4>3. s[j] = r
        BY <1>1, <4>1
      <4> QED
        BY <4>2, <4>3
    <3>4. CASE a[r] = "acked"
      BY <3>2, <3>3, <3>4 DEF Holds
    <3>5. CASE a[r] = "open"
      <4>1. PICK m \in 1..Len(q) : q[m] = r
        BY <3>2, <3>5 DEF In, Pending
      <4>2. ~(k < m) /\ k # m
        BY <2>3, <3>1, <3>2, <4>1 DEF Pending
      <4>3. CASE m \in 1..done
        BY <3>3, <4>1, <4>3 DEF Holds
      <4>4. CASE m \notin 1..done
        <5>1. m \in (done + 1)..(k - 1)
          BY <2>3, <4>2, <4>4
        <5> QED
          BY <2>6, <4>1, <5>1
      <4> QED
        BY <4>3, <4>4
    <3>6. a[r] \in {"open", "acked", "refused"}
      BY <2>7, <3>2 DEF Pending
    <3> QED
      BY <2>9, <3>4, <3>5, <3>6
  <2> QED
    BY <2>2, <2>7, <2>8, <2>9
<1> QED
  BY <1>2, <1>3

LEMMA Prolonged ==
  ASSUME NEW h \in Seq(Nat), NEW w \in Seq(Nat), NEW x \in Seq(Nat)
  PROVE  /\ h \o (w \o x) \in Seq(Nat) /\ Len(h \o (w \o x)) = Len(h \o w) + Len(x)
         /\ \A k \in 1..Len(h \o w) : (h \o (w \o x))[k] = (h \o w)[k]
         /\ \A k \in 1..Len(x) : (h \o (w \o x))[Len(h \o w) + k] = x[k]
<1>1. h \o (w \o x) \in Seq(Nat) /\ Len(h \o (w \o x)) = Len(h \o w) + Len(x)
  OBVIOUS
<1>2. \A k \in 1..Len(h \o w) : (h \o (w \o x))[k] = (h \o w)[k]
  OBVIOUS
<1>3. \A k \in 1..Len(x) : (h \o (w \o x))[Len(h \o w) + k] = x[k]
  OBVIOUS
<1> QED
  BY <1>1, <1>2, <1>3

LEMMA Shortened ==
  ASSUME NEW h \in Seq(Nat), NEW w \in Seq(Nat), NEW x \in Seq(Nat),
         Len(x) <= Len(w), \A k \in 1..Len(x) : x[k] = w[k]
  PROVE  /\ h \o x \in Seq(Nat) /\ h \o w \in Seq(Nat) /\ Len(h \o x) <= Len(h \o w)
         /\ \A k \in 1..Len(h \o x) : (h \o x)[k] = (h \o w)[k]
<1>1. h \o x \in Seq(Nat) /\ h \o w \in Seq(Nat) /\ Len(h \o x) <= Len(h \o w)
  OBVIOUS
<1>2. \A k \in 1..Len(h \o x) : (h \o x)[k] = (h \o w)[k]
  OBVIOUS
<1> QED
  BY <1>1, <1>2

\* What a sink's step may change of its answers.
Answers(a, b) ==
  \A r \in Records : /\ a[r] = "refused" => b[r] = "refused"
                     /\ a[r] \in {"open", "acked", "lost"} => b[r] \in {"open", "acked", "lost"}

LEMMA ShorterWire ==
  ASSUME TypeOK, Sound(Course, answer), Taken' = Taken, Answers(answer, answer'),
         wire' \in Seq(Records), Len(wire') <= Len(wire), \A k \in 1..Len(wire') : wire'[k] = wire[k]
  PROVE  Sound(Course', answer')
<1>1. Taken \in Seq(Nat) /\ wire \in Seq(Nat) /\ wire' \in Seq(Nat)
  BY TakenType, Recorded, SeqMonotonic
<1>2. Course = Taken \o wire /\ Course' = Taken \o wire'
  BY DEF Course
<1>3. /\ Course' \in Seq(Nat) /\ Course \in Seq(Nat) /\ Len(Course') <= Len(Course)
      /\ \A k \in 1..Len(Course') : Course'[k] = Course[k]
  BY <1>1, <1>2, Shortened
<1> DEFINE n == Len(Course')
<1>4. /\ n \in Nat /\ n <= Len(Course') /\ n <= Len(Course)
      /\ \A k \in 1..n : Course'[k] = Course[k]
      /\ \A k \in (n + 1)..Len(Course') : Course'[k] \notin Records
  BY <1>3
<1> HIDE DEF n
<1> QED
  BY <1>3, <1>4, SoundBeginning DEF Answers

LEMMA FlushKeepsSound ==
  ASSUME TypeOK, JournalInv, Sound(Course, answer), UNCHANGED journalVars, Answers(answer, answer'),
         NEW q \in Seq(Records), NEW done \in 0..Len(q), NEW ready \in BOOLEAN,
         Sink!Flush(q, done, ready), Written(q, done), Pending(q, answer'), acks' \in Nat
  PROVE  Sound(Course', answer')
<1>1. /\ sent' \in done..Len(q) /\ wire' \in Seq(Records)
      /\ wire' = IF link' = "open" THEN wire \o SubSeq(q, done + 1, sent') ELSE wire
  BY FlushEffect, SinkTyped
<1>2. CASE link' # "open"
  <2>1. wire' = wire /\ Len(wire) \in Nat
    BY <1>1, <1>2, SinkTyped
  <2>2. Len(wire') <= Len(wire) /\ \A k \in 1..Len(wire') : wire'[k] = wire[k]
    BY <2>1
  <2>3. wire' \in Seq(Records)
    BY <1>1
  <2>4. Taken' = Taken
    BY DEF Taken, Unwritten, journalVars
  <2> QED
    BY <2>2, <2>3, <2>4, ShorterWire
<1>3. CASE link' = "open"
  <2> DEFINE more == SubSeq(q, done + 1, sent')
  <2>1. done \in Nat /\ sent' \in done..Len(q)
    BY <1>1
  <2>2. /\ more \in Seq(Records) /\ Len(more) = sent' - done
        /\ \A k \in 1..(sent' - done) : more[k] = q[done + k]
    BY <2>1, Slice
  <2>3. wire' = wire \o more
    BY <1>1, <1>3
  <2> HIDE DEF more
  <2>4. Taken \in Seq(Nat) /\ wire \in Seq(Nat) /\ more \in Seq(Nat)
    BY <2>2, TakenType, Recorded, SeqMonotonic
  <2>5. Course = Taken \o wire /\ Course' = Taken \o (wire \o more)
    BY <2>3 DEF Course, Taken, Unwritten, journalVars
  <2>6. /\ Course' \in Seq(Nat) /\ Len(Course') = Len(Course) + Len(more)
        /\ \A k \in 1..Len(Course) : Course'[k] = Course[k]
        /\ \A k \in 1..Len(more) : Course'[Len(Course) + k] = more[k]
    <3>1. LET t == Taken \o wire  s == Taken \o (wire \o more)
          IN /\ s \in Seq(Nat) /\ Len(s) = Len(t) + Len(more)
             /\ \A k \in 1..Len(t) : s[k] = t[k]
             /\ \A k \in 1..Len(more) : s[Len(t) + k] = more[k]
      BY <2>4, Prolonged
    <3> QED
      BY <2>5, <3>1
  <2>7. Course \in Seq(Nat) /\ Len(Course) \in Nat
    BY CoursePlaces
  <2>8. Continues(Course', Course, q, done)
    <3>1. Len(Course') - Len(Course) = sent' - done /\ Len(Course) <= Len(Course')
      BY <2>1, <2>2, <2>6, <2>7
    <3>2. done + (sent' - done) <= Len(q)
      BY <2>1
    <3> QED
      BY <2>2, <2>6, <3>1, <3>2 DEF Continues
  <2>9. Sound(Course, answer')
    <3> DEFINE n == Len(Course)
    <3>1. /\ n \in Nat /\ n <= Len(Course)
          /\ \A k \in 1..n : Course[k] = Course[k]
          /\ \A k \in (n + 1)..Len(Course) : Course[k] \notin Records
      BY <2>7
    <3> HIDE DEF n
    <3> QED
      BY <2>7, <3>1, SoundBeginning DEF Answers
  <2>10. Holds(Course, answer', q, done)
    <3>1. \A r \in Records : answer'[r] = "acked" => In(r, Course)
      BY InCourse, DurableIsJournaled DEF Written
    <3>2. /\ \A k \in 1..done : k \in 1..acks' \/ k \in (acks' + 1)..done
          /\ \A k \in (acks' + 1)..done : k \in 1..done
      <4>1. acks' <= done
        BY DEF Written
      <4> QED
        BY <2>1, <4>1, Split
    <3>3. \A k \in 1..done : In(q[k], Course)
      BY <1>3, <3>2, InCourse, DurableIsJournaled DEF Written
    <3>5. \A r \in Records : In(r, Course) => answer'[r] = "acked" \/ \E k \in 1..done : q[k] = r
      BY <3>2, InCourse DEF Written
    <3> QED
      BY <3>1, <3>3, <3>5 DEF Holds
  <2> QED
    BY <2>1, <2>6, <2>7, <2>8, <2>9, <2>10, SoundContinued
<1> QED
  BY <1>2, <1>3

LEMMA NextPending ==
  ASSUME TypeOK', SinkInv', ~failed'
  PROVE  Pending(pending', answer')
<1>1. answer' \in [Records -> {"none", "open", "acked", "lost", "refused"}]
  BY SameRecords DEF TypeOK, Sink!TypeOK
<1>2. /\ \A r, s \in Records : s < r /\ answer'[r] # "none" => answer'[s] # "none"
      /\ \A r \in Records : answer'[r] = "open" <=> In(r, pending')
      /\ \A i, j \in 1..Len(pending') : i < j => pending'[i] < pending'[j]
      /\ \A r, s \in Records : answer'[r] = "acked" /\ answer'[s] = "open" => r < s
      /\ \A r \in Records : answer'[r] # "lost"
  BY DEF SinkInv, In
<1>3. \A r, p \in Records : p < r /\ answer'[r] = "open" => answer'[p] \in {"open", "acked", "refused"}
  BY <1>1, <1>2
<1> QED
  BY <1>2, <1>3 DEF Pending

\* A step of the sink that writes from the record after the first "done" on.
LEMMA FlushKeeps ==
  ASSUME TypeOK, JournalInv, Sound(Course, answer), TypeOK', SinkInv', ~failed', UNCHANGED journalVars,
         Answers(answer, answer'), NEW q \in Seq(Records), NEW done \in 0..Len(q), NEW ready \in BOOLEAN,
         Sink!Flush(q, done, ready), Written(q, done)
  PROVE  StreamInv' /\ Sound(Course', answer')
<1>1. acks' \in Nat
  BY DEF TypeOK, Sink!TypeOK
<1>2. pending' = q
  BY FlushEffect, SinkTyped
<1>3. Pending(q, answer')
  BY <1>2, NextPending
<1>4. StreamInv'
  BY <1>1, FlushKeepsStream
<1>5. Sound(Course', answer')
  BY <1>1, <1>3, FlushKeepsSound
<1> QED
  BY <1>4, <1>5

\* A step of the sink that gives up.
LEMMA GiveUpKeeps ==
  ASSUME TypeOK, Sink!GiveUp, link' # "open",
         \A r \in Records : answer[r] = "acked" => r \in Journal!Durable'
  PROVE  StreamInv' /\ Answers(answer, answer')
<1>1. /\ answer' = [r \in Records |-> IF answer[r] = "open" THEN "lost" ELSE answer[r]]
      /\ sent' = 0 /\ acks' = 0 /\ failed'
  BY GiveUpEffect
<1>2. \A r \in Records : answer'[r] = "acked" => r \in Journal!Durable'
  BY <1>1
<1>3. \A k \in 1..acks' : FALSE
  BY <1>1
<1> QED
  BY <1>1, <1>2, <1>3 DEF StreamInv, Answers

LEMMA GiveUpInPlace ==
  ASSUME TypeOK, StreamInv, Sound(Course, answer), Sink!GiveUp, link' # "open", UNCHANGED journalVars
  PROVE  StreamInv' /\ Sound(Course', answer')
<1>1. \A r \in Records : answer[r] = "acked" => r \in Journal!Durable'
  BY DEF StreamInv, journalVars, Journal!Durable
<1>2. StreamInv' /\ Answers(answer, answer')
  BY <1>1, GiveUpKeeps
<1>3. /\ wire' \in Seq(Records) /\ Len(wire') <= Len(wire)
      /\ \A i \in 1..Len(wire') : wire'[i] = wire[i]
  BY GiveUpEffect
<1>4. Taken' = Taken
  BY DEF Taken, Unwritten, journalVars
<1> QED
  BY <1>2, <1>3, <1>4, ShorterWire

LEMMA SendKeepsStream ==
  ASSUME TypeOK, JournalInv, SinkInv, StreamInv, NEW r \in Records, Sink!Send(r)
  PROVE  /\ Append(pending, r) \in Seq(Records) /\ sent \in 0..Len(Append(pending, r))
         /\ Sink!Flush(Append(pending, r), sent, writable)
         /\ Written(Append(pending, r), sent) /\ ~failed' /\ Answers(answer, answer')
<1> DEFINE q == Append(pending, r)
<1>1. /\ answer[r] = "none" /\ \A s \in Records : answer[s] # "none" <=> s < r
  BY NextIsLast DEF Sink!Send
<1>2. /\ ~failed /\ failed' = failed /\ acks' = acks
      /\ answer' = [s \in Records |-> IF s = r THEN "open" ELSE answer[s]]
      /\ link' = (IF link = "none" THEN "connecting" ELSE link)
      /\ Sink!Flush(q, sent, writable)
  BY SinkTyped DEF Sink!Send
<1>3. /\ q \in Seq(Records) /\ Len(q) = Len(pending) + 1
      /\ \A k \in 1..Len(pending) : q[k] = pending[k]
  BY SinkTyped, Added
<1>4. sent \in Nat /\ acks \in Nat /\ Len(pending) \in Nat /\ acks <= sent /\ sent <= Len(pending)
  BY SinkTyped DEF StreamInv
<1>5. sent \in 0..Len(q)
  BY <1>3, <1>4
<1> HIDE DEF q
<1>6. \A k \in 1..sent : q[k] = pending[k]
  BY <1>3, <1>4
<1>7. (\A k \in 1..acks : k \in 1..sent) /\ \A k \in (acks + 1)..sent : k \in 1..sent
  BY <1>4
<1>8. link' = "open" <=> link = "open"
  BY <1>2
<1>9. \A s \in Records : answer'[s] = "acked" <=> answer[s] = "acked"
  BY <1>1, <1>2
<1>10. Written(q, sent)
  <2>1. acks' <= sent /\ \A k \in 1..acks' : q[k] \in Journal!Durable
    BY <1>2, <1>4, <1>6, <1>7 DEF StreamInv
  <2>2. \A s \in Records : answer'[s] = "acked" => s \in Journal!Durable
    BY <1>9 DEF StreamInv
  <2>3. \A s \in Records : In(s, batch) \/ In(s, queue) \/ In(s, wire) =>
          \E k \in (acks' + 1)..sent : q[k] = s
    BY <1>2, <1>6, <1>7 DEF StreamInv
  <2>4. \A s \in Records : In(s, journal) => answer'[s] = "acked" \/ \E k \in 1..sent : q[k] = s
    BY <1>2, <1>6, <1>9 DEF StreamInv
  <2>5. link' = "open" =>
          \A k \in (acks' + 1)..sent : In(q[k], batch) \/ In(q[k], queue) \/ In(q[k], wire)
    BY <1>2, <1>6, <1>7, <1>8 DEF StreamInv
  <2>6. link' # "open" => wire = <<>>
    BY <1>2, <1>8 DEF StreamInv
  <2> QED
    BY <2>1, <2>2, <2>3, <2>4, <2>5, <2>6 DEF Written
<1>11. Answers(answer, answer')
  BY <1>1, <1>2 DEF Answers
<1> QED
  BY <1>2, <1>3, <1>5, <1>10, <1>11 DEF q

LEMMA DataKeepsStream ==
  ASSUME TypeOK, JournalInv, SinkInv, StreamInv, NEW n \in 1..acks, Sink!Data(n), n <= sent
  PROVE  LET q == SubSeq(pending, n + 1, Len(pending))
         IN /\ q \in Seq(Records) /\ sent - n \in 0..Len(q)
            /\ Sink!Flush(q, sent - n, writable)
            /\ Written(q, sent - n) /\ ~failed' /\ Answers(answer, answer')
<1> DEFINE q == SubSeq(pending, n + 1, Len(pending))
           done == sent - n
<1>1. /\ n \in Nat /\ n <= Len(pending) /\ ~failed /\ UNCHANGED <<failed, link>>
      /\ acks' = acks - n /\ Sink!Flush(q, done, writable)
      /\ answer' = [r \in Records |-> IF \E k \in 1..n : pending[k] = r THEN "acked" ELSE answer[r]]
  BY DataEffect
<1>2. /\ q \in Seq(Records) /\ Len(q) = Len(pending) - n
      /\ \A k \in 1..(Len(pending) - n) : q[k] = pending[n + k]
  <2>1. pending \in Seq(Records) /\ n \in 0..Len(pending)
    BY <1>1, SinkTyped
  <2> QED
    BY <2>1, TakenOff
<1>3. /\ sent \in Nat /\ acks \in Nat /\ Len(pending) \in Nat /\ acks <= sent /\ sent <= Len(pending)
      /\ n \in Nat /\ n <= acks
  BY <1>1, SinkTyped DEF StreamInv
<1>4. done \in 0..Len(q) /\ done \in Nat /\ acks' \in Nat /\ acks' <= done
  BY <1>1, <1>2, <1>3
<1> HIDE DEF q
<1>5. \A k \in 1..done : q[k] = pending[n + k] /\ n + k \in 1..sent
  BY <1>2, <1>3
<1>6. /\ \A k \in 1..acks' : k \in 1..done /\ n + k \in 1..acks
      /\ \A k \in (acks' + 1)..done : k \in 1..done /\ n + k \in (acks + 1)..sent
  BY <1>1, <1>3
<1>7. /\ \A k \in (acks + 1)..sent : k - n \in (acks' + 1)..done /\ n + (k - n) = k
      /\ \A k \in 1..sent : k \in 1..n \/ (k - n \in 1..done /\ n + (k - n) = k)
      /\ \A k \in 1..n : k \in 1..acks
  BY <1>1, <1>3
<1> HIDE DEF done
<1>8. Written(q, done)
  <2>1. acks' <= done /\ \A k \in 1..acks' : q[k] \in Journal!Durable
    BY <1>4, <1>5, <1>6 DEF StreamInv
  <2>2. \A s \in Records : answer'[s] = "acked" => s \in Journal!Durable
    BY <1>1, <1>7 DEF StreamInv
  <2>3. \A s \in Records : In(s, batch) \/ In(s, queue) \/ In(s, wire) =>
          \E k \in (acks' + 1)..done : q[k] = s
    <3> TAKE s \in Records
    <3> HAVE In(s, batch) \/ In(s, queue) \/ In(s, wire)
    <3>1. PICK k \in (acks + 1)..sent : pending[k] = s
      BY <1>1 DEF StreamInv
    <3>2. k - n \in (acks' + 1)..done /\ n + (k - n) = k
      BY <1>7
    <3>3. q[k - n] = pending[n + (k - n)]
      BY <1>5, <1>6, <3>2
    <3>4. q[k - n] = s
      BY <3>1, <3>2, <3>3
    <3> QED
      BY <3>2, <3>4
  <2>4. \A s \in Records : In(s, journal) => answer'[s] = "acked" \/ \E k \in 1..done : q[k] = s
    <3> TAKE s \in Records
    <3> HAVE In(s, journal)
    <3> SUFFICES ASSUME answer'[s] # "acked" PROVE \E k \in 1..done : q[k] = s
      OBVIOUS
    <3>1. answer[s] # "acked" /\ ~\E k \in 1..n : pending[k] = s
      BY <1>1
    <3>2. PICK k \in 1..sent : pending[k] = s
      BY <1>1, <3>1 DEF StreamInv
    <3>3. k - n \in 1..done /\ n + (k - n) = k
      BY <1>7, <3>1, <3>2
    <3>4. q[k - n] = pending[n + (k - n)]
      BY <1>5, <3>3
    <3>5. q[k - n] = s
      BY <3>2, <3>3, <3>4
    <3> QED
      BY <3>3, <3>5
  <2>5. link' = "open" =>
          \A k \in (acks' + 1)..done : In(q[k], batch) \/ In(q[k], queue) \/ In(q[k], wire)
    <3> HAVE link' = "open"
    <3> TAKE k \in (acks' + 1)..done
    <3>1. n + k \in (acks + 1)..sent /\ q[k] = pending[n + k]
      BY <1>5, <1>6
    <3> QED
      BY <1>1, <3>1 DEF StreamInv
  <2>6. link' # "open" => wire = <<>>
    BY <1>1 DEF StreamInv
  <2> QED
    BY <2>1, <2>2, <2>3, <2>4, <2>5, <2>6 DEF Written
<1>9. Answers(answer, answer')
  <2>1. \A k \in 1..n : answer[pending[k]] = "open"
    <3>1. \A k \in 1..n : k \in 1..Len(pending)
      BY <1>3
    <3> QED
      BY <3>1, SinkTyped DEF SinkInv, In
  <2> QED
    BY <1>1, <2>1 DEF Answers
<1> QED
  BY <1>1, <1>2, <1>4, <1>8, <1>9 DEF q, done

LEMMA SinkKeepsStream ==
  ASSUME IInv, TypeOK', SinkInv', SinkStep, UNCHANGED journalVars
  PROVE  StreamInv' /\ Sound(Course', answer')
<1>1. TypeOK /\ JournalInv /\ SinkInv /\ StreamInv /\ Sound(Course, answer)
  BY DEF IInv
<1>2. writable \in BOOLEAN /\ wire \in Seq(Records) /\ Len(wire) \in Nat
  BY <1>1, SinkTyped
<1>3. /\ UNCHANGED <<queue, batch, journal>> /\ Journal!Durable' = Journal!Durable
      /\ Taken' = Taken
  BY DEF journalVars, Journal!Durable, Taken, Unwritten
<1>4. ASSUME UNCHANGED <<pending, sent, failed, wire>>, acks' \in {0, acks}, acks' = acks \/ sent = 0,
             link' # "open", link = "open" => pending = <<>>, Answers(answer, answer'),
             \A r \in Records : answer'[r] = "acked" <=> answer[r] = "acked"
      PROVE  StreamInv' /\ Sound(Course', answer')
  <2>1. ~failed => wire = <<>>
    <3>1. CASE link = "open" /\ ~failed
      <4>1. sent = 0 /\ acks \in Nat
        BY <1>1, <1>4, <3>1, SinkTyped
      <4>2. \A r \in Records : ~In(r, wire)
        BY <1>1, <3>1, <4>1 DEF StreamInv
      <4>3. Len(wire) = 0
        <5>1. wire # <<>> => wire[1] \in Records /\ 1 \in 1..Len(wire)
          BY <1>2
        <5> QED
          BY <1>2, <4>2, <5>1 DEF In
      <4> QED
        BY <1>2, <4>3
    <3>2. CASE link # "open"
      BY <1>1, <3>2 DEF StreamInv
    <3> QED
      BY <3>1, <3>2
  <2>2. acks' = acks \/ (acks' = 0 /\ acks = 0)
    BY <1>1, <1>4, SinkTyped DEF StreamInv
  <2>3. StreamInv'
    BY <1>1, <1>3, <1>4, <2>1, <2>2 DEF StreamInv, In
  <2>4. Sound(Course', answer')
    <3>1. wire' \in Seq(Records) /\ Len(wire') <= Len(wire) /\ \A k \in 1..Len(wire') : wire'[k] = wire[k]
      BY <1>2, <1>4
    <3> QED
      BY <1>1, <1>3, <1>4, <3>1, ShorterWire
  <2> QED
    BY <2>3, <2>4
<1>5. ASSUME NEW r \in Records, Sink!Refuse(r) PROVE StreamInv' /\ Sound(Course', answer')
  <2>1. answer[r] = "none" /\ answer' = [s \in Records |-> IF s = r THEN "refused" ELSE answer[s]]
        /\ UNCHANGED <<pending, sent, failed, link, wire, acks>>
    BY <1>1, <1>5, NextIsLast, SinkTyped DEF Sink!Refuse, Sink!streamVars
  <2>2. /\ Answers(answer, answer')
        /\ \A s \in Records : answer'[s] = "acked" <=> answer[s] = "acked"
    BY <2>1 DEF Answers
  <2>3. StreamInv'
    BY <1>1, <1>3, <2>1, <2>2 DEF StreamInv, In
  <2>4. Sound(Course', answer')
    <3>1. wire' \in Seq(Records) /\ Len(wire') <= Len(wire) /\ \A k \in 1..Len(wire') : wire'[k] = wire[k]
      BY <1>2, <2>1
    <3> QED
      BY <1>1, <1>3, <2>2, <3>1, ShorterWire
  <2> QED
    BY <2>3, <2>4
<1>6. ASSUME Sink!Fail PROVE StreamInv' /\ Sound(Course', answer')
  <2>1. Sink!GiveUp /\ link' # "open"
    BY <1>6 DEF Sink!Fail, Sink!Destroy
  <2> QED
    BY <1>1, <2>1, GiveUpInPlace
<1>7. ASSUME NEW r \in Records, Sink!Send(r) PROVE StreamInv' /\ Sound(Course', answer')
  BY <1>1, <1>2, <1>7, SendKeepsStream, FlushKeeps
<1>8. ASSUME NEW n \in 1..acks, Sink!Data(n) PROVE StreamInv' /\ Sound(Course', answer')
  <2>1. CASE n <= sent
    <3> DEFINE q == SubSeq(pending, n + 1, Len(pending))  done == sent - n
    <3>1. /\ q \in Seq(Records) /\ done \in 0..Len(q) /\ Sink!Flush(q, done, writable)
          /\ Written(q, done) /\ ~failed' /\ Answers(answer, answer')
      BY <1>1, <1>8, <2>1, DataKeepsStream
    <3> HIDE DEF q, done
    <3> QED
      BY <1>1, <1>2, <3>1, FlushKeeps
  <2>2. CASE ~(n <= sent)
    <3>1. n > sent
      BY <1>1, <2>2, SinkTyped
    <3> QED
      BY <1>6, <1>8, <3>1 DEF Sink!Data
  <2> QED
    BY <2>1, <2>2
<1>9. CASE Sink!Connected \/ Sink!Drain
  <2>1. Sink!Flush(pending, sent, TRUE)
    BY <1>9 DEF Sink!Connected, Sink!Drain
  <2>2. /\ \/ link = "connecting" /\ link' = "open"
           \/ link \in {"open", "cut"} /\ link' = link
        /\ UNCHANGED <<answer, failed, closed, acks>>
    BY <1>9 DEF Sink!Connected, Sink!Drain
  <2>3. ~failed /\ ~failed'
    BY <1>1, <2>2 DEF SinkInv
  <2>4. /\ pending \in Seq(Records) /\ sent \in 0..Len(pending) /\ TRUE \in BOOLEAN
        /\ sent \in Nat /\ acks \in Nat /\ acks <= sent
    BY <1>1, SinkTyped DEF StreamInv
  <2>5. link = "connecting" => \A k \in (acks + 1)..sent : FALSE
    <3>1. link = "connecting" => sent = 0
      BY <1>1 DEF SinkInv
    <3> QED
      BY <2>4, <3>1
  <2>6. Written(pending, sent)
    BY <1>1, <2>2, <2>3, <2>4, <2>5 DEF StreamInv, Written
  <2>7. Answers(answer, answer')
    BY <2>2 DEF Answers
  <2> QED
    BY <1>1, <2>1, <2>3, <2>4, <2>6, <2>7, FlushKeeps
<1>10. CASE Sink!Refused \/ \E r \in Records : Sink!Expire(r)
  BY <1>6, <1>10 DEF Sink!Refused, Sink!Expire
<1>11. CASE Sink!Disconnected \/ Sink!Destroyed \/ Sink!Close
  <2>1. link' # "open"
    BY <1>11 DEF Sink!Disconnected, Sink!Destroyed, Sink!Close, Sink!Destroy
  <2>2. CASE Sink!GiveUp
    BY <1>1, <2>1, <2>2, GiveUpInPlace
  <2>3. CASE ~Sink!GiveUp
    <3>1. /\ UNCHANGED <<answer, pending, sent, failed, wire>>
          /\ acks' = acks \/ (acks' = 0 /\ pending = <<>>)
          /\ pending = <<>> \/ link = "dead"
      BY <1>11, <2>3 DEF Sink!Disconnected, Sink!Destroyed, Sink!Close
    <3>2. pending = <<>> => sent = 0
      BY <1>1, SinkTyped
    <3>3. Answers(answer, answer')
      BY <3>1 DEF Answers
    <3> QED
      BY <1>4, <2>1, <3>1, <3>2, <3>3
  <2> QED
    BY <2>2, <2>3
<1> QED
  BY <1>5, <1>7, <1>8, <1>9, <1>10, <1>11 DEF SinkStep
-----------------------------------------------------------------------------
(***************************************************************************)
(* The course, when the collector takes a step                             *)
(***************************************************************************)

\* s is t, place by place.
Same(s, t) == s \in Seq(Nat) /\ t \in Seq(Nat) /\ Len(s) = Len(t) /\ \A k \in 1..Len(t) : s[k] = t[k]

LEMMA SoundSame ==
  ASSUME NEW s, NEW t, NEW a, Same(s, t), Sound(t, a)
  PROVE  Sound(s, a)
<1> DEFINE n == Len(t)
<1>1. /\ s \in Seq(Nat) /\ t \in Seq(Nat) /\ n \in Nat /\ n <= Len(s) /\ n <= Len(t)
      /\ \A k \in 1..n : s[k] = t[k]
      /\ \A k \in (n + 1)..Len(s) : s[k] \notin Records
  BY DEF Same
<1> HIDE DEF n
<1> QED
  BY <1>1, SoundBeginning

Parts(s, f, q, w) ==
  /\ s \in Seq(Nat)
  /\ Len(f) \in Nat /\ Len(q) \in Nat /\ Len(w) \in Nat /\ Len(s) = Len(f) + Len(q) + Len(w)
  /\ \A k \in 1..Len(f) : s[k] = f[k]
  /\ \A k \in 1..Len(q) : s[Len(f) + k] = q[k]
  /\ \A k \in 1..Len(w) : s[Len(f) + Len(q) + k] = w[k]

LEMMA ThreeParts ==
  ASSUME NEW f \in Seq(Nat), NEW q \in Seq(Nat), NEW w \in Seq(Nat)
  PROVE  Parts((f \o q) \o w, f, q, w)
<1> DEFINE s == (f \o q) \o w
<1>1. /\ s \in Seq(Nat)
      /\ Len(f) \in Nat /\ Len(q) \in Nat /\ Len(w) \in Nat /\ Len(s) = Len(f) + Len(q) + Len(w)
  OBVIOUS
<1>2. (\A k \in 1..Len(f) : s[k] = f[k]) /\ \A k \in 1..Len(q) : s[Len(f) + k] = q[k]
  OBVIOUS
<1>3. \A k \in 1..Len(w) : s[Len(f) + Len(q) + k] = w[k]
  OBVIOUS
<1> QED
  BY <1>1, <1>2, <1>3 DEF Parts

\* The first record of one part becomes the last of the part before it.
LEMMA HandedOn ==
  ASSUME NEW s, NEW t, NEW f, NEW x, NEW y, NEW q, NEW w, Parts(s, f, x, y), Parts(t, f, q, w),
         Len(x) = Len(q) + 1, Len(w) = Len(y) + 1, x[Len(q) + 1] = w[1],
         \A k \in 1..Len(q) : x[k] = q[k], \A k \in 1..Len(y) : y[k] = w[k + 1]
  PROVE  Same(s, t)
<1> DEFINE l == Len(f)  m == Len(q)  n == Len(y)
<1>1. /\ l \in Nat /\ m \in Nat /\ n \in Nat /\ s \in Seq(Nat) /\ t \in Seq(Nat)
      /\ Len(s) = l + (m + 1) + n /\ Len(t) = l + m + (n + 1)
      /\ \A k \in 1..l : s[k] = f[k] /\ t[k] = f[k]
      /\ \A k \in 1..(m + 1) : s[l + k] = x[k]
      /\ \A k \in 1..m : t[l + k] = q[k] /\ x[k] = q[k]
      /\ \A k \in 1..n : s[l + (m + 1) + k] = y[k] /\ y[k] = w[k + 1]
      /\ \A k \in 1..(n + 1) : t[l + m + k] = w[k]
      /\ x[m + 1] = w[1]
  BY DEF Parts
<1> HIDE DEF l, m, n
<1>2. \A k \in 1..Len(t) : s[k] = t[k]
  <2> TAKE k \in 1..Len(t)
  <2>1. CASE k \in 1..l
    BY <1>1, <2>1
  <2>2. CASE k \in (l + 1)..(l + m)
    <3>1. k - l \in 1..m /\ k - l \in 1..(m + 1) /\ l + (k - l) = k
      BY <1>1, <2>2
    <3>2. s[l + (k - l)] = t[l + (k - l)]
      BY <1>1, <3>1
    <3> QED
      BY <3>1, <3>2
  <2>3. CASE k = l + m + 1
    <3>1. m + 1 \in 1..(m + 1) /\ 1 \in 1..(n + 1) /\ l + (m + 1) = k /\ l + m + 1 = k
      BY <1>1, <2>3
    <3>2. s[l + (m + 1)] = w[1]
      BY <1>1, <3>1
    <3>3. t[l + m + 1] = w[1]
      BY <1>1, <3>1
    <3> QED
      BY <3>1, <3>2, <3>3
  <2>4. CASE k \in (l + m + 2)..(l + m + 1 + n)
    <3> DEFINE i == k - l - m - 1
    <3>1. i \in 1..n /\ i + 1 \in 1..(n + 1) /\ l + (m + 1) + i = k /\ l + m + (i + 1) = k
      BY <1>1, <2>4
    <3> HIDE DEF i
    <3>2. s[l + (m + 1) + i] = t[l + m + (i + 1)]
      BY <1>1, <3>1
    <3> QED
      BY <3>1, <3>2
  <2>5. k \in 1..(l + m + (n + 1))
    BY <1>1
  <2> QED
    BY <1>1, <2>1, <2>2, <2>3, <2>4, <2>5
<1>3. Len(s) = Len(t)
  BY <1>1
<1> QED
  BY <1>1, <1>2, <1>3 DEF Same

\* A beginning of the queue is made the batch.
LEMMA Divided ==
  ASSUME NEW s, NEW t, NEW f, NEW g, NEW x, NEW y, NEW q, NEW w,
         Parts(s, g, y, w), Parts(t, f, q, w), Len(x) \in Nat,
         Len(g) = Len(f) + Len(x), Len(q) = Len(x) + Len(y),
         \A k \in 1..Len(f) : g[k] = f[k], \A k \in 1..Len(x) : g[Len(f) + k] = x[k],
         \A k \in 1..Len(x) : x[k] = q[k], \A k \in 1..Len(y) : y[k] = q[Len(x) + k]
  PROVE  Same(s, t)
<1> DEFINE l == Len(f)  m == Len(x)  n == Len(y)  o == Len(w)
<1>1. /\ l \in Nat /\ m \in Nat /\ n \in Nat /\ o \in Nat /\ s \in Seq(Nat) /\ t \in Seq(Nat)
      /\ Len(s) = (l + m) + n + o /\ Len(t) = l + (m + n) + o
      /\ \A k \in 1..(l + m) : s[k] = g[k]
      /\ \A k \in 1..l : t[k] = f[k] /\ g[k] = f[k]
      /\ \A k \in 1..m : g[l + k] = x[k] /\ x[k] = q[k]
      /\ \A k \in 1..(m + n) : t[l + k] = q[k]
      /\ \A k \in 1..n : s[(l + m) + k] = y[k] /\ y[k] = q[m + k]
      /\ \A k \in 1..o : s[(l + m) + n + k] = w[k] /\ t[l + (m + n) + k] = w[k]
  BY DEF Parts
<1> HIDE DEF l, m, n, o
<1>2. \A k \in 1..Len(t) : s[k] = t[k]
  <2> TAKE k \in 1..Len(t)
  <2>1. CASE k \in 1..l
    <3>1. k \in 1..(l + m)
      BY <1>1, <2>1
    <3> QED
      BY <1>1, <2>1, <3>1
  <2>2. CASE k \in (l + 1)..(l + m)
    <3>1. k - l \in 1..m /\ k - l \in 1..(m + n) /\ l + (k - l) = k /\ k \in 1..(l + m)
      BY <1>1, <2>2
    <3>2. g[l + (k - l)] = t[l + (k - l)]
      BY <1>1, <3>1
    <3> QED
      BY <1>1, <3>1, <3>2
  <2>3. CASE k \in (l + m + 1)..(l + m + n)
    <3> DEFINE i == k - l - m
    <3>1. i \in 1..n /\ m + i \in 1..(m + n) /\ (l + m) + i = k /\ l + (m + i) = k
      BY <1>1, <2>3
    <3> HIDE DEF i
    <3>2. s[(l + m) + i] = t[l + (m + i)]
      BY <1>1, <3>1
    <3> QED
      BY <3>1, <3>2
  <2>4. CASE k \in (l + m + n + 1)..(l + m + n + o)
    <3> DEFINE i == k - l - m - n
    <3>1. i \in 1..o /\ (l + m) + n + i = k /\ l + (m + n) + i = k
      BY <1>1, <2>4
    <3> HIDE DEF i
    <3>2. s[(l + m) + n + i] = t[l + (m + n) + i]
      BY <1>1, <3>1
    <3> QED
      BY <3>1, <3>2
  <2>5. k \in 1..(l + (m + n) + o)
    BY <1>1
  <2> QED
    BY <1>1, <2>1, <2>2, <2>3, <2>4, <2>5
<1>3. Len(s) = Len(t)
  BY <1>1
<1> QED
  BY <1>1, <1>2, <1>3 DEF Same

\* What the collector has written, or is about to.
LEMMA FilePlaces ==
  ASSUME TypeOK
  PROVE  /\ journal \o Unwritten \in Seq(Nat) /\ Len(journal \o Unwritten) \in Nat
         /\ Len(journal \o Unwritten) = Len(journal) + Len(Unwritten)
         /\ Len(journal \o Unwritten) <= Len(Course)
         /\ \A i \in 1..Len(journal \o Unwritten) : (journal \o Unwritten)[i] = Course[i]
<1> DEFINE file == journal \o Unwritten
<1>1. journal \in Seq(Nat) /\ Unwritten \in Seq(Nat) /\ queue \in Seq(Nat) /\ wire \in Seq(Nat)
  BY JournalTyped, CoursePlaces
<1>2. file \in Seq(Nat) /\ Len(file) \in Nat /\ Len(file) = Len(journal) + Len(Unwritten)
  BY <1>1
<1>3. Course = (file \o queue) \o wire
  BY DEF Course, Taken
<1> HIDE DEF file
<1>4. Parts(Course, file, queue, wire)
  BY <1>1, <1>2, <1>3, ThreeParts
<1>5. Len(file) <= Len(Course) /\ \A i \in 1..Len(file) : file[i] = Course[i]
  BY <1>2, <1>4 DEF Parts
<1> QED
  BY <1>2, <1>5 DEF file

\* The collector stops: nothing is on its way any more, and of the file a beginning is
\* left, perhaps with a partial record.
LEMMA StoppedSound ==
  ASSUME TypeOK, Sound(Course, answer), Answers(answer, answer'),
         step' = "idle", queue' = <<>>, wire' = <<>>, journal' \in Seq(Nat),
         NEW n \in 0..Len(journal \o Unwritten), n <= Len(journal'),
         \A i \in 1..n : journal'[i] = (journal \o Unwritten)[i],
         \A i \in (n + 1)..Len(journal') : journal'[i] = Journal!Torn
  PROVE  Sound(Course', answer')
<1>1. Course' = journal'
  <2>1. Course' = ((journal' \o <<>>) \o <<>>) \o <<>>
    BY DEF Course, Taken, Unwritten
  <2>2. journal' \o <<>> = journal'
    OBVIOUS
  <2> QED
    BY <2>1, <2>2
<1>2. Course \in Seq(Nat) /\ n \in Nat /\ n <= Len(Course)
  BY FilePlaces, CoursePlaces
<1>3. \A i \in 1..n : journal'[i] = Course[i]
  <2>1. Len(journal \o Unwritten) \in Nat
    BY FilePlaces
  <2>2. \A i \in 1..n : i \in 1..Len(journal \o Unwritten)
    BY <2>1
  <2> QED
    BY <2>2, FilePlaces
<1>4. \A i \in (n + 1)..Len(journal') : journal'[i] \notin Records
  BY Recorded DEF Journal!Torn
<1> QED
  BY <1>1, <1>2, <1>3, <1>4, SoundBeginning DEF Answers

LEMMA BreakSound ==
  ASSUME TypeOK, Sound(Course, answer), Journal!Break, UNCHANGED <<answer, journal>>
  PROVE  Sound(Course', answer')
<1>1. step' = "idle" /\ queue' = <<>> /\ wire' = <<>>
  BY DEF Journal!Break, Journal!Forget, Journal!Cut
<1> DEFINE n == Len(journal)
<1>2. journal \in Seq(Nat) /\ n \in Nat /\ Unwritten \in Seq(Nat) /\ Len(Unwritten) \in Nat
  BY JournalTyped, CoursePlaces
<1>3. n \in 0..Len(journal \o Unwritten) /\ \A i \in 1..n : journal[i] = (journal \o Unwritten)[i]
  BY <1>2, FilePlaces
<1>4. \A i \in (n + 1)..Len(journal) : FALSE
  BY <1>2
<1>5. Answers(answer, answer')
  BY DEF Answers
<1> HIDE DEF n
<1>6. n <= Len(journal') /\ journal' \in Seq(Nat) /\ journal' = journal
  BY <1>2 DEF n
<1> QED
  BY <1>1, <1>3, <1>4, <1>5, <1>6, StoppedSound

LEMMA PartialSound ==
  ASSUME TypeOK, Sound(Course, answer), step = "writing", NEW appended \in Journal!Partial,
         journal' = journal \o appended, step' = "idle", queue' = <<>>, wire' = <<>>, UNCHANGED answer
  PROVE  Sound(Course', answer')
<1>1. /\ appended \in Seq(Nat)
      /\ \E n \in 0..Len(batch) :
           /\ n <= Len(appended) /\ \A i \in 1..n : appended[i] = batch[i]
           /\ \A i \in (n + 1)..Len(appended) : i = Len(appended) /\ appended[i] = Journal!Torn
  BY PartialEffect, JournalTyped
<1>2. PICK m \in 0..Len(batch) :
        /\ m <= Len(appended) /\ \A i \in 1..m : appended[i] = batch[i]
        /\ \A i \in (m + 1)..Len(appended) : appended[i] = Journal!Torn
  BY <1>1
<1>3. journal \in Seq(Nat) /\ batch \in Seq(Nat) /\ Len(journal) \in Nat /\ Len(batch) \in Nat
  BY JournalTyped
<1>4. Unwritten = batch
  BY DEF Unwritten
<1>5. /\ journal' \in Seq(Nat) /\ Len(journal') = Len(journal) + Len(appended) /\ Len(appended) \in Nat
      /\ \A i \in 1..Len(journal) : journal'[i] = journal[i]
      /\ \A i \in 1..Len(appended) : journal'[Len(journal) + i] = appended[i]
  BY <1>1, <1>3
<1>6. /\ Len(journal \o batch) = Len(journal) + Len(batch)
      /\ \A i \in 1..Len(journal) : (journal \o batch)[i] = journal[i]
      /\ \A i \in 1..Len(batch) : (journal \o batch)[Len(journal) + i] = batch[i]
  BY <1>3
<1> DEFINE n == Len(journal) + m
<1>7. n \in 0..Len(journal \o batch) /\ n <= Len(journal')
  BY <1>2, <1>3, <1>5, <1>6
<1>8. \A i \in 1..n : journal'[i] = (journal \o batch)[i]
  <2> TAKE i \in 1..n
  <2>1. CASE i \in 1..Len(journal)
    BY <1>5, <1>6, <2>1
  <2>2. CASE i \notin 1..Len(journal)
    <3> DEFINE k == i - Len(journal)
    <3>1. k \in 1..m /\ k \in 1..Len(appended) /\ k \in 1..Len(batch) /\ Len(journal) + k = i
      BY <1>2, <1>3, <1>5, <2>2
    <3> HIDE DEF k
    <3>2. journal'[Len(journal) + k] = (journal \o batch)[Len(journal) + k]
      BY <1>2, <1>5, <1>6, <3>1
    <3> QED
      BY <3>1, <3>2
  <2> QED
    BY <2>1, <2>2
<1>9. \A i \in (n + 1)..Len(journal') : journal'[i] = Journal!Torn
  <2> TAKE i \in (n + 1)..Len(journal')
  <2> DEFINE k == i - Len(journal)
  <2>1. k \in (m + 1)..Len(appended) /\ k \in 1..Len(appended) /\ Len(journal) + k = i
    BY <1>2, <1>3, <1>5
  <2> HIDE DEF k
  <2>2. journal'[Len(journal) + k] = Journal!Torn
    BY <1>2, <1>5, <2>1
  <2> QED
    BY <2>1, <2>2
<1>10. Answers(answer, answer')
  BY DEF Answers
<1> HIDE DEF n
<1>11. /\ n \in 0..Len(journal \o Unwritten)
       /\ \A i \in 1..n : journal'[i] = (journal \o Unwritten)[i]
  BY <1>4, <1>7, <1>8
<1> QED
  BY <1>5, <1>7, <1>9, <1>10, <1>11, StoppedSound

LEMMA JournalStepSound ==
  ASSUME TypeOK, JournalInv, Sound(Course, answer), JournalStep, UNCHANGED sinkVars
  PROVE  Sound(Course', answer')
<1>1. answer' = answer /\ Answers(answer, answer')
  BY DEF Answers, sinkVars
<1>2. /\ journal \in Seq(Nat) /\ queue \in Seq(Nat) /\ batch \in Seq(Nat)
      /\ Unwritten \in Seq(Nat) /\ wire \in Seq(Nat) /\ wire \in Seq(Records)
  BY JournalTyped, CoursePlaces, SinkTyped
<1>3. ASSUME Same(Course', Course) PROVE Sound(Course', answer')
  BY <1>1, <1>3, SoundSame
<1>4. ASSUME Course' = Course PROVE Sound(Course', answer')
  BY <1>1, <1>4
<1>5. ASSUME Journal!Cut, Taken' = Taken PROVE Sound(Course', answer')
  <2>1. wire' \in Seq(Records) /\ Len(wire') = 0
    BY <1>5, CutEffect
  <2>2. Len(wire') <= Len(wire) /\ \A k \in 1..Len(wire') : wire'[k] = wire[k]
    BY <1>2, <2>1
  <2> QED
    BY <1>1, <1>5, <2>1, <2>2, ShorterWire
<1>6. CASE Journal!Start \/ Journal!Exit
  <2>1. UNCHANGED <<journal, batch, step, queue, wire>>
    BY <1>6 DEF Journal!Start, Journal!Exit
  <2> QED
    BY <1>4, <2>1 DEF Course, Taken, Unwritten
<1>7. CASE Journal!IdleTimeout \/ Journal!Stop
  <2>1. UNCHANGED <<journal, batch, step, queue>> /\ Journal!Cut
    BY <1>7 DEF Journal!IdleTimeout, Journal!Stop, Journal!journalVars
  <2>2. Taken' = Taken
    BY <2>1 DEF Taken, Unwritten
  <2> QED
    BY <1>5, <2>1, <2>2
<1>8. CASE Journal!Receive
  <2>1. CASE ~healthy \/ Len(queue) + Len(batch) >= QueueLimit
    <3>1. UNCHANGED <<journal, batch, step, queue>> /\ Journal!Cut
      BY <1>8, <2>1 DEF Journal!Receive
    <3>2. Taken' = Taken
      BY <3>1 DEF Taken, Unwritten
    <3> QED
      BY <1>5, <3>1, <3>2
  <2>2. CASE ~(~healthy \/ Len(queue) + Len(batch) >= QueueLimit)
    <3>1. /\ wire # <<>> /\ queue' = Append(queue, Head(wire)) /\ wire' = Tail(wire)
          /\ step' = Journal!Wake /\ UNCHANGED <<batch, journal>>
      BY <1>8, <2>2 DEF Journal!Receive
    <3>2. Unwritten' = Unwritten /\ journal' = journal
      BY <3>1 DEF Unwritten, Journal!Wake
    <3> DEFINE f == journal \o Unwritten
    <3>3. f \in Seq(Nat) /\ Course = (f \o queue) \o wire /\ Course' = (f \o queue') \o wire'
      BY <1>2, <3>2 DEF Course, Taken
    <3> HIDE DEF f
    <3>4. /\ queue' \in Seq(Nat) /\ Len(queue') = Len(queue) + 1 /\ queue'[Len(queue) + 1] = wire[1]
          /\ \A k \in 1..Len(queue) : queue'[k] = queue[k]
      BY <1>2, <3>1
    <3>5. /\ wire' \in Seq(Nat) /\ Len(wire) = Len(wire') + 1
          /\ \A k \in 1..Len(wire') : wire'[k] = wire[k + 1]
      BY <1>2, <3>1
    <3>6. Parts(Course', f, queue', wire') /\ Parts(Course, f, queue, wire)
      BY <1>2, <3>3, <3>4, <3>5, ThreeParts
    <3>7. Same(Course', Course)
      BY <3>4, <3>5, <3>6, HandedOn
    <3> QED
      BY <1>3, <3>7
  <2> QED
    BY <2>1, <2>2
<1>9. ASSUME NEW r \in Foreign, Journal!ReceiveForeign(r) PROVE Sound(Course', answer')
  <2>1. /\ queue' = Append(queue, r) /\ step' = Journal!Wake /\ UNCHANGED <<batch, journal, wire>>
    BY <1>9 DEF Journal!ReceiveForeign
  <2>2. Unwritten' = Unwritten /\ journal' = journal
    BY <2>1 DEF Unwritten, Journal!Wake
  <2> DEFINE f == journal \o Unwritten
  <2>3. f \in Seq(Nat) /\ Course = (f \o queue) \o wire /\ Course' = (f \o queue') \o wire
    BY <1>2, <2>1, <2>2 DEF Course, Taken
  <2> HIDE DEF f
  <2>4. r \in Nat /\ r \notin Records
    BY Recorded
  <2>5. /\ queue' \in Seq(Nat) /\ Len(queue') = Len(queue) + 1 /\ queue'[Len(queue) + 1] = r
        /\ \A k \in 1..Len(queue) : queue'[k] = queue[k]
    BY <1>2, <2>1, <2>4
  <2>6. Parts(Course', f, queue', wire) /\ Parts(Course, f, queue, wire)
    BY <1>2, <2>3, <2>5, ThreeParts
  <2> DEFINE l == Len(f)  m == Len(queue)  o == Len(wire)  n == l + (m + 1)
  <2>7. /\ l \in Nat /\ m \in Nat /\ o \in Nat /\ Course \in Seq(Nat) /\ Course' \in Seq(Nat)
        /\ Len(Course) = l + m + o /\ Len(Course') = l + (m + 1) + o
        /\ \A k \in 1..l : Course'[k] = f[k] /\ Course[k] = f[k]
        /\ \A k \in 1..(m + 1) : Course'[l + k] = queue'[k]
        /\ \A k \in 1..m : Course[l + k] = queue[k] /\ queue'[k] = queue[k]
        /\ \A k \in 1..o : Course'[l + (m + 1) + k] = wire[k] /\ Course[l + m + k] = wire[k]
        /\ queue'[m + 1] = r
    BY <2>5, <2>6 DEF Parts
  <2> HIDE DEF l, m, o
  <2>8. n \in 1..Len(Course') /\ Len(Course') = Len(Course) + 1
    BY <2>7
  <2>9. Course'[n] \notin Records
    <3>1. m + 1 \in 1..(m + 1)
      BY <2>7
    <3> QED
      BY <2>4, <2>7, <3>1
  <2>10. \A i \in 1..(n - 1) : Course'[i] = Course[i]
    <3> TAKE i \in 1..(n - 1)
    <3>1. CASE i \in 1..l
      BY <2>7, <3>1
    <3>2. CASE i \notin 1..l
      <4> DEFINE k == i - l
      <4>1. k \in 1..m /\ k \in 1..(m + 1) /\ l + k = i
        BY <2>7, <3>2
      <4> HIDE DEF k
      <4>2. Course'[l + k] = Course[l + k]
        BY <2>7, <4>1
      <4> QED
        BY <4>1, <4>2
    <3> QED
      BY <3>1, <3>2
  <2>11. \A i \in n..Len(Course) : Course'[i + 1] = Course[i]
    <3> TAKE i \in n..Len(Course)
    <3> DEFINE k == i - l - m
    <3>1. k \in 1..o /\ l + (m + 1) + k = i + 1 /\ l + m + k = i
      BY <2>7
    <3> HIDE DEF k
    <3>2. Course'[l + (m + 1) + k] = Course[l + m + k]
      BY <2>7, <3>1
    <3> QED
      BY <3>1, <3>2
  <2> HIDE DEF n
  <2> QED
    BY <1>1, <2>7, <2>8, <2>9, <2>10, <2>11, SoundInsertion
<1>10. CASE Journal!Break /\ UNCHANGED journal
  BY <1>1, <1>10, BreakSound
<1>11. CASE Journal!Gather
  <2> DEFINE n == Journal!Smaller(BatchSize, Len(queue))
  <2>1. CASE Len(journal) + n > MaxJournal
    BY <1>10, <1>11, <2>1 DEF Journal!Gather
  <2>2. CASE ~(Len(journal) + n > MaxJournal)
    <3>1. /\ batch' = SubSeq(queue, 1, n) /\ queue' = SubSeq(queue, n + 1, Len(queue))
          /\ step' = "writing" /\ step = "gather" /\ UNCHANGED <<journal, wire>>
      BY <1>11, <2>2 DEF Journal!Gather
    <3>2. n \in 0..Len(queue)
      BY <1>2, Limits DEF Journal!Smaller
    <3> HIDE DEF n
    <3>3. /\ batch' \in Seq(Nat) /\ Len(batch') = n /\ \A k \in 1..n : batch'[k] = queue[k]
          /\ queue' \in Seq(Nat) /\ Len(queue') = Len(queue) - n
          /\ \A k \in 1..(Len(queue) - n) : queue'[k] = queue[n + k]
      BY <1>2, <3>1, <3>2, TakenOff
    <3>4. Course = (journal \o queue) \o wire
      <4>1. Course = ((journal \o <<>>) \o queue) \o wire
        BY <3>1 DEF Course, Taken, Unwritten
      <4>2. journal \o <<>> = journal
        BY <1>2
      <4> QED
        BY <4>1, <4>2
    <3> DEFINE g == journal \o batch'
    <3>5. Course' = (g \o queue') \o wire
      BY <3>1 DEF Course, Taken, Unwritten
    <3>6. /\ g \in Seq(Nat) /\ Len(g) = Len(journal) + Len(batch')
          /\ \A k \in 1..Len(journal) : g[k] = journal[k]
          /\ \A k \in 1..Len(batch') : g[Len(journal) + k] = batch'[k]
      <4>1. journal \in Seq(Nat) /\ batch' \in Seq(Nat)
        BY <1>2, <3>3
      <4> QED
        BY <4>1, Joined
    <3> HIDE DEF g
    <3>7. Parts(Course', g, queue', wire) /\ Parts(Course, journal, queue, wire)
      BY <1>2, <3>3, <3>4, <3>5, <3>6, ThreeParts
    <3>8. Len(queue) = Len(batch') + Len(queue') /\ Len(batch') \in Nat
      BY <1>2, <3>2, <3>3
    <3>9. Same(Course', Course)
      BY <3>3, <3>6, <3>7, <3>8, Divided
    <3> QED
      BY <1>3, <3>9
  <2> QED
    BY <2>1, <2>2
<1>12. CASE Journal!Write
  <2>1. /\ step = "writing" /\ step' = "syncing" /\ journal' = journal \o batch
        /\ UNCHANGED <<queue, wire>>
    BY <1>12 DEF Journal!Write
  <2>2. (journal \o batch) \o <<>> = journal \o batch
    BY <1>2
  <2>3. Course' = Course
    BY <2>1, <2>2 DEF Course, Taken, Unwritten
  <2> QED
    BY <1>4, <2>3
<1>13. CASE Journal!WriteFails
  BY <1>1, <1>13, PartialSound DEF Journal!WriteFails, Journal!Break, Journal!Forget, Journal!Cut
<1>14. CASE Journal!SyncFails
  BY <1>10, <1>14 DEF Journal!SyncFails
<1>15. CASE Journal!Sync
  <2>1. step = "syncing" /\ step' \in {"idle", "gather"} /\ UNCHANGED <<queue, journal>>
    BY <1>15 DEF Journal!Sync
  <2>2. Taken' = Taken
    BY <2>1 DEF Taken, Unwritten
  <2>3. CASE Journal!Cut
    BY <1>5, <2>2, <2>3
  <2>4. CASE wire' = wire
    BY <1>4, <2>2, <2>4 DEF Course
  <2> QED
    BY <1>15, <2>3, <2>4 DEF Journal!Sync, Journal!Acknowledge
<1>16. CASE Journal!Kill
  <2>1. step' = "idle" /\ queue' = <<>> /\ wire' = <<>>
    BY <1>16 DEF Journal!Kill, Journal!Forget, Journal!Cut
  <2>2. CASE step = "writing"
    BY <1>1, <1>16, <2>1, <2>2, PartialSound DEF Journal!Kill
  <2>3. CASE step # "writing"
    <3>1. journal' = journal \o <<>>
      BY <1>16, <2>3 DEF Journal!Kill
    <3>2. journal' = journal
      BY <1>2, <3>1
    <3> DEFINE n == Len(journal)
    <3>3. n \in 0..Len(journal \o Unwritten) /\ n <= Len(journal')
      BY <1>2, <3>2
    <3>4. \A i \in 1..n : journal'[i] = (journal \o Unwritten)[i]
      BY <1>2, <3>2
    <3>5. (\A i \in (n + 1)..Len(journal') : journal'[i] = Journal!Torn) /\ journal' \in Seq(Nat)
      BY <1>2, <3>2
    <3> HIDE DEF n
    <3> QED
      BY <1>1, <2>1, <3>3, <3>4, <3>5, StoppedSound
  <2> QED
    BY <2>2, <2>3
<1> QED
  BY <1>6, <1>7, <1>8, <1>9, <1>11, <1>12, <1>13, <1>14, <1>15, <1>16 DEF JournalStep

LEMMA PowerLossSound ==
  ASSUME TypeOK, JournalInv, Sound(Course, answer), Answers(answer, answer'), Journal!PowerLoss, wire' = <<>>
  PROVE  Sound(Course', answer')
<1> DEFINE file == journal \o Unwritten
<1>1. journal \in Seq(Nat) /\ batch \in Seq(Nat) /\ synced \in Nat /\ synced <= Len(journal)
      /\ Unwritten \in Seq(Nat)
  BY JournalTyped, CoursePlaces
<1>2. (IF step = "writing" THEN journal \o batch ELSE journal) = file
  <2>1. journal \o <<>> = journal
    BY <1>1
  <2> QED
    BY <2>1 DEF Unwritten
<1>3. journal' \in Journal!Survivors(file)
  BY <1>2 DEF Journal!PowerLoss
<1>4. file \in Seq(Nat) /\ Len(file) \in Nat /\ Len(journal) <= Len(file) /\ Len(journal) \in Nat
  BY <1>1, FilePlaces
<1> HIDE DEF file
<1>5. synced <= Len(file)
  BY <1>1, <1>4
<1>9. /\ journal' \in Seq(Nat)
      /\ \E n \in synced..Len(file) :
           /\ n <= Len(journal') /\ \A i \in 1..n : journal'[i] = file[i]
           /\ \A i \in (n + 1)..Len(journal') :
                i = Len(journal') /\ journal'[i] = Journal!Torn /\ n < Len(file)
  BY <1>1, <1>3, <1>4, <1>5, SurvivorsEffect
<1>6. PICK n \in synced..Len(file) :
        /\ n <= Len(journal') /\ \A i \in 1..n : journal'[i] = file[i]
        /\ \A i \in (n + 1)..Len(journal') : journal'[i] = Journal!Torn
  BY <1>9
<1>7. n \in 0..Len(file)
  BY <1>1, <1>4
<1>8. step' = "idle" /\ queue' = <<>>
  BY DEF Journal!PowerLoss, Journal!Forget
<1> QED
  BY <1>6, <1>7, <1>8, <1>9, StoppedSound DEF file
-----------------------------------------------------------------------------
(***************************************************************************)
(* The stream, when the collector takes a step                             *)
(***************************************************************************)
LEMMA InEmpty ==
  \A x : ~In(x, <<>>)
  BY DEF In

LEMMA InAdded ==
  ASSUME NEW s \in Seq(Nat), NEW y \in Nat
  PROVE  \A x : In(x, Append(s, y)) <=> In(x, s) \/ x = y
<1>1. /\ Len(Append(s, y)) = Len(s) + 1 /\ Append(s, y)[Len(s) + 1] = y /\ Len(s) \in Nat
      /\ \A k \in 1..Len(s) : Append(s, y)[k] = s[k]
  OBVIOUS
<1> DEFINE t == Append(s, y)  n == Len(s)
<1>2. Len(t) = n + 1 /\ t[n + 1] = y /\ n \in Nat /\ \A k \in 1..n : t[k] = s[k]
  BY <1>1
<1> HIDE DEF t, n
<1>3. (\A k \in 1..n : k \in 1..(n + 1)) /\ n + 1 \in 1..(n + 1)
      /\ \A k \in 1..(n + 1) : k \in 1..n \/ k = n + 1
  BY <1>2
<1>4. \A x : In(x, t) <=> (\E k \in 1..n : s[k] = x) \/ x = y
  BY <1>2, <1>3 DEF In
<1> QED
  BY <1>4 DEF In, t, n

LEMMA InHandedOn ==
  ASSUME NEW w \in Seq(Nat), w # <<>>
  PROVE  \A x : In(x, w) <=> x = Head(w) \/ In(x, Tail(w))
<1> DEFINE n == Len(Tail(w))  t == Tail(w)
<1>1. /\ n \in Nat /\ Len(w) = n + 1 /\ w[1] = Head(w)
      /\ \A k \in 1..n : t[k] = w[k + 1]
  OBVIOUS
<1>2. Len(t) = n
  OBVIOUS
<1> HIDE DEF t, n
<1>3. /\ 1 \in 1..(n + 1) /\ \A k \in 1..n : k + 1 \in 1..(n + 1)
      /\ \A k \in 1..(n + 1) : k = 1 \/ (k - 1 \in 1..n /\ (k - 1) + 1 = k)
  BY <1>1
<1>4. ASSUME NEW x, In(x, w) PROVE x = Head(w) \/ In(x, t)
  <2>1. PICK k \in 1..(n + 1) : w[k] = x
    BY <1>1, <1>4 DEF In
  <2>2. CASE k = 1
    BY <1>1, <2>1, <2>2
  <2>3. CASE k - 1 \in 1..n /\ (k - 1) + 1 = k
    <3>1. t[k - 1] = w[(k - 1) + 1]
      BY <1>1, <2>3
    <3>2. t[k - 1] = x
      BY <2>1, <2>3, <3>1
    <3> QED
      BY <1>2, <2>3, <3>2 DEF In
  <2> QED
    BY <1>3, <2>2, <2>3
<1>5. ASSUME NEW x, x = Head(w) \/ In(x, t) PROVE In(x, w)
  BY <1>1, <1>2, <1>3, <1>5 DEF In
<1> QED
  BY <1>4, <1>5 DEF t

LEMMA InDivided ==
  ASSUME NEW q, NEW x, NEW y, Len(x) \in Nat, Len(y) \in Nat, Len(q) = Len(x) + Len(y),
         \A k \in 1..Len(x) : x[k] = q[k], \A k \in 1..Len(y) : y[k] = q[Len(x) + k]
  PROVE  \A z : In(z, q) <=> In(z, x) \/ In(z, y)
<1> DEFINE m == Len(x)  n == Len(y)
<1>1. /\ m \in Nat /\ n \in Nat /\ Len(q) = m + n
      /\ \A k \in 1..m : x[k] = q[k]
      /\ \A k \in 1..n : y[k] = q[m + k]
  OBVIOUS
<1> HIDE DEF m, n
<1>2. /\ \A k \in 1..m : k \in 1..(m + n)
      /\ \A k \in 1..n : m + k \in 1..(m + n)
      /\ \A k \in 1..(m + n) : k \in 1..m \/ (k - m \in 1..n /\ m + (k - m) = k)
  BY <1>1
<1>3. ASSUME NEW z, In(z, q) PROVE (\E k \in 1..m : x[k] = z) \/ \E k \in 1..n : y[k] = z
  <2>1. PICK k \in 1..(m + n) : q[k] = z
    BY <1>1, <1>3 DEF In
  <2>2. CASE k \in 1..m
    BY <1>1, <2>1, <2>2
  <2>3. CASE k - m \in 1..n /\ m + (k - m) = k
    <3>1. y[k - m] = q[m + (k - m)]
      BY <1>1, <2>3
    <3>2. y[k - m] = z
      BY <2>1, <2>3, <3>1
    <3> QED
      BY <2>3, <3>2
  <2> QED
    BY <1>2, <2>2, <2>3
<1>4. ASSUME NEW z, (\E k \in 1..m : x[k] = z) \/ \E k \in 1..n : y[k] = z PROVE In(z, q)
  <2>1. CASE \E k \in 1..m : x[k] = z
    BY <1>1, <1>2, <2>1 DEF In
  <2>2. CASE \E k \in 1..n : y[k] = z
    BY <1>1, <1>2, <2>2 DEF In
  <2> QED
    BY <1>4, <2>1, <2>2
<1> QED
  BY <1>3, <1>4 DEF In, m, n

LEMMA DurableKept ==
  ASSUME TypeOK, synced <= synced', synced' \in Nat, \A k \in 1..synced : journal'[k] = journal[k]
  PROVE  \A x \in Journal!Durable : x \in Journal!Durable'
<1>1. synced \in Nat
  BY JournalTyped
<1>2. \A k \in 1..synced : k \in 1..synced'
  BY <1>1
<1> QED
  BY <1>2 DEF Journal!Durable

Sending == {r \in Records : In(r, batch) \/ In(r, queue) \/ In(r, wire)}

\* A step of the collector that acknowledges nothing: what it has and reads stays, all
\* of it while the connection stands, and only what is in the batch is written.
LEMMA MoveKeepsStream ==
  ASSUME TypeOK, StreamInv, UNCHANGED sinkVars, acks' = acks,
         \A x \in Journal!Durable : x \in Journal!Durable',
         Sending' \subseteq Sending,
         \A r \in Records : In(r, journal') => In(r, journal) \/ In(r, batch),
         ~failed /\ link' # "open" => wire' = <<>> \/ (link # "open" /\ wire' = wire),
         link' = "open" => link = "open" /\ Sending \subseteq Sending'
  PROVE  StreamInv'
<1>1. /\ pending \in Seq(Records) /\ sent \in Nat /\ acks \in Nat /\ sent <= Len(pending)
      /\ acks <= sent /\ Len(pending) \in Nat
  BY SinkTyped DEF StreamInv
<1>2. UNCHANGED <<answer, pending, sent, failed>>
  BY DEF sinkVars
<1>3. \A r \in Records : /\ r \in Sending <=> In(r, batch) \/ In(r, queue) \/ In(r, wire)
                         /\ r \in Sending' <=> In(r, batch') \/ In(r, queue') \/ In(r, wire')
  BY DEF Sending
<1>4. \A k \in (acks + 1)..sent : k \in 1..sent /\ pending[k] \in Records
  BY <1>1
<1>5. acks' <= sent' /\ \A k \in 1..acks' : pending'[k] \in Journal!Durable'
  BY <1>1, <1>2 DEF StreamInv
<1>6. \A r \in Records : answer'[r] = "acked" => r \in Journal!Durable'
  BY <1>2 DEF StreamInv
<1>7. ~failed => \A r \in Records : r \in Sending => \E k \in (acks + 1)..sent : pending[k] = r
  BY <1>3 DEF StreamInv
<1>8. ~failed => \A r \in Records : r \in Sending' => \E k \in (acks + 1)..sent : pending[k] = r
  BY <1>7
<1>9. ~failed => \A r \in Records : In(r, journal') =>
        answer[r] = "acked" \/ \E k \in 1..sent : pending[k] = r
  <2> HAVE ~failed
  <2> TAKE r \in Records
  <2> HAVE In(r, journal')
  <2>1. CASE In(r, journal)
    BY <2>1 DEF StreamInv
  <2>2. CASE In(r, batch)
    BY <1>3, <1>4, <1>7, <2>2
  <2> QED
    BY <2>1, <2>2
<1>10. link' = "open" => \A k \in (acks + 1)..sent : pending[k] \in Sending'
  <2>1. link = "open" => \A k \in (acks + 1)..sent : pending[k] \in Sending
    BY <1>3, <1>4 DEF StreamInv
  <2> QED
    BY <2>1
<1>11. ~failed => (link' # "open" => wire' = <<>>)
  BY DEF StreamInv
<1>12. link' = "open" =>
         \A k \in (acks + 1)..sent :
           In(pending[k], batch') \/ In(pending[k], queue') \/ In(pending[k], wire')
  BY <1>3, <1>4, <1>10
<1>13. ~failed => \A r \in Records : In(r, batch') \/ In(r, queue') \/ In(r, wire') =>
         \E k \in (acks + 1)..sent : pending[k] = r
  BY <1>3, <1>8
<1> QED
  BY <1>2, <1>5, <1>6, <1>9, <1>11, <1>12, <1>13 DEF StreamInv

\* The collector gives up, or is killed: nothing is on its way any more.
LEMMA StopKeepsStream ==
  ASSUME TypeOK, StreamInv, UNCHANGED sinkVars, Journal!Forget, Journal!Cut, synced' = synced,
         NEW s \in Seq(Nat), journal' = journal \o s,
         \A r \in Records : In(r, s) => In(r, batch)
  PROVE  StreamInv'
<1>1. queue' = <<>> /\ batch' = <<>> /\ wire' = <<>> /\ acks' = acks /\ link' # "open"
  BY DEF Journal!Forget, Journal!Cut
<1>2. Sending' = {}
  BY <1>1, InEmpty DEF Sending
<1>3. journal \in Seq(Nat) /\ synced \in Nat /\ synced <= Len(journal) /\ Len(journal) \in Nat
  BY JournalTyped
<1>4. /\ Len(journal \o s) = Len(journal) + Len(s)
      /\ \A k \in 1..Len(journal) : (journal \o s)[k] = journal[k]
      /\ \A k \in 1..Len(s) : (journal \o s)[Len(journal) + k] = s[k]
      /\ Len(s) \in Nat
  BY <1>3, Joined
<1>5. \A k \in 1..synced : k \in 1..Len(journal)
  BY <1>3
<1>6. \A x \in Journal!Durable : x \in Journal!Durable'
  <2>1. synced <= synced' /\ synced' \in Nat /\ \A k \in 1..synced : journal'[k] = journal[k]
    BY <1>3, <1>4, <1>5
  <2> QED
    BY <2>1, DurableKept
<1>7. \A x : In(x, journal') <=> In(x, journal) \/ In(x, s)
  <2>1. /\ Len(journal') = Len(journal) + Len(s)
        /\ \A k \in 1..Len(journal) : journal[k] = journal'[k]
        /\ \A k \in 1..Len(s) : s[k] = journal'[Len(journal) + k]
    BY <1>4
  <2> QED
    BY <1>3, <1>4, <2>1, InDivided
<1> QED
  BY <1>1, <1>2, <1>6, <1>7, MoveKeepsStream

\* The batch stands in the journal before all that is still to come.
LEMMA BatchFirst ==
  ASSUME TypeOK, JournalInv, Sound(Course, answer), step = "syncing"
  PROVE  \A r, p \in Records : In(r, batch) /\ (In(p, queue) \/ In(p, wire)) => r < p
<1> SUFFICES ASSUME NEW r \in Records, NEW p \in Records, In(r, batch), In(p, queue) \/ In(p, wire)
             PROVE  r < p
  OBVIOUS
<1> DEFINE j == Len(journal)  u == Len(Unwritten)  q == Len(queue)  w == Len(wire)
<1>1. j \in Nat /\ u \in Nat /\ q \in Nat /\ w \in Nat /\ Len(Course) = j + u + q + w
  BY CoursePlaces, JournalTyped, SinkTyped
<1>2. /\ \A k \in 1..j : Course[k] = journal[k]
      /\ \A k \in 1..q : Course[j + u + k] = queue[k]
      /\ \A k \in 1..w : Course[j + u + q + k] = wire[k]
  BY CoursePlaces
<1>3. PICK i \in 1..j : journal[i] = r
  BY DEF JournalInv, In
<1>4. Course[i] = r
  BY <1>2, <1>3
<1>5. \E n \in 1..Len(Course) : n > j /\ Course[n] = p
  <2>1. CASE In(p, queue)
    <3>1. PICK k \in 1..q : queue[k] = p
      BY <2>1 DEF In
    <3>2. j + u + k \in 1..Len(Course) /\ j + u + k > j
      BY <1>1
    <3> QED
      BY <1>2, <3>1, <3>2
  <2>2. CASE In(p, wire)
    <3>1. PICK k \in 1..w : wire[k] = p
      BY <2>2 DEF In
    <3>2. j + u + q + k \in 1..Len(Course) /\ j + u + q + k > j
      BY <1>1
    <3> QED
      BY <1>2, <3>1, <3>2
  <2> QED
    BY <2>1, <2>2
<1>6. PICK n \in 1..Len(Course) : n > j /\ Course[n] = p
  BY <1>5
<1>7. i \in 1..(n - 1)
  BY <1>1, <1>3, <1>6
<1> QED
  BY <1>4, <1>6, <1>7 DEF Sound

\* A set of consecutive numbers from the first on is an interval.
LEMMA FromTheFirst ==
  ASSUME NEW l \in Nat, NEW n \in Nat, NEW T, T \subseteq (l + 1)..n,
         \A k \in T : \A j \in (l + 1)..k : j \in T
  PROVE  IsFiniteSet(T) /\ Cardinality(T) \in Nat /\ T = (l + 1)..(l + Cardinality(T))
<1>1. IsFiniteSet(T)
  <2>1. IsFiniteSet((l + 1)..n)
    BY FS_Interval
  <2> QED
    BY <2>1, FS_Subset
<1> DEFINE m == Cardinality(T)
<1>2. m \in Nat
  BY <1>1, FS_CardinalityType
<1>3. \A k \in T : k - l <= m
  <2> TAKE k \in T
  <2>1. k \in Int /\ l + 1 \in Int /\ k >= l + 1
    OBVIOUS
  <2>2. Cardinality((l + 1)..k) = k - l
    <3>1. Cardinality((l + 1)..k) = IF l + 1 > k THEN 0 ELSE k - (l + 1) + 1
      BY <2>1, FS_Interval
    <3> QED
      BY <2>1, <3>1
  <2>3. (l + 1)..k \in SUBSET T
    OBVIOUS
  <2>4. Cardinality((l + 1)..k) <= m
    BY <1>1, <2>3, FS_Subset
  <2> QED
    BY <2>2, <2>4
<1> HIDE DEF m
<1>4. T \in SUBSET ((l + 1)..(l + m))
  BY <1>2, <1>3
<1>5. IsFiniteSet((l + 1)..(l + m)) /\ Cardinality((l + 1)..(l + m)) = m
  <2>1. l + 1 \in Int /\ l + m \in Int
    BY <1>2
  <2>2. /\ IsFiniteSet((l + 1)..(l + m))
        /\ Cardinality((l + 1)..(l + m)) = IF l + 1 > l + m THEN 0 ELSE (l + m) - (l + 1) + 1
    BY <2>1, FS_Interval
  <2> QED
    BY <1>2, <2>2
<1>6. (l + 1)..(l + m) = T
  BY <1>4, <1>5, FS_Subset DEF m
<1> QED
  BY <1>1, <1>2, <1>6 DEF m

\* The records of the batch are the oldest pending ones without an acknowledgement.
LEMMA OwedAreOldest ==
  ASSUME TypeOK, JournalInv, SinkInv, StreamInv, Sound(Course, answer), step = "syncing", link = "open"
  PROVE  /\ acks + Journal!Owed <= sent /\ Journal!Owed \in Nat
         /\ \A k \in (acks + 1)..(acks + Journal!Owed) : In(pending[k], batch)
         /\ \A k \in (acks + 1)..sent : In(pending[k], batch) => k <= acks + Journal!Owed
<1> DEFINE own == {k \in 1..Len(batch) : batch[k] \notin Foreign}
           T == {k \in (acks + 1)..sent : In(pending[k], batch)}
<1>1. /\ sent \in Nat /\ acks \in Nat /\ acks <= sent /\ ~failed /\ sent <= Len(pending)
      /\ Len(pending) \in Nat /\ \A k \in 1..Len(pending) : pending[k] \in Records
  BY SinkTyped DEF StreamInv, SinkInv
<1>2. /\ \A k \in (acks + 1)..sent :
           In(pending[k], batch) \/ In(pending[k], queue) \/ In(pending[k], wire)
      /\ \A r \in Records : In(r, batch) => \E k \in (acks + 1)..sent : pending[k] = r
      /\ \A i, j \in 1..Len(pending) : i < j => pending[i] < pending[j]
      /\ \A k \in (acks + 1)..sent : k \in 1..Len(pending)
  BY <1>1 DEF StreamInv, SinkInv
<1>3. \A k \in T : \A j \in (acks + 1)..k : j \in T
  <2> TAKE k \in T
  <2> TAKE j \in (acks + 1)..k
  <2>1. j \in (acks + 1)..sent /\ k \in (acks + 1)..sent
    BY <1>1
  <2>2. CASE j = k
    BY <2>2
  <2>3. CASE j < k
    <3>1. pending[j] < pending[k] /\ pending[j] \in Records /\ pending[k] \in Records
      BY <1>1, <1>2, <2>1, <2>3
    <3>2. ~(In(pending[j], queue) \/ In(pending[j], wire))
      <4>1. pending[k] \in Nat /\ pending[j] \in Nat
        BY <3>1, RecordsAreNumbers
      <4>2. ~(pending[k] < pending[j])
        BY <3>1, <4>1
      <4> QED
        BY <3>1, <4>2, BatchFirst
    <3> QED
      BY <1>2, <2>1, <3>2
  <2> QED
    BY <1>1, <2>1, <2>2, <2>3
<1>4. T \subseteq (acks + 1)..sent
  OBVIOUS
<1>5. IsFiniteSet(T) /\ Cardinality(T) \in Nat /\ T = (acks + 1)..(acks + Cardinality(T))
  BY <1>1, <1>3, <1>4, FromTheFirst
<1>6. IsFiniteSet(own) /\ Journal!Owed = Cardinality(own)
  BY OwedType
<1>7. \A k \in own : k \in 1..Len(batch) /\ batch[k] \in Records
  BY DEF JournalInv
<1>8. \A k \in own : \E j \in T : pending[j] = batch[k]
  <2> TAKE k \in own
  <2>1. batch[k] \in Records /\ In(batch[k], batch)
    BY <1>7 DEF In
  <2>2. PICK j \in (acks + 1)..sent : pending[j] = batch[k]
    BY <1>2, <2>1
  <2> QED
    BY <2>1, <2>2
<1>9. \A j \in T : \E k \in own : batch[k] = pending[j]
  <2> TAKE j \in T
  <2>1. PICK k \in 1..Len(batch) : batch[k] = pending[j]
    BY DEF In
  <2>2. pending[j] \in Records
    BY <1>1, <1>2
  <2> QED
    BY <2>1, <2>2, Recorded
<1>10. \A i, k \in own : batch[i] = batch[k] => i = k
  <2> TAKE i, k \in own
  <2> HAVE batch[i] = batch[k]
  <2>1. i \in 1..Len(batch) /\ k \in 1..Len(batch) /\ batch[i] \in Records /\ batch[k] \in Records
    BY <1>7
  <2>2. Len(batch) \in Nat
    BY JournalTyped
  <2>5. batch[i] \in Nat
    BY <2>1, RecordsAreNumbers
  <2>3. ~(batch[i] < batch[k]) /\ ~(batch[k] < batch[i])
    BY <2>5
  <2>4. ~(i < k) /\ ~(k < i)
    BY <2>1, <2>3 DEF JournalInv
  <2> QED
    BY <2>1, <2>2, <2>4
<1>11. \A i, k \in T : pending[i] = pending[k] => i = k
  <2> TAKE i, k \in T
  <2> HAVE pending[i] = pending[k]
  <2>1. i \in 1..Len(pending) /\ k \in 1..Len(pending) /\ pending[i] \in Nat
    BY <1>1, <1>2, Recorded
  <2>2. ~(pending[i] < pending[k]) /\ ~(pending[k] < pending[i])
    BY <2>1
  <2>3. ~(i < k) /\ ~(k < i)
    BY <1>2, <2>1, <2>2
  <2> QED
    BY <1>1, <2>1, <2>3
<1> HIDE DEF own, T
<1>12. Cardinality(T) = Cardinality(own)
  <2> DEFINE f == [k \in own |-> CHOOSE j \in T : pending[j] = batch[k]]
  <2>1. \A k \in own : f[k] \in T /\ pending[f[k]] = batch[k]
    BY <1>8
  <2>2. f \in [own -> T]
    BY <2>1
  <2> HIDE DEF f
  <2>3. \A i, k \in own : f[i] = f[k] => i = k
    BY <1>10, <2>1
  <2>4. \A j \in T : \E k \in own : f[k] = j
    BY <1>9, <1>11, <2>1
  <2>5. f \in Bijection(own, T)
    BY <2>2, <2>3, <2>4, Fun_IsBij
  <2>6. ExistsBijection(own, T)
    BY <2>5, Fun_ExistsBij
  <2> QED
    BY <1>6, <2>6, FS_Bijection
<1> DEFINE m == Cardinality(T)
<1>13. Journal!Owed = m /\ m \in Nat /\ T = (acks + 1)..(acks + m)
  BY <1>5, <1>6, <1>12
<1> HIDE DEF m
<1>14. acks + m <= sent
  <2>1. CASE m = 0
    BY <1>1, <2>1
  <2>2. CASE m # 0
    <3>1. acks + m \in (acks + 1)..(acks + m)
      BY <1>1, <1>13, <2>2
    <3>2. acks + m \in (acks + 1)..sent
      BY <1>4, <1>13, <3>1
    <3> QED
      BY <1>1, <3>2
  <2> QED
    BY <2>1, <2>2
<1>15. \A k \in (acks + 1)..(acks + m) : In(pending[k], batch)
  BY <1>13 DEF T
<1>16. \A k \in (acks + 1)..sent : In(pending[k], batch) => k <= acks + m
  <2>1. \A k \in (acks + 1)..sent : In(pending[k], batch) => k \in (acks + 1)..(acks + m)
    BY <1>13 DEF T
  <2> QED
    BY <2>1
<1> QED
  BY <1>13, <1>14, <1>15, <1>16

\* What a sync acknowledges is durable then, and it is what the sink waits for first.
LEMMA AcknowledgeKeepsStream ==
  ASSUME TypeOK, JournalInv, SinkInv, StreamInv, Sound(Course, answer), step = "syncing", link = "open",
         UNCHANGED sinkVars, UNCHANGED <<queue, journal, link, wire>>, batch' = <<>>,
         synced' = Len(journal), acks' = acks + Journal!Owed
  PROVE  StreamInv'
<1> DEFINE m == Journal!Owed
<1>1. /\ acks + m <= sent /\ m \in Nat
      /\ \A k \in (acks + 1)..(acks + m) : In(pending[k], batch)
      /\ \A k \in (acks + 1)..sent : In(pending[k], batch) => k <= acks + m
  BY OwedAreOldest
<1> HIDE DEF m
<1>2. /\ sent \in Nat /\ acks \in Nat /\ acks <= sent /\ ~failed /\ sent <= Len(pending)
      /\ Len(pending) \in Nat /\ \A k \in 1..Len(pending) : pending[k] \in Records
      /\ acks' = acks + m
  BY SinkTyped DEF StreamInv, SinkInv, m
<1>3. UNCHANGED <<answer, pending, sent, failed>>
  BY DEF sinkVars
<1>4. \A x : In(x, journal) => x \in Journal!Durable'
  <2>1. Journal!Durable' = {journal[k] : k \in 1..Len(journal)}
    BY DEF Journal!Durable
  <2> QED
    BY <2>1 DEF In
<1>5. \A x \in Journal!Durable : In(x, journal)
  BY DurableIsJournaled
<1>6. \A x : In(x, batch) => In(x, journal)
  BY DEF JournalInv, In
<1>7. acks' <= sent' /\ \A k \in 1..acks' : pending'[k] \in Journal!Durable'
  <2>1. acks' <= sent'
    BY <1>1, <1>2, <1>3
  <2>2. \A k \in 1..(acks + m) : k \in 1..acks \/ k \in (acks + 1)..(acks + m)
    BY <1>1, <1>2
  <2>3. \A k \in 1..(acks + m) : pending[k] \in Journal!Durable'
    BY <1>1, <1>4, <1>5, <1>6, <2>2 DEF StreamInv
  <2> QED
    BY <1>2, <1>3, <2>1, <2>3
<1>8. \A r \in Records : answer'[r] = "acked" => r \in Journal!Durable'
  BY <1>3, <1>4, <1>5 DEF StreamInv
<1>9. \A r \in Records : In(r, queue) \/ In(r, wire) => \E k \in (acks' + 1)..sent : pending[k] = r
  <2> TAKE r \in Records
  <2> HAVE In(r, queue) \/ In(r, wire)
  <2>1. PICK k \in (acks + 1)..sent : pending[k] = r
    BY <1>2 DEF StreamInv
  <2>2. ~In(r, batch)
    <3>1. ~(r < r)
      BY RecordsAreNumbers
    <3> QED
      BY <3>1, BatchFirst
  <2>3. k \notin (acks + 1)..(acks + m)
    BY <1>1, <2>1, <2>2
  <2>4. k \in (acks' + 1)..sent
    BY <1>1, <1>2, <2>3
  <2> QED
    BY <2>1, <2>4
<1>10. \A k \in (acks' + 1)..sent : In(pending[k], queue) \/ In(pending[k], wire)
  <2> TAKE k \in (acks' + 1)..sent
  <2>1. k \in (acks + 1)..sent /\ ~(k <= acks + m)
    BY <1>1, <1>2
  <2> QED
    BY <1>1, <2>1 DEF StreamInv
<1>11. ~failed => \A r \in Records : In(r, batch') \/ In(r, queue') \/ In(r, wire') =>
         \E k \in (acks' + 1)..sent' : pending'[k] = r
  BY <1>3, <1>9, InEmpty
<1>12. link' = "open" => \A k \in (acks' + 1)..sent' :
         In(pending'[k], batch') \/ In(pending'[k], queue') \/ In(pending'[k], wire')
  BY <1>3, <1>10
<1>13. ~failed => \A r \in Records : In(r, journal') =>
         answer'[r] = "acked" \/ \E k \in 1..sent' : pending'[k] = r
  BY <1>3 DEF StreamInv
<1> QED
  BY <1>3, <1>7, <1>8, <1>11, <1>12, <1>13 DEF StreamInv

\* Some of a write that did not end is in the journal.
LEMMA PartialKeepsStream ==
  ASSUME TypeOK, StreamInv, UNCHANGED sinkVars, Journal!Forget, Journal!Cut, synced' = synced,
         NEW appended \in Journal!Partial, journal' = journal \o appended
  PROVE  StreamInv'
<1>1. /\ appended \in Seq(Nat)
      /\ \E n \in 0..Len(batch) :
           /\ n <= Len(appended) /\ \A i \in 1..n : appended[i] = batch[i]
           /\ \A i \in (n + 1)..Len(appended) : i = Len(appended) /\ appended[i] = Journal!Torn
  BY PartialEffect, JournalTyped
<1>2. PICK n \in 0..Len(batch) :
        /\ n <= Len(appended) /\ \A i \in 1..n : appended[i] = batch[i]
        /\ \A i \in (n + 1)..Len(appended) : appended[i] = Journal!Torn
  BY <1>1
<1>3. Journal!Torn \notin Records
  BY Recorded DEF Journal!Torn
<1>4. \A r \in Records : In(r, appended) => In(r, batch)
  <2> TAKE r \in Records
  <2> HAVE In(r, appended)
  <2>1. PICK i \in 1..Len(appended) : appended[i] = r
    BY DEF In
  <2>2. i \notin (n + 1)..Len(appended)
    BY <1>2, <1>3, <2>1
  <2>3. Len(batch) \in Nat
    BY JournalTyped
  <2>4. i \in 1..n /\ i \in 1..Len(batch)
    BY <2>2, <2>3
  <2> QED
    BY <1>2, <2>1, <2>4 DEF In
<1> QED
  BY <1>1, <1>4, StopKeepsStream

LEMMA BreakKeepsStream ==
  ASSUME TypeOK, StreamInv, UNCHANGED sinkVars, Journal!Forget, Journal!Cut, synced' = synced,
         journal' = journal
  PROVE  StreamInv'
<1>1. journal = journal \o <<>> /\ <<>> \in Seq(Nat)
  BY JournalTyped
<1> QED
  BY <1>1, InEmpty, StopKeepsStream

LEMMA JournalKeepsStream ==
  ASSUME TypeOK, JournalInv, SinkInv, StreamInv, Sound(Course, answer), JournalStep, UNCHANGED sinkVars
  PROVE  StreamInv'
<1>1. /\ journal \in Seq(Nat) /\ queue \in Seq(Nat) /\ batch \in Seq(Nat)
      /\ wire \in Seq(Nat) /\ wire \in Seq(Records)
      /\ synced \in Nat /\ synced <= Len(journal) /\ Len(journal) \in Nat
  BY JournalTyped, CoursePlaces, SinkTyped
<1>2. ASSUME UNCHANGED <<journal, acks>>, synced' \in {synced, Len(journal)}, Sending' \subseteq Sending,
             ~failed /\ link' # "open" => wire' = <<>> \/ (link # "open" /\ wire' = wire),
             link' = "open" => link = "open" /\ Sending \subseteq Sending'
      PROVE  StreamInv'
  <2>1. synced <= synced' /\ synced' \in Nat /\ \A k \in 1..synced : journal'[k] = journal[k]
    BY <1>1, <1>2
  <2>2. \A x \in Journal!Durable : x \in Journal!Durable'
    BY <2>1, DurableKept
  <2>3. \A r \in Records : In(r, journal') => In(r, journal) \/ In(r, batch)
    BY <1>2
  <2> QED
    BY <1>2, <2>2, <2>3, MoveKeepsStream
<1>3. ASSUME UNCHANGED <<journal, queue, batch, link, wire, acks>>, synced' \in {synced, Len(journal)}
      PROVE  StreamInv'
  <2>1. Sending' = Sending
    BY <1>3 DEF Sending
  <2>2. /\ link' # "open" => wire' = <<>> \/ (link # "open" /\ wire' = wire)
        /\ link' = "open" => link = "open"
    BY <1>3
  <2> QED
    BY <1>2, <1>3, <2>1, <2>2
<1>4. ASSUME Journal!Cut, journal' = journal, queue' = queue, batch' \in {batch, <<>>},
             synced' \in {synced, Len(journal)}
      PROVE  StreamInv'
  <2>1. wire' = <<>> /\ acks' = acks /\ link' # "open"
    BY <1>4 DEF Journal!Cut
  <2>2. Sending' \subseteq Sending
    BY <1>4, <2>1, InEmpty DEF Sending
  <2> QED
    BY <1>2, <1>4, <2>1, <2>2
<1>5. CASE Journal!Start \/ Journal!Exit
  BY <1>3, <1>5 DEF Journal!Start, Journal!Exit
<1>6. CASE Journal!IdleTimeout \/ Journal!Stop
  BY <1>4, <1>6 DEF Journal!IdleTimeout, Journal!Stop, Journal!journalVars
<1>7. CASE Journal!Receive
  <2>1. CASE ~healthy \/ Len(queue) + Len(batch) >= QueueLimit
    BY <1>4, <1>7, <2>1 DEF Journal!Receive
  <2>2. CASE ~(~healthy \/ Len(queue) + Len(batch) >= QueueLimit)
    <3>1. /\ wire # <<>> /\ queue' = Append(queue, Head(wire)) /\ wire' = Tail(wire)
          /\ UNCHANGED <<batch, journal, synced, link, acks>>
      BY <1>7, <2>2 DEF Journal!Receive
    <3>2. Head(wire) \in Nat
      BY <1>1, <3>1
    <3>3. \A x : In(x, queue') <=> In(x, queue) \/ x = Head(wire)
      BY <1>1, <3>1, <3>2, InAdded
    <3>4. \A x : In(x, wire) <=> x = Head(wire) \/ In(x, wire')
      BY <1>1, <3>1, InHandedOn
    <3>5. Sending' = Sending
      BY <3>1, <3>3, <3>4 DEF Sending
    <3>6. /\ ~failed /\ link' # "open" => wire' = <<>> \/ (link # "open" /\ wire' = wire)
          /\ link' = "open" => link = "open"
      BY <3>1 DEF StreamInv
    <3> QED
      BY <1>2, <3>1, <3>5, <3>6
  <2> QED
    BY <2>1, <2>2
<1>8. ASSUME NEW r \in Foreign, Journal!ReceiveForeign(r) PROVE StreamInv'
  <2>1. /\ queue' = Append(queue, r)
        /\ UNCHANGED <<batch, journal, synced, link, wire, acks>>
    BY <1>8 DEF Journal!ReceiveForeign
  <2>2. r \in Nat /\ r \notin Records
    BY Recorded
  <2>3. \A x : In(x, queue') <=> In(x, queue) \/ x = r
    BY <1>1, <2>1, <2>2, InAdded
  <2>4. Sending' = Sending
    BY <2>1, <2>2, <2>3 DEF Sending
  <2>5. /\ link' # "open" => wire' = <<>> \/ (link # "open" /\ wire' = wire)
        /\ link' = "open" => link = "open"
    BY <2>1
  <2> QED
    BY <1>2, <2>1, <2>4, <2>5
<1>9. CASE Journal!Break /\ UNCHANGED journal
  BY <1>9, BreakKeepsStream DEF Journal!Break
<1>10. CASE Journal!Gather
  <2> DEFINE n == Journal!Smaller(BatchSize, Len(queue))
  <2>1. CASE Len(journal) + n > MaxJournal
    BY <1>9, <1>10, <2>1 DEF Journal!Gather
  <2>2. CASE ~(Len(journal) + n > MaxJournal)
    <3>1. /\ batch' = SubSeq(queue, 1, n) /\ queue' = SubSeq(queue, n + 1, Len(queue))
          /\ step = "gather" /\ UNCHANGED <<journal, synced, link, wire, acks>>
      BY <1>10, <2>2 DEF Journal!Gather
    <3>2. n \in 0..Len(queue)
      BY <1>1, Limits DEF Journal!Smaller
    <3> HIDE DEF n
    <3>3. /\ Len(batch') = n /\ \A k \in 1..n : batch'[k] = queue[k]
          /\ Len(queue') = Len(queue) - n
          /\ \A k \in 1..(Len(queue) - n) : queue'[k] = queue[n + k]
      BY <1>1, <3>1, <3>2, TakenOff
    <3>4. Len(batch') \in Nat /\ Len(queue') \in Nat /\ Len(queue) = Len(batch') + Len(queue')
      BY <1>1, <3>2, <3>3
    <3>5. \A x : In(x, queue) <=> In(x, batch') \/ In(x, queue')
      BY <3>3, <3>4, InDivided
    <3>6. batch = <<>>
      BY <3>1, JournalTyped
    <3>7. Sending' = Sending
      BY <3>1, <3>5, <3>6, InEmpty DEF Sending
    <3>8. /\ link' # "open" => wire' = <<>> \/ (link # "open" /\ wire' = wire)
          /\ link' = "open" => link = "open"
      BY <3>1
    <3> QED
      BY <1>2, <3>1, <3>7, <3>8
  <2> QED
    BY <2>1, <2>2
<1>11. CASE Journal!Write
  <2>1. /\ journal' = journal \o batch
        /\ UNCHANGED <<queue, batch, synced, link, wire, acks>>
    BY <1>11 DEF Journal!Write
  <2>2. /\ Len(journal') = Len(journal) + Len(batch) /\ Len(batch) \in Nat
        /\ \A k \in 1..Len(journal) : journal'[k] = journal[k]
        /\ \A k \in 1..Len(batch) : journal'[Len(journal) + k] = batch[k]
    BY <1>1, <2>1, Joined
  <2>3. \A x : In(x, journal') <=> In(x, journal) \/ In(x, batch)
    BY <1>1, <2>2, InDivided
  <2>4. \A x \in Journal!Durable : x \in Journal!Durable'
    <3>1. \A k \in 1..synced : k \in 1..Len(journal)
      BY <1>1
    <3>2. synced <= synced' /\ synced' \in Nat /\ \A k \in 1..synced : journal'[k] = journal[k]
      BY <1>1, <2>1, <2>2, <3>1
    <3> QED
      BY <3>2, DurableKept
  <2>5. Sending' = Sending
    BY <2>1 DEF Sending
  <2>6. /\ link' # "open" => wire' = <<>> \/ (link # "open" /\ wire' = wire)
        /\ link' = "open" => link = "open"
    BY <2>1
  <2> QED
    BY <2>1, <2>3, <2>4, <2>5, <2>6, MoveKeepsStream
<1>12. CASE Journal!WriteFails
  BY <1>12, PartialKeepsStream DEF Journal!WriteFails, Journal!Break
<1>13. CASE Journal!SyncFails
  BY <1>9, <1>13 DEF Journal!SyncFails
<1>14. CASE Journal!Sync
  <2>1. /\ step = "syncing" /\ batch' = <<>> /\ synced' = Len(journal) /\ UNCHANGED <<queue, journal>>
        /\ Journal!Acknowledge(Journal!Owed)
    BY <1>14 DEF Journal!Sync
  <2>2. CASE Journal!Cut
    BY <1>4, <2>1, <2>2
  <2>3. CASE link # "open" /\ UNCHANGED <<link, wire, acks>>
    <3>1. Sending' \subseteq Sending
      BY <2>1, <2>3, InEmpty DEF Sending
    <3>2. /\ link' # "open" => wire' = <<>> \/ (link # "open" /\ wire' = wire)
          /\ link' # "open"
      BY <2>3
    <3> QED
      BY <1>2, <2>1, <2>3, <3>1, <3>2
  <2>4. CASE link = "open" /\ acks' = acks + Journal!Owed /\ UNCHANGED <<link, wire>>
    BY <2>1, <2>4, AcknowledgeKeepsStream
  <2> QED
    BY <2>1, <2>2, <2>3, <2>4 DEF Journal!Acknowledge
<1>15. CASE Journal!Kill
  <2>1. Journal!Forget /\ Journal!Cut /\ synced' = synced
    BY <1>15 DEF Journal!Kill
  <2>2. CASE step = "writing"
    BY <1>15, <2>1, <2>2, PartialKeepsStream DEF Journal!Kill
  <2>3. CASE step # "writing"
    <3>1. journal' = journal \o <<>>
      BY <1>15, <2>3 DEF Journal!Kill
    <3>2. journal' = journal
      BY <1>1, <3>1
    <3> QED
      BY <2>1, <3>2, BreakKeepsStream
  <2> QED
    BY <2>2, <2>3
<1> QED
  BY <1>5, <1>6, <1>7, <1>8, <1>10, <1>11, <1>12, <1>13, <1>14, <1>15 DEF JournalStep
-----------------------------------------------------------------------------
(***************************************************************************)
(* The theorems                                                            *)
(***************************************************************************)
\* What is synced outlives the machine.
LEMMA PowerLossSynced ==
  ASSUME TypeOK, Journal!PowerLoss
  PROVE  synced' = synced /\ \A k \in 1..synced : journal'[k] = journal[k]
<1> DEFINE file == IF step = "writing" THEN journal \o batch ELSE journal
<1>1. journal \in Seq(Nat) /\ batch \in Seq(Nat) /\ synced \in Nat /\ synced <= Len(journal)
      /\ Len(journal) \in Nat
  BY JournalTyped
<1>2. file \in Seq(Nat) /\ Len(journal) <= Len(file) /\ \A k \in 1..Len(journal) : file[k] = journal[k]
  BY <1>1
<1>3. journal' \in Journal!Survivors(file) /\ synced' = synced
  BY DEF Journal!PowerLoss
<1> HIDE DEF file
<1>4. synced <= Len(file) /\ Len(file) \in Nat
  BY <1>1, <1>2
<1>5. \E n \in synced..Len(file) :
        /\ n <= Len(journal') /\ \A i \in 1..n : journal'[i] = file[i]
        /\ \A i \in (n + 1)..Len(journal') :
             i = Len(journal') /\ journal'[i] = Journal!Torn /\ n < Len(file)
  BY <1>1, <1>2, <1>3, <1>4, SurvivorsEffect
<1>6. PICK n \in synced..Len(file) : \A i \in 1..n : journal'[i] = file[i]
  BY <1>5
<1>7. \A k \in 1..synced : k \in 1..n /\ k \in 1..Len(journal)
  BY <1>1, <1>4
<1> QED
  BY <1>2, <1>3, <1>6, <1>7

LEMMA PowerLossKeeps ==
  ASSUME IInv, PowerLoss
  PROVE  IInv'
<1>1. TypeOK /\ SinkInv /\ JournalInv /\ StreamInv /\ Sound(Course, answer)
  BY DEF IInv
<1>2. Journal!PowerLoss /\ Sink!Fail /\ Sink!GiveUp /\ wire' = <<>> /\ link' \in {"none", "dead"}
      /\ UNCHANGED <<closed, writable>>
  BY DEF PowerLoss, Sink!Fail, Sink!Destroy
<1>3. Journal!TypeOK' /\ JournalInv'
  BY <1>1, <1>2, PowerLossJournal
<1>4. Sink!TypeOK'
  <2>1. closed' \in BOOLEAN /\ writable' \in BOOLEAN
    BY <1>1, <1>2, SinkTyped
  <2> QED
    BY <1>1, <1>2, <2>1, GiveUpTypes
<1>5. SinkInv'
  BY <1>1, <1>2, FailKeepsSink
<1>6. \A r \in Records : answer[r] = "acked" => r \in Journal!Durable'
  <2>1. synced \in Nat /\ synced <= synced'
    BY <1>1, <1>2, PowerLossSynced, JournalTyped
  <2>2. synced' \in Nat /\ \A k \in 1..synced : journal'[k] = journal[k]
    BY <1>1, <1>2, PowerLossSynced, JournalTyped
  <2>3. \A x \in Journal!Durable : x \in Journal!Durable'
    BY <1>1, <2>1, <2>2, DurableKept
  <2> QED
    BY <1>1, <2>3 DEF StreamInv
<1>7. StreamInv' /\ Answers(answer, answer')
  BY <1>1, <1>2, <1>6, GiveUpKeeps
<1>8. Sound(Course', answer')
  BY <1>1, <1>2, <1>7, PowerLossSound
<1> QED
  BY <1>3, <1>4, <1>5, <1>7, <1>8 DEF IInv, TypeOK, Sound

LEMMA InitInv ==
  ASSUME Init
  PROVE  IInv
<1>1. Sink!Init /\ Journal!Init
  BY DEF Init
<1>2. /\ answer = [r \in Records |-> "none"] /\ pending = <<>> /\ sent = 0 /\ failed = FALSE
      /\ closed = FALSE /\ writable = FALSE /\ link = "none" /\ wire = <<>> /\ acks = 0
      /\ running = "down" /\ healthy = TRUE /\ queue = <<>> /\ batch = <<>> /\ journal = <<>>
      /\ step = "idle" /\ synced = 0
  BY <1>1, SameRecords DEF Sink!Init, Journal!Init
<1>3. /\ Len(pending) = 0 /\ Len(wire) = 0 /\ Len(queue) = 0 /\ Len(batch) = 0 /\ Len(journal) = 0
      /\ \A S : <<>> \in Seq(S)
  BY <1>2
<1>4. TypeOK
  <2>1. Sink!TypeOK
    <3>1. answer \in [Sink!Records -> {"none", "open", "acked", "lost", "refused"}]
      BY <1>2, SameRecords
    <3>2. pending \in Seq(Sink!Records) /\ wire \in Seq(Sink!Records)
      BY <1>2
    <3>3. sent \in 0..Len(pending)
      BY <1>2, <1>3
    <3>4. /\ failed \in BOOLEAN /\ closed \in BOOLEAN /\ writable \in BOOLEAN
          /\ link \in {"none", "connecting", "open", "cut", "dead"} /\ acks \in Nat
      BY <1>2
    <3> QED
      BY <3>1, <3>2, <3>3, <3>4 DEF Sink!TypeOK
  <2>2. Journal!TypeOK
    BY <1>2, <1>3 DEF Journal!TypeOK
  <2> QED
    BY <2>1, <2>2 DEF TypeOK
<1>5. SinkInv
  BY <1>2, <1>3, InEmpty DEF SinkInv
<1>6. JournalInv
  BY <1>2, <1>3 DEF JournalInv
<1>7. Sound(Course, answer)
  <2>1. Len(Unwritten) = 0
    BY <1>2, <1>3 DEF Unwritten
  <2>2. Len(Course) = 0
    BY <1>3, <1>4, <2>1, CoursePlaces
  <2> QED
    BY <2>2 DEF Sound
<1>8. StreamInv
  BY <1>2, InEmpty DEF StreamInv
<1> QED
  BY <1>4, <1>5, <1>6, <1>7, <1>8 DEF IInv

LEMMA NextInv ==
  ASSUME IInv, [Next]_vars
  PROVE  IInv'
<1>1. TypeOK /\ SinkInv /\ JournalInv /\ StreamInv /\ Sound(Course, answer)
  BY DEF IInv
<1>2. CASE SinkStep /\ UNCHANGED journalVars
  <2>1. TypeOK'
    BY <1>1, <1>2, SinkTypes
  <2>2. SinkInv'
    BY <1>1, <1>2, SinkPreserved
  <2>3. JournalInv'
    BY <1>1, <1>2 DEF JournalInv, journalVars, In
  <2>4. StreamInv' /\ Sound(Course', answer')
    BY <1>2, <2>1, <2>2, SinkKeepsStream
  <2> QED
    BY <2>1, <2>2, <2>3, <2>4 DEF IInv, Sound
<1>3. CASE JournalStep /\ UNCHANGED sinkVars
  <2>1. Sink!TypeOK' /\ SinkInv'
    BY <1>1, <1>3, JournalKeepsSink
  <2>2. Journal!TypeOK' /\ JournalInv'
    BY <1>1, <1>3, JournalPreserved
  <2>3. StreamInv'
    BY <1>1, <1>3, JournalKeepsStream
  <2>4. Sound(Course', answer')
    BY <1>1, <1>3, JournalStepSound
  <2> QED
    BY <2>1, <2>2, <2>3, <2>4 DEF IInv, TypeOK, Sound
<1>4. CASE Quiescent \/ UNCHANGED vars
  <2>1. /\ UNCHANGED <<answer, pending, sent, failed, closed, writable, link, wire, acks>>
        /\ UNCHANGED <<running, healthy, queue, batch, step, journal, synced>>
    BY <1>4 DEF Quiescent, vars, sinkVars, journalVars
  <2>2. TypeOK'
    BY <1>1, <2>1 DEF TypeOK, Sink!TypeOK, Journal!TypeOK
  <2>3. SinkInv'
    BY <1>1, <2>1 DEF SinkInv, In
  <2>4. JournalInv'
    BY <1>1, <2>1 DEF JournalInv, In
  <2>5. StreamInv'
    BY <1>1, <2>1 DEF StreamInv, In, Journal!Durable
  <2>6. Sound(Course, answer)'
    <3>1. Course' = Course
      BY <2>1 DEF Course, Taken, Unwritten
    <3> QED
      BY <1>1, <2>1, <3>1 DEF Sound
  <2> QED
    BY <2>2, <2>3, <2>4, <2>5, <2>6 DEF IInv
<1> QED
  BY <1>2, <1>3, <1>4, PowerLossKeeps DEF Next

LEMMA Invariance == Spec => []IInv
<1>1. IInv /\ [Next]_vars => IInv'
  BY NextInv
<1> QED
  BY <1>1, InitInv, PTL DEF Spec

\* The state of both ends keeps its types (TypeOK), whatever arrives and whatever fails.
THEOREM CollectorTypeCorrect == Spec => []TypeOK
<1>1. IInv => TypeOK
  BY DEF IInv
<1> QED
  BY <1>1, Invariance, PTL

\* The journal holds the sink's records in the order of the calls, without a hole and
\* each at most once, and nothing after a partial record (collector.ts:6 and 21-29,
\* audit-collector.mjs:48-53).
THEOREM JournalIsAlwaysSound == Spec => []JournalIsSound
<1>1. ASSUME IInv PROVE JournalIsSound
  <2>1. TypeOK /\ JournalInv /\ Sound(Course, answer)
    BY <1>1 DEF IInv
  <2>2. SUFFICES ASSUME NEW i \in 1..Len(journal)
                 PROVE  /\ journal[i] = Journal!Torn => i = Len(journal)
                        /\ journal[i] \in Records =>
                             LET before == {journal[j] : j \in 1..(i - 1)} \cap Records
                             IN /\ \A r \in before : r < journal[i]
                                /\ \A r \in 1..(journal[i] - 1) : r \in before \/ answer[r] = "refused"
    BY <2>1 DEF JournalIsSound
  <2>3. journal[i] = Journal!Torn => i = Len(journal)
    BY <2>1 DEF JournalInv
  <2>4. ASSUME journal[i] \in Records
        PROVE  LET before == {journal[j] : j \in 1..(i - 1)} \cap Records
               IN /\ \A r \in before : r < journal[i]
                  /\ \A r \in 1..(journal[i] - 1) : r \in before \/ answer[r] = "refused"
    <3>1. /\ Len(journal) \in Nat /\ Len(Course) \in Nat /\ Len(journal) <= Len(Course)
          /\ \A k \in 1..Len(journal) : Course[k] = journal[k]
      BY <2>1, CoursePlaces, JournalTyped, SinkTyped
    <3>2. i \in 1..Len(Course) /\ \A j \in 1..(i - 1) : j \in 1..Len(journal)
      BY <3>1
    <3>3. Course[i] = journal[i] /\ \A j \in 1..(i - 1) : Course[j] = journal[j]
      BY <3>1, <3>2
    <3>4. /\ \A j \in 1..(i - 1) : Course[j] \in Records => Course[j] < Course[i]
          /\ \A r \in 1..(Course[i] - 1) : answer[r] = "refused" \/ \E j \in 1..(i - 1) : Course[j] = r
      BY <2>1, <2>4, <3>2, <3>3 DEF Sound
    <3>5. \A r \in 1..(journal[i] - 1) : r \in Records
      BY <2>4, Recorded
    <3> QED
      BY <3>3, <3>4, <3>5
  <2> QED
    BY <2>3, <2>4
<1> QED
  BY <1>1, Invariance, PTL
-----------------------------------------------------------------------------
(***************************************************************************)
(* The durable sink                                                        *)
(***************************************************************************)
Kept == Journal!Durable \cap Records

LEMMA DurableVars ==
  ASSUME answer' = answer, Kept' = Kept
  PROVE  UNCHANGED Durable!sinkVars
  BY DEF Durable!sinkVars, Kept

LEMMA GivesUp ==
  ASSUME TypeOK, Sink!GiveUp, Kept' = Kept
  PROVE  Durable!Next
<1>1. answer' = [r \in Records |-> IF answer[r] = "open" THEN "lost" ELSE answer[r]]
  BY GiveUpEffect
<1>2. Durable!Fail
  BY <1>1, SameRecords DEF Durable!Fail, Kept
<1> QED
  BY <1>2 DEF Durable!Next

\* Every step of the sink is one of the durable sink, or leaves its answers alone.
LEMMA SinkImplements ==
  ASSUME IInv, SinkStep, UNCHANGED journalVars
  PROVE  Durable!Next \/ UNCHANGED Durable!sinkVars
<1>1. TypeOK /\ SinkInv /\ StreamInv
  BY DEF IInv
<1>2. Kept' = Kept
  BY DEF Kept, journalVars, Journal!Durable
<1>3. ASSUME NEW r \in Records, Sink!Send(r) PROVE Durable!Next
  <2>1. answer[r] = "none" /\ \A s \in Records : answer[s] # "none" <=> s < r
    BY <1>1, <1>3, NextIsLast DEF Sink!Send
  <2>2. ~failed /\ answer' = [answer EXCEPT ![r] = "open"]
    BY <1>3 DEF Sink!Send
  <2>3. Durable!Lost = {}
    BY <1>1, <2>2, SameRecords DEF SinkInv, Durable!Lost
  <2>4. \A s \in Records : s < r => answer[s] # "none"
    BY <2>1
  <2>5. Durable!Accept(r)
    BY <1>2, <2>1, <2>2, <2>3, <2>4, SameRecords DEF Durable!Accept, Kept
  <2> QED
    BY <2>5, SameRecords DEF Durable!Next
<1>4. ASSUME NEW r \in Records, Sink!Refuse(r) PROVE Durable!Next
  <2>1. answer[r] = "none"
    BY <1>1, <1>4, NextIsLast DEF Sink!Refuse
  <2>2. Durable!Refuse(r)
    BY <1>2, <1>4, <2>1 DEF Sink!Refuse, Durable!Refuse, Kept
  <2> QED
    BY <2>2, SameRecords DEF Durable!Next
<1>5. ASSUME Sink!Fail PROVE Durable!Next
  BY <1>1, <1>2, <1>5, GivesUp DEF Sink!Fail
<1>6. ASSUME NEW n \in 1..acks, Sink!Data(n), n <= sent PROVE Durable!Next
  <2> DEFINE S == {pending[k] : k \in 1..n}
  <2>1. /\ n \in Nat /\ n <= Len(pending)
        /\ answer' = [r \in Records |-> IF \E k \in 1..n : pending[k] = r THEN "acked" ELSE answer[r]]
    BY <1>1, <1>6, DataEffect
  <2>2. /\ Len(pending) \in Nat /\ acks \in Nat /\ n <= acks
        /\ \A k \in 1..Len(pending) : pending[k] \in Records
        /\ \A k \in 1..Len(pending) : answer[pending[k]] = "open"
        /\ \A i, j \in 1..Len(pending) : i < j => pending[i] < pending[j]
        /\ \A r \in Records : answer[r] = "open" => \E k \in 1..Len(pending) : pending[k] = r
    BY <1>1, SinkTyped DEF SinkInv, In
  <2>3. \A k \in 1..n : k \in 1..Len(pending) /\ k \in 1..acks
    BY <2>1, <2>2
  <2>4. S \subseteq Records /\ \A r : r \in S <=> \E k \in 1..n : pending[k] = r
    BY <2>2, <2>3
  <2>5. S \subseteq Kept
    BY <1>1, <2>3, <2>4 DEF StreamInv, Kept
  <2>6. answer' = [r \in Records |-> IF r \in S THEN "acked" ELSE answer[r]]
    BY <2>1, <2>4
  <2>7. \A r \in S : r \in Records /\ answer[r] = "open"
    BY <2>2, <2>3, <2>4
  <2>8. \A r \in S : \A t \in Records : answer[t] = "open" /\ t < r => t \in S
    <3> TAKE r \in S
    <3> TAKE t \in Records
    <3> HAVE answer[t] = "open" /\ t < r
    <3>1. PICK k \in 1..n : pending[k] = r
      BY <2>4
    <3>2. PICK j \in 1..Len(pending) : pending[j] = t
      BY <2>2
    <3>3. r \in Nat /\ t \in Nat
      BY <2>4, RecordsAreNumbers
    <3>4. ~(r < t) /\ r # t
      BY <3>3
    <3>5. ~(k < j)
      BY <2>2, <2>3, <3>1, <3>2, <3>4
    <3>6. j \in 1..n
      BY <2>1, <2>2, <3>5
    <3> QED
      BY <2>4, <3>2, <3>6
  <2> HIDE DEF S
  <2>9. Durable!EarliestOf(S, {r \in Records : answer[r] = "open"})
    BY <2>7, <2>8 DEF Durable!EarliestOf
  <2>10. Durable!Ack(S)
    BY <1>2, <2>5, <2>6, <2>9, SameRecords DEF Durable!Ack, Kept
  <2> QED
    BY <2>4, <2>10, SameRecords DEF Durable!Next
<1>7. ASSUME NEW n \in 1..acks, Sink!Data(n) PROVE Durable!Next
  <2>1. CASE n <= sent
    BY <1>6, <1>7, <2>1
  <2>2. CASE ~(n <= sent)
    <3>1. n > sent
      BY <1>1, <2>2, SinkTyped
    <3> QED
      BY <1>5, <1>7, <3>1 DEF Sink!Data
  <2> QED
    BY <2>1, <2>2
<1>8. CASE Sink!Refused \/ \E r \in Records : Sink!Expire(r)
  BY <1>5, <1>8 DEF Sink!Refused, Sink!Expire
<1>9. CASE Sink!Connected \/ Sink!Drain \/ Sink!Disconnected \/ Sink!Destroyed \/ Sink!Close
  <2>1. CASE Sink!GiveUp
    BY <1>1, <1>2, <2>1, GivesUp
  <2>2. CASE ~Sink!GiveUp
    <3>1. answer' = answer
      BY <1>9, <2>2 DEF Sink!Connected, Sink!Drain, Sink!Disconnected, Sink!Destroyed, Sink!Close
    <3> QED
      BY <1>2, <3>1, DurableVars
  <2> QED
    BY <2>1, <2>2
<1> QED
  BY <1>3, <1>4, <1>7, <1>8, <1>9 DEF SinkStep

\* What is synced stays as it is, and a sync is of all that was written.
LEMMA SyncedOnly ==
  ASSUME TypeOK, JournalStep
  PROVE  \/ journal' = journal /\ synced' = Len(journal)
         \/ synced' = synced /\ \A k \in 1..synced : journal'[k] = journal[k]
<1>1. /\ journal \in Seq(Nat) /\ batch \in Seq(Nat) /\ synced \in Nat /\ synced <= Len(journal)
      /\ Len(journal) \in Nat
  BY JournalTyped
<1>2. \A k \in 1..synced : k \in 1..Len(journal)
  BY <1>1
<1>3. ASSUME NEW s \in Seq(Nat), journal' = journal \o s PROVE \A k \in 1..synced : journal'[k] = journal[k]
  BY <1>1, <1>2, <1>3, Joined
<1>4. \A s \in Journal!Partial : s \in Seq(Nat)
  BY <1>1, PartialEffect
<1>5. CASE Journal!Start \/ Journal!Sync
  BY <1>5 DEF Journal!Start, Journal!Sync
<1>6. CASE Journal!Write \/ Journal!WriteFails
  BY <1>1, <1>3, <1>4, <1>6 DEF Journal!Write, Journal!WriteFails, Journal!Break
<1>7. CASE Journal!Kill
  <2>1. synced' = synced /\ \E s \in Seq(Nat) : journal' = journal \o s
    <3>1. <<>> \in Seq(Nat)
      OBVIOUS
    <3> QED
      BY <1>4, <1>7, <3>1 DEF Journal!Kill
  <2> QED
    BY <1>3, <2>1
<1>8. CASE \/ Journal!Receive \/ Journal!Gather \/ Journal!SyncFails \/ Journal!IdleTimeout
           \/ Journal!Stop \/ Journal!Exit \/ \E r \in Foreign : Journal!ReceiveForeign(r)
  <2>1. synced' = synced /\ journal' = journal
    BY <1>8 DEF Journal!Receive, Journal!Gather, Journal!SyncFails, Journal!IdleTimeout, Journal!Stop,
       Journal!Exit, Journal!ReceiveForeign, Journal!Break, Journal!journalVars
  <2> QED
    BY <2>1
<1> QED
  BY <1>5, <1>6, <1>7, <1>8 DEF JournalStep

LEMMA SameSynced ==
  ASSUME synced' = synced, \A k \in 1..synced : journal'[k] = journal[k]
  PROVE  Kept' = Kept
<1>1. Journal!Durable' = {journal'[k] : k \in 1..synced}
  BY DEF Journal!Durable
<1>2. {journal'[k] : k \in 1..synced} = {journal[k] : k \in 1..synced}
  OBVIOUS
<1> QED
  BY <1>1, <1>2 DEF Kept, Journal!Durable

\* A sync makes the oldest records durable that are not.
LEMMA JournalImplements ==
  ASSUME IInv, JournalStep, UNCHANGED sinkVars
  PROVE  Durable!Next \/ UNCHANGED Durable!sinkVars
<1>1. TypeOK /\ Sound(Course, answer) /\ answer' = answer
  BY DEF IInv, sinkVars
<1>2. CASE synced' = synced /\ \A k \in 1..synced : journal'[k] = journal[k]
  BY <1>1, <1>2, SameSynced, DurableVars
<1>3. CASE journal' = journal /\ synced' = Len(journal)
  <2> DEFINE written == {r \in Records : In(r, journal)}
             S == written \ Kept
  <2>1. Kept' = written
    <3>1. Journal!Durable' = {journal[k] : k \in 1..Len(journal)}
      BY <1>3 DEF Journal!Durable
    <3> QED
      BY <3>1 DEF Kept, In
  <2>2. Kept \subseteq written
    BY <1>1, DurableIsJournaled DEF Kept
  <2>3. Kept' = Kept \cup S
    BY <2>1, <2>2
  <2>4. \A r \in written : /\ answer[r] \in {"open", "acked", "lost"}
                           /\ \A t \in Records : t < r => answer[t] = "refused" \/ t \in written
    <3> TAKE r \in written
    <3>1. PICK i \in 1..Len(journal) : journal[i] = r
      BY DEF In
    <3>2. /\ Len(journal) \in Nat /\ Len(Course) \in Nat /\ Len(journal) <= Len(Course)
          /\ \A k \in 1..Len(journal) : Course[k] = journal[k]
      BY <1>1, CoursePlaces, JournalTyped, SinkTyped
    <3>3. i \in 1..Len(Course) /\ Course[i] = r /\ \A j \in 1..(i - 1) : j \in 1..Len(journal)
      BY <3>1, <3>2
    <3>4. /\ answer[r] \in {"open", "acked", "lost"}
          /\ \A t \in 1..(r - 1) : answer[t] = "refused" \/ \E j \in 1..(i - 1) : Course[j] = t
      BY <1>1, <3>3 DEF Sound
    <3>5. \A t \in Records : t < r => t \in 1..(r - 1)
      BY Recorded
    <3>6. ASSUME NEW t \in Records, t < r, answer[t] # "refused" PROVE In(t, journal)
      <4>1. PICK j \in 1..(i - 1) : Course[j] = t
        BY <3>4, <3>5, <3>6
      <4> QED
        BY <3>2, <3>3, <4>1 DEF In
    <3> QED
      BY <3>4, <3>6
  <2>5. Durable!Accepted = {r \in Records : answer[r] \in {"open", "acked", "lost"}}
    BY SameRecords DEF Durable!Accepted
  <2>6. S \subseteq Durable!Accepted \ Kept
    BY <2>4, <2>5
  <2>7. \A r \in S : \A t \in Durable!Accepted \ Kept : t < r => t \in S
    BY <2>4, <2>5
  <2>8. S \subseteq Records
    OBVIOUS
  <2> HIDE DEF S
  <2>9. Durable!EarliestOf(S, Durable!Accepted \ Kept)
    BY <2>6, <2>7 DEF Durable!EarliestOf
  <2>10. Durable!Store(S)
    BY <1>1, <2>3, <2>9 DEF Durable!Store, Kept
  <2> QED
    BY <2>8, <2>10, SameRecords DEF Durable!Next
<1> QED
  BY <1>1, <1>2, <1>3, SyncedOnly

\* The sink and its collector are an append-only durable log (DurableSink), whatever
\* is cut, killed or loses power: a record is acknowledged only once it is durable,
\* records become durable in the order of the calls, and after a loss no record is
\* accepted (collector.ts:6, 21-29, 50-60 and 83-85, audit-collector.mjs:48-53).
THEOREM RefinesDurableSink == Spec => ImplementsDurableSink
<1>1. Init => Durable!Init
  <2>1. ASSUME Init PROVE answer = [r \in Records |-> "none"] /\ synced = 0
    BY <2>1, SameRecords DEF Init, Sink!Init, Journal!Init
  <2>2. ASSUME Init PROVE Journal!Durable \cap Records = {}
    BY <2>1, <2>2 DEF Journal!Durable
  <2> QED
    BY <2>1, <2>2, SameRecords DEF Durable!Init
<1>2. ASSUME IInv, [Next]_vars PROVE Durable!Next \/ UNCHANGED Durable!sinkVars
  <2>1. CASE SinkStep /\ UNCHANGED journalVars
    BY <1>2, <2>1, SinkImplements
  <2>2. CASE JournalStep /\ UNCHANGED sinkVars
    BY <1>2, <2>2, JournalImplements
  <2>3. CASE PowerLoss
    <3>1. TypeOK /\ Journal!PowerLoss /\ Sink!GiveUp
      BY <1>2, <2>3 DEF IInv, PowerLoss, Sink!Fail
    <3>2. Kept' = Kept
      BY <3>1, PowerLossSynced, SameSynced
    <3> QED
      BY <3>1, <3>2, GivesUp
  <2>4. CASE Quiescent \/ UNCHANGED vars
    <3>1. answer' = answer /\ journal' = journal /\ synced' = synced
      BY <2>4 DEF Quiescent, vars, sinkVars, journalVars
    <3>2. Kept' = Kept
      BY <3>1, SameSynced
    <3> QED
      BY <3>1, <3>2, DurableVars
  <2> QED
    BY <1>2, <2>1, <2>2, <2>3, <2>4 DEF Next
<1> QED
  BY <1>1, <1>2, Invariance, PTL DEF Spec, ImplementsDurableSink, Durable!Spec
=============================================================================
