--------------------------- MODULE ControlProofs ----------------------------
(***************************************************************************)
(* Proofs about the Control API: the audit chain and the admission of      *)
(* runs, for any number of sessions, keys, buckets and events.             *)
(*                                                                         *)
(* The audit chain.  AuditInv says that what was written is a chain, that  *)
(* every session's own events continue it, and that the head row ends it,  *)
(* unless it was cut back, and then the number of the next event is taken  *)
(* in the table.  Damage changes the table in any of its ways, but not     *)
(* what was written; a table that verifies is a chain with the head's end  *)
(* hash, and two chains with one end hash are one chain                    *)
(* (EndDeterminesChain).                                                   *)
(*                                                                         *)
(* Admission.  AdmissionInv joins the rows of runs, the records of their   *)
(* keys, the answers given, the place counted for each queued run and what *)
(* each token bucket has let through.                                      *)
(***************************************************************************)
EXTENDS Components, PlanGraphProofs

LEMMA Bounds ==
    /\ MaxEvents \in Nat /\ Limit \in Nat /\ Capacity \in Nat /\ MaxClock \in Nat
    /\ MicroToken \in Nat /\ MicroToken # 0
  BY ControlAssumption DEF ControlAssumption

-----------------------------------------------------------------------------
(* The audit chain.                                                        *)

\* The rows of w are linked events, numbered from one.
Chain(w) ==
    /\ w \in Seq(ToSet(w))
    /\ \A i \in 1..Len(w) : w[i] = Audit!Event(i, w[i].payload, Audit!Previous(w, i))

LEMMA EventFields ==
    ASSUME NEW n, NEW p, NEW h
    PROVE  LET e == Audit!Event(n, p, h) IN
           /\ e.sequence = n /\ e.payload = p /\ e.payloadHash = p /\ e.previous = h
           /\ e.hash = <<n, p, h>>
  BY DEF Audit!Event, Audit!EventHash

LEMMA HashIsNotEmpty ==
    ASSUME NEW n, NEW p, NEW h
    PROVE  <<n, p, h>> # <<>>
  <1>1. Len(<<n, p, h>>) = 3 /\ Len(<<>>) = 0
    OBVIOUS
  <1>2. QED
    BY <1>1

\* Two chains that end in one hash are one chain: a hash determines its event, and
\* with it the hash before.
LEMMA EndDeterminesChain ==
    ASSUME NEW a, NEW b, Chain(a), Chain(b), NEW k \in 0..Len(b),
           Audit!Previous(a, Len(a) + 1) = Audit!Previous(b, k + 1)
    PROVE  Len(a) = k /\ \A i \in 1..k : a[i] = b[i]
  <1> DEFINE n == Len(a)
  <1>1. n \in Nat /\ Len(b) \in Nat /\ k \in Nat
    BY DEF Chain
  <1>2. \A i \in 1..n : a[i] = Audit!Event(i, a[i].payload, Audit!Previous(a, i))
    BY DEF Chain
  <1>3. \A i \in 1..Len(b) : b[i] = Audit!Event(i, b[i].payload, Audit!Previous(b, i))
    BY DEF Chain
  <1>4. ASSUME NEW i \in 1..n
        PROVE  a[i].hash = <<i, a[i].payload, Audit!Previous(a, i)>>
    BY <1>2, EventFields
  <1>5. ASSUME NEW i \in 1..Len(b)
        PROVE  b[i].hash = <<i, b[i].payload, Audit!Previous(b, i)>>
    BY <1>3, EventFields
  <1>6. n > 0 => Audit!Previous(a, n + 1) = a[n].hash
    BY <1>1 DEF Audit!Previous
  <1>7. k > 0 => Audit!Previous(b, k + 1) = b[k].hash
    BY <1>1 DEF Audit!Previous
  <1>8. n = 0 => Audit!Previous(a, n + 1) = <<>>
    BY DEF Audit!Previous, Audit!Genesis
  <1>9. k = 0 => Audit!Previous(b, k + 1) = <<>>
    BY DEF Audit!Previous, Audit!Genesis
  <1>10. n > 0 => a[n].hash = <<n, a[n].payload, Audit!Previous(a, n)>>
    BY <1>1, <1>4
  <1>11. k > 0 => b[k].hash = <<k, b[k].payload, Audit!Previous(b, k)>>
    BY <1>1, <1>5
  <1>12. n = k
    <2>1. CASE n = 0
      <3>1. k > 0 => <<>> = <<k, b[k].payload, Audit!Previous(b, k)>>
        BY <2>1, <1>7, <1>8, <1>11
      <3>2. QED
        BY <3>1, <2>1, <1>1, HashIsNotEmpty
    <2>2. CASE n > 0
      <3>1. a[n].hash = Audit!Previous(b, k + 1)
        BY <2>2, <1>6
      <3>2. k > 0
        <4>1. CASE k = 0
          <5>1. <<n, a[n].payload, Audit!Previous(a, n)>> = <<>>
            BY <4>1, <3>1, <2>2, <1>9, <1>10
          <5>2. QED
            BY <5>1, HashIsNotEmpty
        <4>2. QED
          BY <4>1, <1>1
      <3>3. QED
        BY <3>1, <3>2, <2>2, <1>7, <1>10, <1>11
    <2>3. QED
      BY <2>1, <2>2, <1>1
  <1>13. ASSUME NEW i \in 1..n, a[i].hash = b[i].hash
         PROVE  a[i] = b[i] /\ Audit!Previous(a, i) = Audit!Previous(b, i)
    <2>1. i \in 1..Len(b)
      BY <1>12, <1>1
    <2>2. a[i].payload = b[i].payload /\ Audit!Previous(a, i) = Audit!Previous(b, i)
      BY <2>1, <1>13, <1>4, <1>5
    <2>3. QED
      BY <2>1, <2>2, <1>2, <1>3
  <1>14. ASSUME NEW i \in 1..n, a[i].hash # b[i].hash
         PROVE  FALSE
    <2> DEFINE T == {d \in 0..n : \E j \in 1..n : d = n - j /\ a[j].hash # b[j].hash}
    <2>1. T \subseteq Nat
      BY <1>1
    <2>2. n - i \in T
      BY <1>1, <1>14
    <2>3. PICK d \in T : \A e \in T : d <= e
      BY <2>1, <2>2, SmallestNat
    <2>4. PICK j \in 1..n : d = n - j /\ a[j].hash # b[j].hash
      BY <2>3
    <2>5. j # n
      BY <2>4, <1>12, <1>6, <1>7, <1>1
    <2>6. j + 1 \in 1..n
      BY <2>5, <1>1
    <2>7. a[j + 1].hash = b[j + 1].hash
      <3>1. CASE a[j + 1].hash # b[j + 1].hash
        <4>1. n - (j + 1) \in 0..n
          BY <2>6, <1>1
        <4>2. n - (j + 1) \in T
          BY <4>1, <3>1, <2>6
        <4>3. d <= n - (j + 1)
          BY <4>2, <2>3
        <4>4. QED
          BY <4>3, <2>4, <2>6, <1>1
      <3>2. QED
        BY <3>1
    <2>8. Audit!Previous(a, j + 1) = Audit!Previous(b, j + 1)
      BY <2>6, <2>7, <1>13
    <2>9. Audit!Previous(a, j + 1) = a[j].hash /\ Audit!Previous(b, j + 1) = b[j].hash
      BY DEF Audit!Previous
    <2>10. QED
      BY <2>4, <2>8, <2>9
  <1>15. QED
    BY <1>12, <1>13, <1>14

-----------------------------------------------------------------------------
(* Sequences.                                                              *)

LEMMA SeqOverItself ==
    ASSUME NEW S, NEW w \in Seq(S)
    PROVE  w \in Seq(ToSet(w))
  <1>1. Len(w) \in Nat /\ DOMAIN w = 1..Len(w)
    OBVIOUS
  <1>2. \A i \in 1..Len(w) : w[i] \in ToSet(w)
    BY <1>1 DEF ToSet
  <1>3. QED
    BY <1>1, <1>2

LEMMA ChainAppend ==
    ASSUME NEW c, Chain(c), NEW p,
           NEW e, e = Audit!Event(Len(c) + 1, p, Audit!Previous(c, Len(c) + 1))
    PROVE  Chain(Append(c, e))
  <1> DEFINE d == Append(c, e)
  <1>1. c \in Seq(ToSet(c)) /\ Len(c) \in Nat
    BY DEF Chain
  <1>2. d \in Seq(ToSet(c) \cup {e}) /\ Len(d) = Len(c) + 1
    BY <1>1
  <1>3. d \in Seq(ToSet(d))
    BY <1>2, SeqOverItself
  <1>4. d[Len(c) + 1] = e /\ \A i \in 1..Len(c) : d[i] = c[i]
    BY <1>1
  <1>5. \A i \in 1..Len(c) + 1 : Audit!Previous(d, i) = Audit!Previous(c, i)
    BY <1>1, <1>4 DEF Audit!Previous
  <1>6. e.payload = p
    BY EventFields
  <1>7. \A i \in 1..Len(c) : c[i] = Audit!Event(i, c[i].payload, Audit!Previous(c, i))
    BY DEF Chain
  <1>8. ASSUME NEW i \in 1..Len(d)
        PROVE  d[i] = Audit!Event(i, d[i].payload, Audit!Previous(d, i))
    <2>1. CASE i = Len(c) + 1
      BY <2>1, <1>1, <1>4, <1>5, <1>6
    <2>2. CASE i \in 1..Len(c)
      <3>1. d[i] = c[i] /\ Audit!Previous(d, i) = Audit!Previous(c, i)
        BY <2>2, <1>1, <1>4, <1>5
      <3>2. QED
        BY <3>1, <2>2, <1>7
    <2>3. QED
      BY <2>1, <2>2, <1>1, <1>2
  <1>9. QED
    BY <1>3, <1>8 DEF Chain

LEMMA ChainPrefix ==
    ASSUME NEW a, NEW b, NEW S, NEW T, a \in Seq(S), b \in Seq(T), Chain(a \o b)
    PROVE  Chain(a)
  <1> DEFINE c == a \o b
  <1>1. Len(a) \in Nat /\ Len(b) \in Nat /\ Len(c) = Len(a) + Len(b)
    OBVIOUS
  <1>2. \A i \in 1..Len(a) : c[i] = a[i]
    OBVIOUS
  <1>3. \A i \in 1..Len(a) : Audit!Previous(c, i) = Audit!Previous(a, i)
    BY <1>1, <1>2 DEF Audit!Previous
  <1>4. \A i \in 1..Len(c) : c[i] = Audit!Event(i, c[i].payload, Audit!Previous(c, i))
    BY DEF Chain
  <1>5. \A i \in 1..Len(a) : a[i] = Audit!Event(i, a[i].payload, Audit!Previous(a, i))
    <2> TAKE i \in 1..Len(a)
    <2>1. i \in 1..Len(c)
      BY <1>1
    <2>2. QED
      BY <2>1, <1>2, <1>3, <1>4
  <1>6. QED
    BY <1>5, SeqOverItself DEF Chain

\* What was a prefix of the chain stays one when the chain grows.
LEMMA PrefixStays ==
    ASSUME NEW w, NEW S, w \in Seq(S), NEW T, NEW x, x \in Seq(T),
           NEW r, NEW R, r \in Seq(R), IsPrefix(r, w)
    PROVE  IsPrefix(r, w \o x)
  <1>1. Len(r) \in Nat /\ Len(w) \in Nat /\ Len(x) \in Nat /\ Len(w \o x) = Len(w) + Len(x)
    OBVIOUS
  <1>2. Len(r) <= Len(w) /\ SubSeq(r, 1, Len(r)) = SubSeq(w, 1, Len(r))
    BY DEF IsPrefix
  <1>3. SubSeq(w \o x, 1, Len(r)) = SubSeq(w, 1, Len(r))
    BY <1>1, <1>2
  <1>4. QED
    BY <1>1, <1>2, <1>3 DEF IsPrefix

LEMMA PrefixByRows ==
    ASSUME NEW w, NEW S, w \in Seq(S), NEW r, NEW R, r \in Seq(R),
           Len(r) <= Len(w), \A i \in 1..Len(r) : r[i] = w[i]
    PROVE  IsPrefix(r, w)
  <1>1. SubSeq(r, 1, Len(r)) = SubSeq(w, 1, Len(r))
    OBVIOUS
  <1>2. QED
    BY <1>1 DEF IsPrefix

-----------------------------------------------------------------------------
(* The verifier.                                                           *)

\* A row has the columns of an event, whatever they hold.
Row(e) ==
    e = [sequence |-> e.sequence, payload |-> e.payload, payloadHash |-> e.payloadHash,
         previous |-> e.previous, hash |-> e.hash]

LEMMA EventIsRow ==
    ASSUME NEW n, NEW p, NEW h
    PROVE  Row(Audit!Event(n, p, h)) /\ Audit!Sealed(Audit!Event(n, p, h))
  BY DEF Row, Audit!Event, Audit!Sealed, Audit!EventHash

LEMMA SealedRowIsEvent ==
    ASSUME NEW e, Row(e), Audit!Sealed(e)
    PROVE  e = Audit!Event(e.sequence, e.payload, e.previous)
  BY DEF Row, Audit!Event, Audit!Sealed, Audit!EventHash

RowVerdictAt(rows, i) == Audit!RowVerdict(rows[i], i, Audit!Previous(rows, i))

LEMMA ValidRow ==
    ASSUME NEW rows, NEW i, Row(rows[i]), RowVerdictAt(rows, i) = "valid"
    PROVE  rows[i] = Audit!Event(i, rows[i].payload, Audit!Previous(rows, i))
  <1>1. /\ rows[i].sequence = i /\ rows[i].previous = Audit!Previous(rows, i)
        /\ Audit!Sealed(rows[i])
    BY DEF RowVerdictAt, Audit!RowVerdict
  <1>2. QED
    BY <1>1, SealedRowIsEvent

LEMMA EventIsValid ==
    ASSUME NEW rows, NEW i, NEW p, rows[i] = Audit!Event(i, p, Audit!Previous(rows, i))
    PROVE  RowVerdictAt(rows, i) = "valid"
  BY EventFields, EventIsRow DEF RowVerdictAt, Audit!RowVerdict

\* What verify_audit_chain finds valid is a chain that ends in the head, and of a
\* chain it finds nothing but that it does not.
LEMMA VerdictMeans ==
    ASSUME NEW rows, rows \in Seq(ToSet(rows)), \A i \in 1..Len(rows) : Row(rows[i]), NEW h
    PROVE  /\ Audit!Verdict(rows, h) = "valid" =>
                 /\ Chain(rows) /\ h.sequence = Len(rows)
                 /\ h.hash = Audit!Previous(rows, Len(rows) + 1)
           /\ Chain(rows) =>
                 Audit!Verdict(rows, h) =
                    IF h.sequence = Len(rows) /\ h.hash = Audit!Previous(rows, Len(rows) + 1)
                    THEN "valid" ELSE "head_mismatch"
  <1> DEFINE wrong == {i \in DOMAIN rows : RowVerdictAt(rows, i) # "valid"}
             first == CHOOSE i \in wrong : \A j \in wrong : i <= j
             ends == h.sequence = Len(rows) /\ h.hash = Audit!Previous(rows, Len(rows) + 1)
  <1>1. DOMAIN rows = 1..Len(rows) /\ Len(rows) \in Nat
    OBVIOUS
  <1>2. Audit!Verdict(rows, h) =
          IF wrong # {} THEN RowVerdictAt(rows, first)
          ELSE IF ~ends THEN "head_mismatch" ELSE "valid"
    BY DEF Audit!Verdict, RowVerdictAt
  <1>3. wrong # {} => RowVerdictAt(rows, first) # "valid"
    <2> SUFFICES ASSUME wrong # {} PROVE RowVerdictAt(rows, first) # "valid"
      OBVIOUS
    <2>1. wrong \subseteq Nat
      BY <1>1
    <2>2. \E i \in wrong : \A j \in wrong : i <= j
      BY <2>1, SmallestNat
    <2>3. first \in wrong
      BY <2>2
    <2>4. QED
      BY <2>3
  <1>4. wrong = {} => Chain(rows)
    <2> SUFFICES ASSUME wrong = {} PROVE Chain(rows)
      OBVIOUS
    <2>1. \A i \in 1..Len(rows) : RowVerdictAt(rows, i) = "valid"
      BY <1>1
    <2>2. QED
      BY <2>1, ValidRow DEF Chain
  <1>5. Chain(rows) => wrong = {}
    BY <1>1, EventIsValid DEF Chain
  <1> HIDE DEF wrong, first, ends
  <1>6. Audit!Verdict(rows, h) = "valid" => wrong = {} /\ ends
    BY <1>2, <1>3
  <1>7. wrong = {} => Audit!Verdict(rows, h) = IF ends THEN "valid" ELSE "head_mismatch"
    BY <1>2
  <1>8. QED
    BY <1>4, <1>5, <1>6, <1>7 DEF ends

-----------------------------------------------------------------------------
(* The invariant of the audit chain.  What was written is a chain whatever *)
(* happens to the storage, because whoever appends has the head to itself; *)
(* the head ends that chain, unless it was cut back, and then the number   *)
(* of the next event is taken.                                             *)

LogOK ==
    /\ log \in Seq(ToSet(log))
    /\ \A i \in 1..Len(log) : Row(log[i]) /\ log[i].sequence \in 1..MaxEvents
    /\ damage = "none" => log = written

HeadOK ==
    /\ Chain(written) /\ Len(written) <= MaxEvents
    /\ head = [sequence |-> head.sequence, hash |-> head.hash]
    /\ head.hash = Audit!Previous(written, Len(written) + 1)
    /\ \/ head.sequence = Len(written)
       \/ /\ damage = "truncate" /\ head.sequence = Len(written) - 1
          /\ \E i \in 1..Len(log) : log[i].sequence = Len(written)

\* Only an insertion makes the log longer than what was written, and then the number
\* of the next event is taken.
LengthOK ==
    \/ Len(log) <= Len(written)
    \/ /\ damage = "insertion" /\ Len(log) = Len(written) + 1 /\ Len(log) <= MaxEvents
       /\ \E i \in 1..Len(log) : log[i].sequence = Len(written) + 1

WriterOK(s) ==
    /\ work[s].new \in Seq(ToSet(work[s].new))
    /\ work[s].new # <<>> => owner = s
    /\ owner = s => work[s].pc = "append"
    /\ Chain(written \o work[s].new)
    /\ Len(written) + Len(work[s].new) <= MaxEvents

\* The head a reader has read was the end of what was written then.
SawHead(h) ==
    \E k \in 0..Len(written) : /\ h.hash = Audit!Previous(written, k + 1)
                               /\ damage = "none" => h.sequence = k

Covers(w) ==
    /\ w.op = "list" => Len(w.seen) = Limit \/ Len(w.seen) >= w.head.sequence
    /\ w.op = "verify" =>
          \/ w.verdict = "valid"
          \/ w.verdict = "head_mismatch" /\ Len(w.seen) > w.head.sequence

ReaderOK(s) ==
    /\ work[s].pc = "events" => SawHead(work[s].head)
    /\ work[s].pc \in Audit!Reading => work[s].op \in {"verify", "list"}
    /\ work[s].pc = "append" => work[s].op = "write"
    /\ work[s].op = "list" => work[s].verdict = "none"
    /\ work[s].pc = "record" => work[s].op = "verify" /\ work[s].verdict = "valid"
    /\ work[s].seen \in Seq(ToSet(work[s].seen))
    /\ work[s].verdict = "valid" => IsPrefix(work[s].seen, written)
    /\ damage = "none" /\ work[s].pc \in {"idle", "record"} => Covers(work[s])

Columns(w) ==
    /\ DOMAIN w = {"op", "pc", "new", "head", "seen", "verdict"}
    /\ w.op \in {"none", "write", "verify", "list"}
    /\ w.pc \in {"idle", "append", "record"} \cup Audit!Reading
    /\ w.verdict \in Audit!Verdicts \cup {"none"}

SessionOK(s) == Columns(work[s]) /\ WriterOK(s) /\ ReaderOK(s)

AuditInv ==
    /\ LogOK /\ HeadOK /\ LengthOK
    /\ damage \in Audit!Damages /\ owner \in Sessions \cup {None}
    /\ DOMAIN work = Sessions
    /\ \A s \in Sessions : SessionOK(s)

\* A session that does nothing is left alone by what another one appends.
Extends ==
    \E x : x \in Seq(ToSet(x)) /\ written' = written \o x

LEMMA OtherSessionOK ==
    ASSUME NEW s \in Sessions, SessionOK(s), work'[s] = work[s],
           Chain(written), Chain(written'), Len(written') <= MaxEvents,
           owner' = s => owner = s, owner = s => owner' = s,
           damage' = damage \/ damage' # "none",
           \/ written' = written
           \/ Extends /\ work[s].new = <<>>
    PROVE  SessionOK(s)'
  <1>1. written \in Seq(ToSet(written)) /\ written' \in Seq(ToSet(written'))
    BY DEF Chain
  <1>2. Columns(work[s])'
    BY DEF SessionOK, Columns
  <1>3. WriterOK(s)'
    <2>1. /\ (work[s].new \in Seq(ToSet(work[s].new)))'
          /\ (work[s].new # <<>> => owner = s)'
          /\ (owner = s => work[s].pc = "append")'
      BY DEF SessionOK, WriterOK
    <2>2. CASE written' = written
      BY <2>1, <2>2 DEF SessionOK, WriterOK
    <2>3. CASE work[s].new = <<>>
      <3>1. written' \o work'[s].new = written'
        BY <2>3, <1>1
      <3>2. Len(work'[s].new) = 0
        BY <2>3
      <3>3. Len(written') + Len(work'[s].new) <= MaxEvents
        BY <3>2, <1>1
      <3>4. QED
        BY <2>1, <3>1, <3>3 DEF WriterOK
    <2>4. QED
      BY <2>2, <2>3
  <1>4. ASSUME NEW h, SawHead(h), h' = h
        PROVE  SawHead(h)'
    <2>1. CASE written' = written
      BY <2>1, <1>4 DEF SawHead
    <2>2. CASE Extends
      <3>1. PICK k \in 0..Len(written) : /\ h.hash = Audit!Previous(written, k + 1)
                                         /\ damage = "none" => h.sequence = k
        BY <1>4 DEF SawHead
      <3>2. PICK x : x \in Seq(ToSet(x)) /\ written' = written \o x
        BY <2>2 DEF Extends
      <3>3. /\ Len(written) \in Nat /\ Len(x) \in Nat /\ Len(written') = Len(written) + Len(x)
            /\ \A i \in 1..Len(written) : written'[i] = written[i]
        BY <1>1, <3>2
      <3>4. k \in 0..Len(written')
        BY <3>3
      <3>5. Audit!Previous(written, k + 1)' = Audit!Previous(written, k + 1)
        BY <3>3 DEF Audit!Previous
      <3>6. QED
        BY <1>4, <3>1, <3>4, <3>5 DEF SawHead
    <2>3. QED
      BY <2>1, <2>2
  <1>5. ReaderOK(s)'
    <2>1. IsPrefix(work[s].seen, written) => IsPrefix(work[s].seen, written)'
      <3>1. CASE written' = written
        BY <3>1
      <3>2. CASE Extends
        BY <3>2, <1>1, PrefixStays DEF Extends, SessionOK, ReaderOK
      <3>3. QED
        BY <3>1, <3>2
    <2>2. SawHead(work[s].head) => SawHead(work[s].head)'
      BY <1>4
    <2>3. Covers(work[s]) => Covers(work[s])'
      BY DEF Covers
    <2>4. QED
      BY <2>1, <2>2, <2>3 DEF SessionOK, ReaderOK
  <1>6. QED
    BY <1>2, <1>3, <1>5 DEF SessionOK

\* The sessions whose number of events does not change between s and the others.
LEMMA OthersOK ==
    ASSUME AuditInv, NEW s \in Sessions,
           \A t \in Sessions \ {s} : work'[t] = work[t],
           Chain(written'), Len(written') <= MaxEvents,
           \A t \in Sessions \ {s} : owner' = t <=> owner = t,
           damage' = damage \/ damage' # "none",
           \/ written' = written
           \/ Extends /\ \A t \in Sessions \ {s} : work[t].new = <<>>
    PROVE  \A t \in Sessions \ {s} : SessionOK(t)'
  <1> TAKE t \in Sessions \ {s}
  <1>1. SessionOK(t) /\ Chain(written)
    BY DEF AuditInv, HeadOK
  <1>2. QED
    BY <1>1, OtherSessionOK

\* A step of s that leaves the tables alone.
LEMMA TablesStayOK ==
    ASSUME AuditInv, UNCHANGED <<log, head, written, damage>>
    PROVE  LogOK' /\ HeadOK' /\ LengthOK' /\ (damage \in Audit!Damages)'
  BY DEF AuditInv, LogOK, HeadOK, LengthOK

LEMMA NothingYet == <<>> \in Seq(ToSet(<<>>)) /\ Len(<<>>) = 0
  BY DEF ToSet

LEMMA ChainRows ==
    ASSUME NEW w, Chain(w), NEW i \in 1..Len(w)
    PROVE  w[i].sequence = i /\ Row(w[i])
  <1>1. w[i] = Audit!Event(i, w[i].payload, Audit!Previous(w, i))
    BY DEF Chain
  <1> DEFINE p == w[i].payload
             h == Audit!Previous(w, i)
  <1> HIDE DEF p, h
  <1>2. w[i] = Audit!Event(i, p, h)
    BY <1>1 DEF p, h
  <1>3. QED
    BY <1>2, EventFields, EventIsRow

\* A session that holds nothing.
LEMMA ConcatNothing ==
    ASSUME NEW w, w \in Seq(ToSet(w))
    PROVE  w \o <<>> = w
  OBVIOUS

IdleWith(o, p) == [Audit!Idle EXCEPT !.op = o, !.pc = p]

LEMMA IdleFields ==
    ASSUME NEW o, NEW p, NEW u, u = IdleWith(o, p)
    PROVE  /\ DOMAIN u = {"op", "pc", "new", "head", "seen", "verdict"}
           /\ u.op = o /\ u.pc = p /\ u.new = <<>> /\ u.seen = <<>> /\ u.verdict = "none"
  BY DEF IdleWith, Audit!Idle

LEMMA PlainIdle ==
    /\ DOMAIN Audit!Idle = {"op", "pc", "new", "head", "seen", "verdict"}
    /\ Audit!Idle.op = "none" /\ Audit!Idle.pc = "idle" /\ Audit!Idle.new = <<>>
    /\ Audit!Idle.seen = <<>> /\ Audit!Idle.verdict = "none"
  BY DEF Audit!Idle

\* A session without events of its own that reads nothing yet.
LEMMA FreshSessionOK ==
    ASSUME NEW s, NEW u, u = work'[s], Chain(written'), Len(written') <= MaxEvents,
           DOMAIN u = {"op", "pc", "new", "head", "seen", "verdict"},
           u.new = <<>>, u.seen = <<>>, u.verdict = "none",
           \/ u.op = "none" /\ u.pc = "idle"
           \/ u.op = "write" /\ u.pc = "append"
           \/ u.op \in {"verify", "list"} /\ u.pc = "head",
           owner' = s => u.pc = "append"
    PROVE  SessionOK(s)'
  <1>1. written' \in Seq(ToSet(written'))
    BY DEF Chain
  <1>2. Columns(u)
    BY DEF Columns, Audit!Reading, Audit!Verdicts
  <1>3. WriterOK(s)'
    <2>1. written' \o u.new = written'
      BY <1>1, ConcatNothing
    <2>2. Len(written') + Len(u.new) = Len(written')
      BY <1>1, NothingYet
    <2>3. QED
      BY <1>1, <2>1, <2>2, NothingYet DEF WriterOK
  <1>4. ReaderOK(s)'
    <2>1. (damage = "none" /\ work[s].pc \in {"idle", "record"} => Covers(work[s]))'
      BY DEF Covers
    <2>2. QED
      BY <2>1, NothingYet DEF ReaderOK, Audit!Reading
  <1>5. QED
    BY <1>2, <1>3, <1>4 DEF SessionOK, Columns

LEMMA BeginOK ==
    ASSUME AuditInv, NEW s \in Sessions, Audit!Begin(s)
    PROVE  AuditInv'
  <1>1. /\ work' = [work EXCEPT ![s] = IdleWith("write", "append")]
        /\ UNCHANGED <<log, head, owner, written, damage>> /\ work[s].pc = "idle"
    BY DEF Audit!Begin, IdleWith
  <1>2. DOMAIN work = Sessions
    BY DEF AuditInv
  <1>3. /\ DOMAIN work' = Sessions /\ work'[s] = IdleWith("write", "append")
        /\ \A t \in Sessions \ {s} : work'[t] = work[t]
    BY <1>1, <1>2
  <1>4. Chain(written') /\ Len(written') <= MaxEvents
    BY <1>1 DEF AuditInv, HeadOK
  <1>5. SessionOK(s)'
    BY <1>3, <1>4, IdleFields, FreshSessionOK
  <1>6. \A t \in Sessions \ {s} : SessionOK(t)'
    BY <1>1, <1>3, <1>4, OthersOK
  <1>7. QED
    BY <1>1, <1>3, <1>5, <1>6, TablesStayOK DEF AuditInv

LEMMA StartOK ==
    ASSUME AuditInv, NEW s \in Sessions, NEW op \in {"verify", "list"}, Audit!Start(s, op)
    PROVE  AuditInv'
  <1>1. /\ work' = [work EXCEPT ![s] = IdleWith(op, "head")]
        /\ UNCHANGED <<log, head, owner, written, damage>> /\ work[s].pc = "idle"
    BY DEF Audit!Start, Audit!First, IdleWith
  <1>2. DOMAIN work = Sessions
    BY DEF AuditInv
  <1>3. /\ DOMAIN work' = Sessions /\ work'[s] = IdleWith(op, "head")
        /\ \A t \in Sessions \ {s} : work'[t] = work[t]
    BY <1>1, <1>2
  <1>4. Chain(written') /\ Len(written') <= MaxEvents
    BY <1>1 DEF AuditInv, HeadOK
  <1>5. owner' # s
    BY <1>1 DEF AuditInv, SessionOK, WriterOK
  <1>6. SessionOK(s)'
    BY <1>3, <1>4, <1>5, IdleFields, FreshSessionOK
  <1>7. \A t \in Sessions \ {s} : SessionOK(t)'
    BY <1>1, <1>3, <1>4, OthersOK
  <1>8. QED
    BY <1>1, <1>3, <1>6, <1>7, TablesStayOK DEF AuditInv

\* The events a session has appended end in the head it sees.
LEMMA EndOfOwn ==
    ASSUME AuditInv, NEW s \in Sessions, work[s].new # <<>>,
           NEW c, c = written \o work[s].new
    PROVE  Audit!HeadOf(s) = [sequence |-> Len(c), hash |-> Audit!Previous(c, Len(c) + 1)]
  <1> DEFINE own == work[s].new
  <1>1. /\ written \in Seq(ToSet(written)) /\ own \in Seq(ToSet(own)) /\ Chain(c)
    BY DEF AuditInv, HeadOK, SessionOK, WriterOK, Chain
  <1>2. Len(c) \in Nat /\ Len(c) = Len(written) + Len(own) /\ Len(written) \in Nat /\ Len(own) \in Nat
    BY <1>1
  <1>3. Len(own) > 0
    BY <1>1
  <1>4. Audit!Last(own) = own[Len(own)] /\ own[Len(own)] = c[Len(c)]
    BY <1>1, <1>3 DEF Audit!Last
  <1>5. Audit!HeadOf(s) = [sequence |-> c[Len(c)].sequence, hash |-> c[Len(c)].hash]
    BY <1>4 DEF Audit!HeadOf
  <1>6. Len(c) \in 1..Len(c)
    BY <1>2, <1>3
  <1>7. c[Len(c)].sequence = Len(c)
    BY <1>1, <1>6, ChainRows
  <1>8. Audit!Previous(c, Len(c) + 1) = c[Len(c)].hash
    BY <1>2, <1>6 DEF Audit!Previous
  <1>9. QED
    BY <1>5, <1>7, <1>8

\* The next event continues what was written and what the session has appended,
\* unless its number is taken.
\* What is written and what a session has appended to it.
Whole(s) == written \o work[s].new

\* The event e continues the chain c of session s.
Links(s, p, e, c) ==
    /\ Chain(c) /\ Len(c) \in Nat /\ Len(c) = Len(written) + Len(work[s].new)
    /\ e = Audit!Event(Len(c) + 1, p, Audit!Previous(c, Len(c) + 1))
    /\ e.sequence = Len(c) + 1 /\ Row(e)
    /\ Audit!HeadOf(s).sequence = Len(c)

LEMMA EventLinks ==
    ASSUME AuditInv, NEW s \in Sessions, NEW p, NEW e, e = Audit!NextEvent(s, p),
           Audit!SequenceFree(e), NEW c, c = written \o work[s].new
    PROVE  Links(s, p, e, c)
  <1> DEFINE own == work[s].new
  <1>1. /\ written \in Seq(ToSet(written)) /\ own \in Seq(ToSet(own)) /\ Chain(c)
    BY DEF AuditInv, HeadOK, SessionOK, WriterOK, Chain
  <1>2. Len(c) \in Nat /\ Len(c) = Len(written) + Len(own) /\ Len(written) \in Nat /\ Len(own) \in Nat
    BY <1>1
  <1>3. e = Audit!Event(Audit!HeadOf(s).sequence + 1, p, Audit!HeadOf(s).hash)
    BY DEF Audit!NextEvent
  <1>4. e.sequence = Audit!HeadOf(s).sequence + 1
    BY <1>3, EventFields
  <1>5. Audit!HeadOf(s).sequence = Len(c) /\ Audit!HeadOf(s).hash = Audit!Previous(c, Len(c) + 1)
    <2>1. CASE own = <<>>
      <3>1. Audit!HeadOf(s) = head /\ c = written
        BY <2>1, <1>1 DEF Audit!HeadOf
      <3>2. head.hash = Audit!Previous(written, Len(written) + 1)
        BY DEF AuditInv, HeadOK
      <3>3. CASE head.sequence = Len(written)
        BY <3>1, <3>2, <3>3
      <3>4. CASE /\ head.sequence = Len(written) - 1
                 /\ \E i \in 1..Len(log) : log[i].sequence = Len(written)
        <4>1. e.sequence = Len(written)
          BY <3>1, <3>4, <1>2, <1>4
        <4>2. DOMAIN log = 1..Len(log)
          BY DEF AuditInv, LogOK
        <4>3. QED
          BY <4>1, <4>2, <3>4 DEF Audit!SequenceFree
      <3>5. QED
        BY <3>3, <3>4 DEF AuditInv, HeadOK
    <2>2. CASE own # <<>>
      <3>1. Audit!HeadOf(s) = [sequence |-> Len(c), hash |-> Audit!Previous(c, Len(c) + 1)]
        BY <2>2, EndOfOwn
      <3>2. QED
        BY <3>1
    <2>3. QED
      BY <2>1, <2>2
  <1>6. QED
    BY <1>1, <1>2, <1>3, <1>4, <1>5, EventIsRow DEF Links

LEMMA NextLinks ==
    ASSUME AuditInv, NEW s \in Sessions, NEW p, Audit!SequenceFree(Audit!NextEvent(s, p))
    PROVE  Links(s, p, Audit!NextEvent(s, p), Whole(s))
  <1> DEFINE e == Audit!NextEvent(s, p)
             c == Whole(s)
  <1>1. c = written \o work[s].new /\ e = Audit!NextEvent(s, p) /\ Audit!SequenceFree(e)
    BY DEF Whole
  <1> HIDE DEF e, c
  <1>2. Links(s, p, e, c)
    BY <1>1, EventLinks
  <1>3. QED
    BY <1>2 DEF e, c

AppendTo(w, e) == [w EXCEPT !.new = Append(@, e)]

LEMMA AppendToFields ==
    ASSUME NEW w, Columns(w), NEW e, NEW u, u = AppendTo(w, e)
    PROVE  /\ Columns(u) /\ u.new = Append(w.new, e) /\ u.op = w.op /\ u.pc = w.pc
           /\ u.head = w.head /\ u.seen = w.seen /\ u.verdict = w.verdict
  BY DEF Columns, AppendTo

LEMMA AppendEventOK ==
    ASSUME AuditInv, NEW s \in Sessions, Audit!AppendEvent(s)
    PROVE  AuditInv'
  <1> DEFINE c == written \o work[s].new
  <1>1. PICK p \in Payloads : /\ Audit!SequenceFree(Audit!NextEvent(s, p))
                              /\ work' = [work EXCEPT ![s] = AppendTo(@, Audit!NextEvent(s, p))]
    BY DEF Audit!AppendEvent, AppendTo
  <1>2. /\ work[s].pc = "append" /\ owner \in {s, None} /\ owner' = s
        /\ Audit!HeadOf(s).sequence < MaxEvents
        /\ UNCHANGED <<log, head, written, damage>>
    BY DEF Audit!AppendEvent, Audit!HeadFree
  <1> DEFINE e == Audit!NextEvent(s, p)
             u == AppendTo(work[s], e)
  <1>3. e = Audit!NextEvent(s, p) /\ Audit!SequenceFree(e) /\ c = written \o work[s].new
    BY <1>1
  <1>4. u = AppendTo(work[s], e)
    OBVIOUS
  <1> HIDE DEF c, e, u
  <1>5. /\ Chain(c) /\ Len(c) \in Nat /\ Len(c) = Len(written) + Len(work[s].new)
        /\ e = Audit!Event(Len(c) + 1, p, Audit!Previous(c, Len(c) + 1))
        /\ Audit!HeadOf(s).sequence = Len(c)
    <2>1. Links(s, p, Audit!NextEvent(s, p), Whole(s))
      BY <1>1, NextLinks
    <2>2. e = Audit!NextEvent(s, p) /\ c = Whole(s)
      BY <1>3 DEF Whole
    <2>3. Links(s, p, e, c)
      BY <2>1, <2>2
    <2>4. QED
      BY <2>3 DEF Links
  <1>6. DOMAIN work = Sessions /\ Columns(work[s]) /\ WriterOK(s) /\ ReaderOK(s)
    BY DEF AuditInv, SessionOK
  <1>7. DOMAIN work' = Sessions /\ work'[s] = u /\ \A t \in Sessions \ {s} : work'[t] = work[t]
    BY <1>1, <1>6, <1>3, <1>4
  <1>8. /\ Columns(u) /\ u.new = Append(work[s].new, e) /\ u.op = work[s].op /\ u.pc = work[s].pc
        /\ u.head = work[s].head /\ u.seen = work[s].seen /\ u.verdict = work[s].verdict
    BY <1>6, <1>4, AppendToFields
  <1>9. Chain(written) /\ Len(written) <= MaxEvents /\ written \in Seq(ToSet(written))
    BY DEF AuditInv, HeadOK, Chain
  <1>10. WriterOK(s)'
    <2>1. work[s].new \in Seq(ToSet(work[s].new))
      BY <1>6 DEF WriterOK
    <2>2. u.new \in Seq(ToSet(u.new))
      <3>1. u.new \in Seq(ToSet(work[s].new) \cup {e})
        BY <2>1, <1>8
      <3>2. QED
        BY <3>1, SeqOverItself
    <2>3. written \o u.new = Append(c, e)
      BY <2>1, <1>8, <1>9, <1>3
    <2>4. Chain(written \o u.new)
      BY <2>3, <1>5, ChainAppend
    <2>5. Len(u.new) = Len(work[s].new) + 1 /\ Len(work[s].new) \in Nat /\ Len(written) \in Nat
      BY <2>1, <1>8, <1>9
    <2>6. Len(written) + Len(u.new) <= MaxEvents
      <3>1. Len(c) < MaxEvents /\ MaxEvents \in Nat
        BY <1>2, <1>5, Bounds
      <3>2. QED
        BY <3>1, <2>5, <1>5
    <2>7. QED
      BY <2>2, <2>4, <2>6, <1>2, <1>7, <1>8 DEF WriterOK
  <1>11. ReaderOK(s)'
    <2>1. UNCHANGED <<written, damage>> /\ work[s].pc = "append"
      BY <1>2
    <2>2. (damage = "none" /\ work[s].pc \in {"idle", "record"} => Covers(work[s]))'
      BY <2>1, <1>7, <1>8
    <2>3. QED
      BY <2>1, <2>2, <1>6, <1>7, <1>8 DEF ReaderOK, Audit!Reading
  <1>12. SessionOK(s)'
    BY <1>7, <1>8, <1>10, <1>11 DEF SessionOK
  <1>13. \A t \in Sessions \ {s} : SessionOK(t)'
    <2>1. \A t \in Sessions \ {s} : owner' = t <=> owner = t
      BY <1>2, ControlAssumption DEF ControlAssumption
    <2>2. Chain(written') /\ Len(written') <= MaxEvents
      BY <1>2, <1>9
    <2>3. QED
      BY <2>1, <2>2, <1>2, <1>7, OthersOK
  <1>14. QED
    BY <1>2, <1>7, <1>12, <1>13, TablesStayOK DEF AuditInv

LEMMA RollBackOK ==
    ASSUME AuditInv, NEW s \in Sessions, Audit!RollBack(s)
    PROVE  AuditInv'
  <1>1. /\ work' = [work EXCEPT ![s] = Audit!Idle] /\ work[s].pc = "append"
        /\ owner' = IF owner = s THEN None ELSE owner
        /\ UNCHANGED <<log, head, written, damage>>
    BY DEF Audit!RollBack
  <1>2. DOMAIN work = Sessions
    BY DEF AuditInv
  <1>3. /\ DOMAIN work' = Sessions /\ work'[s] = Audit!Idle
        /\ \A t \in Sessions \ {s} : work'[t] = work[t]
    BY <1>1, <1>2
  <1>4. Chain(written') /\ Len(written') <= MaxEvents
    BY <1>1 DEF AuditInv, HeadOK
  <1>5. owner' # s /\ \A t \in Sessions \ {s} : owner' = t <=> owner = t
    BY <1>1, ControlAssumption DEF ControlAssumption
  <1>6. SessionOK(s)'
    BY <1>3, <1>4, <1>5, PlainIdle, FreshSessionOK
  <1>7. \A t \in Sessions \ {s} : SessionOK(t)'
    BY <1>1, <1>3, <1>4, <1>5, OthersOK
  <1>8. (owner \in Sessions \cup {None})'
    BY <1>1 DEF AuditInv
  <1>9. QED
    BY <1>1, <1>3, <1>6, <1>7, <1>8, TablesStayOK DEF AuditInv

\* A transaction that ends with events x on the head leaves the tables in order.
LEMMA TablesGrowOK ==
    ASSUME AuditInv, NEW x, x \in Seq(ToSet(x)), x # <<>>,
           Chain(written \o x), Len(written) + Len(x) <= MaxEvents,
           \A i \in 1..Len(x) : Audit!SequenceFree(x[i]),
           log' = log \o x, written' = written \o x, damage' = damage,
           head' = [sequence |-> Len(written \o x),
                    hash |-> Audit!Previous(written \o x, Len(written \o x) + 1)]
    PROVE  /\ LogOK' /\ HeadOK' /\ LengthOK' /\ (damage \in Audit!Damages)'
           /\ Chain(written') /\ Len(written') <= MaxEvents /\ Extends
  <1> DEFINE c == written \o x
  <1>1. /\ log \in Seq(ToSet(log)) /\ written \in Seq(ToSet(written))
        /\ \A i \in 1..Len(log) : Row(log[i]) /\ log[i].sequence \in 1..MaxEvents
    BY DEF AuditInv, LogOK, HeadOK, Chain
  <1>2. /\ Len(log) \in Nat /\ Len(written) \in Nat /\ Len(x) \in Nat /\ Len(x) > 0
        /\ Len(log \o x) = Len(log) + Len(x) /\ Len(c) = Len(written) + Len(x)
    BY <1>1
  <1>3. \A i \in 1..Len(x) : c[Len(written) + i] = x[i]
    BY <1>1, <1>2
  <1>4. \A i \in 1..Len(x) : Row(x[i]) /\ x[i].sequence = Len(written) + i
    <2> TAKE i \in 1..Len(x)
    <2>1. Len(written) + i \in 1..Len(c)
      BY <1>2
    <2>2. QED
      BY <2>1, <1>3, ChainRows
  <1>5. log' \in Seq(ToSet(log'))
    <2>1. log' \in Seq(ToSet(log) \cup ToSet(x))
      BY <1>1
    <2>2. QED
      BY <2>1, SeqOverItself
  <1>6. ASSUME NEW i \in 1..Len(log')
        PROVE  Row(log'[i]) /\ log'[i].sequence \in 1..MaxEvents
    <2>1. CASE i \in 1..Len(log)
      BY <2>1, <1>1
    <2>2. CASE i \notin 1..Len(log)
      <3>1. i - Len(log) \in 1..Len(x) /\ log'[i] = x[i - Len(log)]
        BY <2>2, <1>1, <1>2
      <3>2. Len(written) + (i - Len(log)) \in 1..MaxEvents
        BY <3>1, <1>2, Bounds
      <3>3. QED
        BY <3>1, <3>2, <1>4
    <2>3. QED
      BY <2>1, <2>2
  <1>7. LogOK'
    BY <1>5, <1>6 DEF AuditInv, LogOK
  <1>8. HeadOK'
    <2>1. Len(written') <= MaxEvents
      BY <1>2
    <2>2. head' = [sequence |-> head'.sequence, hash |-> head'.hash]
      OBVIOUS
    <2>3. QED
      BY <2>1, <2>2 DEF HeadOK
  <1>9. LengthOK'
    <2>1. CASE Len(log) <= Len(written)
      BY <2>1, <1>2 DEF LengthOK
    <2>2. CASE \E i \in 1..Len(log) : log[i].sequence = Len(written) + 1
      <3>1. x[1].sequence = Len(written) + 1 /\ Audit!SequenceFree(x[1])
        BY <1>2, <1>4
      <3>2. DOMAIN log = 1..Len(log)
        BY <1>1
      <3>3. QED
        BY <2>2, <3>1, <3>2 DEF Audit!SequenceFree
    <2>3. QED
      BY <2>1, <2>2 DEF AuditInv, LengthOK
  <1>10. QED
    BY <1>2, <1>7, <1>8, <1>9 DEF AuditInv, Extends

LEMMA CommitOK ==
    ASSUME AuditInv, NEW s \in Sessions, Audit!Commit(s)
    PROVE  AuditInv'
  <1> DEFINE x == work[s].new
             c == written \o x
  <1>1. /\ x # <<>> /\ \A i \in DOMAIN x : Audit!SequenceFree(x[i])
        /\ log' = log \o x /\ written' = c /\ head' = Audit!HeadOf(s)
        /\ work' = [work EXCEPT ![s] = Audit!Idle]
        /\ owner' = (IF owner = s THEN None ELSE owner) /\ damage' = damage
    BY DEF Audit!Commit
  <1>2. /\ x \in Seq(ToSet(x)) /\ Chain(c) /\ Len(written) + Len(x) <= MaxEvents
        /\ owner = s /\ DOMAIN work = Sessions
    BY <1>1 DEF AuditInv, SessionOK, WriterOK
  <1>3. Audit!HeadOf(s) = [sequence |-> Len(c), hash |-> Audit!Previous(c, Len(c) + 1)]
    BY <1>1, EndOfOwn
  <1>4. /\ LogOK' /\ HeadOK' /\ LengthOK' /\ (damage \in Audit!Damages)'
        /\ Chain(written') /\ Len(written') <= MaxEvents /\ Extends
    <2> HIDE DEF x, c
    <2>1. \A i \in 1..Len(x) : Audit!SequenceFree(x[i])
      BY <1>1, <1>2
    <2>2. c = written \o x
      BY DEF c
    <2>3. QED
      BY <2>1, <2>2, <1>1, <1>2, <1>3, TablesGrowOK
  <1>5. /\ DOMAIN work' = Sessions /\ work'[s] = Audit!Idle
        /\ \A t \in Sessions \ {s} : work'[t] = work[t]
    BY <1>1, <1>2
  <1>6. owner' = None /\ owner' # s
    BY <1>1, <1>2, ControlAssumption DEF ControlAssumption
  <1>7. SessionOK(s)'
    BY <1>4, <1>5, <1>6, PlainIdle, FreshSessionOK
  <1>8. \A t \in Sessions \ {s} : owner' # t /\ owner # t /\ work[t].new = <<>>
    BY <1>2, <1>6, ControlAssumption DEF ControlAssumption, AuditInv, SessionOK, WriterOK
  <1>9. \A t \in Sessions \ {s} : SessionOK(t)'
    BY <1>1, <1>4, <1>5, <1>8, OthersOK
  <1>10. QED
    BY <1>4, <1>5, <1>6, <1>7, <1>9 DEF AuditInv

ToHead(w) == [w EXCEPT !.pc = Audit!First]

LEMMA ToHeadFields ==
    ASSUME NEW w, Columns(w), NEW u, u = ToHead(w)
    PROVE  /\ Columns(u) /\ u.new = w.new /\ u.op = w.op /\ u.pc = "head"
           /\ u.head = w.head /\ u.seen = w.seen /\ u.verdict = w.verdict
  BY DEF Columns, ToHead, Audit!First, Audit!Reading

LEMMA RecordOK ==
    ASSUME AuditInv, NEW s \in Sessions, Audit!Record(s)
    PROVE  AuditInv'
  <1> DEFINE e == Audit!NextEvent(s, Audit!Verified)
  <1>1. /\ work[s].pc = "record" /\ owner \in {s, None} /\ head.sequence < MaxEvents
        /\ UNCHANGED <<owner, damage>>
    BY DEF Audit!Record, Audit!HeadFree
  <1>2. /\ DOMAIN work = Sessions /\ Columns(work[s]) /\ WriterOK(s) /\ ReaderOK(s)
        /\ written \in Seq(ToSet(written)) /\ Chain(written) /\ Len(written) <= MaxEvents
    BY DEF AuditInv, SessionOK, HeadOK, Chain
  <1>3. owner = None /\ \A t \in Sessions : owner # t
    BY <1>1, <1>2, ControlAssumption DEF ControlAssumption, WriterOK
  <1>4. \A t \in Sessions : work[t].new = <<>>
    BY <1>3 DEF AuditInv, SessionOK, WriterOK
  <1>5. CASE Audit!SequenceFree(e)
    <2> DEFINE x == <<e>>
               c == written \o x
               u == ToHead(work[s])
    <2>1. /\ log' = Append(log, e) /\ written' = Append(written, e)
          /\ head' = [sequence |-> e.sequence, hash |-> e.hash]
          /\ work' = [work EXCEPT ![s] = u]
      BY <1>5 DEF Audit!Record, ToHead
    <2>2. written \o work[s].new = written
      BY <1>2, <1>4, ConcatNothing
    <2>3. e = Audit!NextEvent(s, Audit!Verified)
      OBVIOUS
    <2> HIDE DEF e, u
    <2>4. /\ Len(written) \in Nat
          /\ e = Audit!Event(Len(written) + 1, Audit!Verified, Audit!Previous(written, Len(written) + 1))
          /\ e.sequence = Len(written) + 1 /\ Audit!HeadOf(s).sequence = Len(written)
      <3>1. Audit!SequenceFree(Audit!NextEvent(s, Audit!Verified))
        BY <1>5, <2>3
      <3>2. Links(s, Audit!Verified, Audit!NextEvent(s, Audit!Verified), Whole(s))
        BY <3>1, NextLinks
      <3>3. Whole(s) = written
        BY <2>2 DEF Whole
      <3>4. Links(s, Audit!Verified, e, written)
        BY <2>3, <3>2, <3>3
      <3>5. QED
        BY <3>4 DEF Links
    <2>5. Chain(Append(written, e))
      BY <1>2, <2>4, ChainAppend
    <2>6. c = Append(written, e) /\ log' = log \o x /\ Len(x) = 1 /\ x[1] = e /\ x # <<>>
          /\ Len(c) = Len(written) + 1 /\ c[Len(written) + 1] = e
      <3>1. Len(x) = 1 /\ x[1] = e /\ x # <<>>
        OBVIOUS
      <3>2. c = Append(written, e)
        BY <1>2
      <3>3. log' = log \o x
        BY <2>1 DEF AuditInv, LogOK
      <3>4. Len(c) = Len(written) + 1 /\ c[Len(written) + 1] = e
        BY <3>2, <1>2
      <3>5. QED
        BY <3>1, <3>2, <3>3, <3>4
    <2>7. x \in Seq(ToSet(x))
      <3>1. x \in Seq({e})
        OBVIOUS
      <3>2. QED
        BY <3>1, SeqOverItself
    <2>8. Len(written) + Len(x) <= MaxEvents
      <3>1. head.sequence = Len(written)
        BY <1>4, <2>4 DEF Audit!HeadOf
      <3>2. QED
        BY <3>1, <1>1, <2>4, <2>6, ControlAssumption DEF ControlAssumption
    <2>9. head' = [sequence |-> Len(c), hash |-> Audit!Previous(c, Len(c) + 1)]
      BY <2>1, <2>4, <2>6 DEF Audit!Previous
    <2>10. /\ LogOK' /\ HeadOK' /\ LengthOK' /\ (damage \in Audit!Damages)'
           /\ Chain(written') /\ Len(written') <= MaxEvents /\ Extends
      <3>1. \A i \in 1..Len(x) : Audit!SequenceFree(x[i])
        BY <1>5, <2>6
      <3>2. Chain(c) /\ written' = c /\ damage' = damage
        BY <2>1, <2>5, <2>6, <1>1
      <3> HIDE DEF x
      <3>3. QED
        BY <3>1, <3>2, <2>6, <2>7, <2>8, <2>9, TablesGrowOK
    <2>11. /\ DOMAIN work' = Sessions /\ work'[s] = u /\ \A t \in Sessions \ {s} : work'[t] = work[t]
      BY <1>2, <2>1
    <2>12. /\ Columns(u) /\ u.new = <<>> /\ u.op = work[s].op /\ u.pc = "head"
           /\ u.head = work[s].head /\ u.seen = work[s].seen /\ u.verdict = work[s].verdict
      BY <1>2, <1>4, ToHeadFields DEF u
    <2>13. WriterOK(s)'
      <3>1. written' \o u.new = written' /\ Len(written') + Len(u.new) = Len(written')
        <4>1. written' \in Seq(ToSet(written'))
          BY <2>10 DEF Chain
        <4>2. QED
          BY <4>1, <2>12, ConcatNothing, NothingYet
      <3>2. QED
        BY <3>1, <1>1, <1>3, <2>10, <2>11, <2>12, NothingYet DEF WriterOK
    <2>14. ReaderOK(s)'
      <3>1. work[s].op = "verify" /\ IsPrefix(work[s].seen, written) /\ work[s].seen \in Seq(ToSet(work[s].seen))
        BY <1>1, <1>2 DEF ReaderOK
      <3>2. IsPrefix(work[s].seen, written')
        BY <3>1, <2>10, <1>2, PrefixStays DEF Extends
      <3>3. QED
        BY <3>1, <3>2, <2>11, <2>12 DEF ReaderOK, Audit!Reading
    <2>15. \A t \in Sessions \ {s} : SessionOK(t)'
      BY <1>1, <1>4, <2>10, <2>11, OthersOK
    <2>16. QED
      BY <1>1, <2>10, <2>11, <2>12, <2>13, <2>14, <2>15 DEF AuditInv, SessionOK
  <1>6. CASE ~Audit!SequenceFree(e)
    <2>1. work' = [work EXCEPT ![s] = Audit!Idle] /\ UNCHANGED <<log, head, written>>
      BY <1>6 DEF Audit!Record
    <2>2. /\ DOMAIN work' = Sessions /\ work'[s] = Audit!Idle
          /\ \A t \in Sessions \ {s} : work'[t] = work[t]
      BY <1>2, <2>1
    <2>3. Chain(written') /\ Len(written') <= MaxEvents
      BY <1>2, <2>1
    <2>4. SessionOK(s)'
      BY <1>1, <1>3, <2>2, <2>3, PlainIdle, FreshSessionOK
    <2>5. \A t \in Sessions \ {s} : SessionOK(t)'
      BY <1>1, <2>1, <2>2, <2>3, OthersOK
    <2>6. QED
      BY <1>1, <2>1, <2>2, <2>4, <2>5, TablesStayOK DEF AuditInv
  <1>7. QED
    BY <1>5, <1>6

Looks(w, h) == [w EXCEPT !.head = h, !.pc = "events"]

LEMMA LooksFields ==
    ASSUME NEW w, Columns(w), NEW h, NEW u, u = Looks(w, h)
    PROVE  /\ Columns(u) /\ u.new = w.new /\ u.op = w.op /\ u.pc = "events"
           /\ u.head = h /\ u.seen = w.seen /\ u.verdict = w.verdict
  BY DEF Columns, Looks, Audit!Reading

\* A reader writes nothing, so that the chain it has appended stays as it is.
LEMMA ReaderWrites ==
    ASSUME NEW s \in Sessions, WriterOK(s), work[s].pc # "append",
           UNCHANGED <<written, owner>>, work'[s].new = work[s].new
    PROVE  WriterOK(s)'
  BY DEF WriterOK

LEMMA ReadHeadOK ==
    ASSUME AuditInv, NEW s \in Sessions, Audit!ReadHead(s)
    PROVE  AuditInv'
  <1> DEFINE u == Looks(work[s], head)
  <1>1. /\ work[s].pc = "head" /\ work' = [work EXCEPT ![s] = u]
        /\ UNCHANGED <<log, head, owner, written, damage>>
    BY DEF Audit!ReadHead, Audit!Second, Audit!Other, Audit!First, Looks
  <1>2. /\ DOMAIN work = Sessions /\ Columns(work[s]) /\ WriterOK(s) /\ ReaderOK(s)
        /\ written \in Seq(ToSet(written)) /\ Chain(written) /\ Len(written) <= MaxEvents
    BY DEF AuditInv, SessionOK, HeadOK, Chain
  <1>3. /\ DOMAIN work' = Sessions /\ work'[s] = u /\ \A t \in Sessions \ {s} : work'[t] = work[t]
    BY <1>1, <1>2
  <1>4. /\ Columns(u) /\ u.new = work[s].new /\ u.op = work[s].op /\ u.pc = "events"
        /\ u.head = head /\ u.seen = work[s].seen /\ u.verdict = work[s].verdict
    BY <1>2, LooksFields
  <1> HIDE DEF u
  <1>5. WriterOK(s)'
    BY <1>1, <1>2, <1>3, <1>4, ReaderWrites
  <1>6. SawHead(head)
    <2>1. /\ head.hash = Audit!Previous(written, Len(written) + 1)
          /\ damage = "none" => head.sequence = Len(written)
      BY DEF AuditInv, HeadOK
    <2>2. Len(written) \in 0..Len(written)
      BY <1>2
    <2>3. QED
      BY <2>1, <2>2 DEF SawHead
  <1>7. SawHead(head)'
    BY <1>1, <1>6 DEF SawHead
  <1>8. ReaderOK(s)'
    BY <1>1, <1>2, <1>3, <1>4, <1>7 DEF ReaderOK, Audit!Reading
  <1>9. \A t \in Sessions \ {s} : SessionOK(t)'
    BY <1>1, <1>2, <1>3, OthersOK
  <1>10. QED
    BY <1>1, <1>3, <1>4, <1>5, <1>8, <1>9, TablesStayOK DEF AuditInv, SessionOK

Listed(w, h, rows) == [w EXCEPT !.pc = "idle", !.head = h, !.seen = rows]
Judged(w, p, h, rows, v) ==
    [w EXCEPT !.pc = p, !.head = h, !.seen = rows, !.verdict = v]

LEMMA ListedFields ==
    ASSUME NEW w, Columns(w), NEW h, NEW rows, NEW u, u = Listed(w, h, rows)
    PROVE  /\ Columns(u) /\ u.new = w.new /\ u.op = w.op /\ u.pc = "idle"
           /\ u.head = h /\ u.seen = rows /\ u.verdict = w.verdict
  BY DEF Columns, Listed

LEMMA JudgedFields ==
    ASSUME NEW w, Columns(w), NEW h, NEW rows, NEW p, NEW v, p \in {"idle", "record"},
           v \in Audit!Verdicts, NEW u, u = Judged(w, p, h, rows, v)
    PROVE  /\ Columns(u) /\ u.new = w.new /\ u.op = w.op /\ u.pc = p
           /\ u.head = h /\ u.seen = rows /\ u.verdict = v
  BY DEF Columns, Judged

\* The verifier's result is one of its five.
LEMMA VerdictTyped ==
    ASSUME AuditInv, NEW h
    PROVE  Audit!Verdict(log, h) \in Audit!Verdicts
  BY DEF Audit!Verdict, Audit!RowVerdict, Audit!Verdicts

LEMMA ReadEventsOK ==
    ASSUME AuditInv, NEW s \in Sessions, Audit!ReadEvents(s)
    PROVE  AuditInv'
  <1> DEFINE h == work[s].head
             v == Audit!Verdict(log, h)
             u == work'[s]
  <1>1. /\ work[s].pc = "events" /\ work' = [work EXCEPT ![s] = Audit!Conclude(s, h, Audit!Rows(s))]
        /\ UNCHANGED <<log, head, owner, written, damage>>
    BY DEF Audit!ReadEvents, Audit!Second, Audit!Other, Audit!First
  <1>2. /\ DOMAIN work = Sessions /\ Columns(work[s]) /\ WriterOK(s) /\ ReaderOK(s)
        /\ written \in Seq(ToSet(written)) /\ Chain(written) /\ Len(written) <= MaxEvents
        /\ log \in Seq(ToSet(log)) /\ Len(log) \in Nat /\ Len(written) \in Nat
    BY DEF AuditInv, SessionOK, HeadOK, Chain, LogOK
  <1>3. /\ DOMAIN work' = Sessions /\ u = Audit!Conclude(s, h, Audit!Rows(s))
        /\ \A t \in Sessions \ {s} : work'[t] = work[t]
        /\ work'[s] = u
    BY <1>1, <1>2
  <1> HIDE DEF u
  <1>4. PICK k \in 0..Len(written) : /\ h.hash = Audit!Previous(written, k + 1)
                                     /\ damage = "none" => h.sequence = k
    BY <1>1, <1>2 DEF ReaderOK, SawHead
  <1>5. damage = "none" => log = written
    BY DEF AuditInv, LogOK
  <1>6. work[s].op \in {"verify", "list"} /\ work[s].pc # "append"
    BY <1>1, <1>2 DEF ReaderOK, Audit!Reading
  <1>7. ASSUME work[s].op = "list"
        PROVE  SessionOK(s)'
    <2> DEFINE rows == Audit!Rows(s)
    <2>1. u = Listed(work[s], h, rows)
      BY <1>3, <1>7 DEF Audit!Conclude, Listed
    <2>2. /\ Columns(u) /\ u.new = work[s].new /\ u.op = "list" /\ u.pc = "idle"
          /\ u.head = h /\ u.seen = rows /\ u.verdict = work[s].verdict
      BY <1>2, <1>7, <2>1, ListedFields
    <2>3. rows \in Seq(ToSet(rows)) /\ (Len(rows) = Limit \/ rows = log)
      <3>1. CASE Len(log) > Limit
        <4>1. rows = SubSeq(log, 1, Limit)
          BY <1>7, <3>1 DEF Audit!Rows
        <4>2. rows \in Seq(ToSet(log)) /\ Len(rows) = Limit
          BY <4>1, <3>1, <1>2, ControlAssumption DEF ControlAssumption
        <4>3. QED
          BY <4>2, SeqOverItself
      <3>2. CASE ~(Len(log) > Limit)
        BY <3>2, <1>2, SeqOverItself DEF Audit!Rows
      <3>3. QED
        BY <3>1, <3>2
    <2>4. damage = "none" => Len(rows) = Limit \/ Len(rows) >= h.sequence
      BY <2>3, <1>2, <1>4, <1>5
    <2> HIDE DEF rows
    <2>5. WriterOK(s)'
      BY <1>1, <1>2, <1>3, <1>6, <2>2, ReaderWrites
    <2>6. (damage = "none" /\ work[s].pc \in {"idle", "record"} => Covers(work[s]))'
      BY <1>1, <1>3, <2>2, <2>4 DEF Covers
    <2>7. ReaderOK(s)'
      BY <1>1, <1>2, <1>3, <1>7, <2>2, <2>3, <2>6 DEF ReaderOK, Audit!Reading
    <2>8. QED
      BY <1>3, <2>2, <2>5, <2>7 DEF SessionOK
  <1>8. ASSUME work[s].op = "verify"
        PROVE  SessionOK(s)'
    <2> DEFINE p == IF v = "valid" /\ work[s].verdict = "none" THEN "record" ELSE "idle"
    <2>1. Audit!Rows(s) = log
      BY <1>8 DEF Audit!Rows
    <2>2. u = Judged(work[s], p, h, log, v)
      BY <1>3, <1>8, <2>1 DEF Audit!Conclude, Judged
    <2>3. v \in Audit!Verdicts /\ p \in {"idle", "record"}
      BY VerdictTyped
    <2>4. p = "record" => v = "valid"
      OBVIOUS
    <2>5. /\ v = "valid" => Chain(log) /\ h.hash = Audit!Previous(log, Len(log) + 1)
          /\ Chain(log) => v = IF h.sequence = Len(log) /\ h.hash = Audit!Previous(log, Len(log) + 1)
                               THEN "valid" ELSE "head_mismatch"
      <3>1. \A i \in 1..Len(log) : Row(log[i])
        BY DEF AuditInv, LogOK
      <3>2. QED
        BY <1>2, <3>1, VerdictMeans
    <2> HIDE DEF v, p
    <2>6. /\ Columns(u) /\ u.new = work[s].new /\ u.op = "verify" /\ u.pc = p
          /\ u.head = h /\ u.seen = log /\ u.verdict = v
      BY <1>2, <1>8, <2>2, <2>3, JudgedFields
    <2>7. v = "valid" => IsPrefix(log, written)
      <3> SUFFICES ASSUME v = "valid" PROVE IsPrefix(log, written)
        OBVIOUS
      <3>1. Chain(log) /\ Audit!Previous(log, Len(log) + 1) = Audit!Previous(written, k + 1)
        BY <2>5, <1>4
      <3>2. Len(log) = k /\ \A i \in 1..k : log[i] = written[i]
        BY <3>1, <1>2, EndDeterminesChain
      <3>3. QED
        BY <3>2, <1>2, PrefixByRows
    <2>8. damage = "none" => \/ v = "valid"
                             \/ v = "head_mismatch" /\ Len(log) > h.sequence
      <3> SUFFICES ASSUME damage = "none", v # "valid"
                   PROVE  v = "head_mismatch" /\ Len(log) > h.sequence
        OBVIOUS
      <3>1. log = written /\ h.sequence = k /\ Chain(log)
        BY <1>2, <1>4, <1>5
      <3>2. v = "head_mismatch" /\ ~(h.sequence = Len(log) /\ h.hash = Audit!Previous(log, Len(log) + 1))
        BY <2>5, <3>1
      <3>3. k # Len(log)
        BY <3>1, <3>2, <1>4
      <3>4. QED
        BY <3>1, <3>2, <3>3, <1>2
    <2>9. WriterOK(s)'
      BY <1>1, <1>2, <1>3, <1>6, <2>6, ReaderWrites
    <2>10. (damage = "none" /\ work[s].pc \in {"idle", "record"} => Covers(work[s]))'
      BY <1>1, <1>3, <2>6, <2>8 DEF Covers
    <2>11. ReaderOK(s)'
      BY <1>1, <1>2, <1>3, <2>3, <2>6, <2>4, <2>7, <2>10 DEF ReaderOK, Audit!Reading
    <2>12. QED
      BY <1>3, <2>6, <2>9, <2>11 DEF SessionOK
  <1>9. \A t \in Sessions \ {s} : SessionOK(t)'
    BY <1>1, <1>2, <1>3, OthersOK
  <1>10. QED
    BY <1>1, <1>3, <1>6, <1>7, <1>8, <1>9, TablesStayOK DEF AuditInv

\* Damage to one row leaves its number.
LEMMA AlteredRow ==
    ASSUME NEW e, Row(e), NEW way,
           way \in {"mutation", "payload_hash", "event_hash", "previous", "rewrite"}
    PROVE  Row(Audit!Altered(way, e)) /\ Audit!Altered(way, e).sequence = e.sequence
  <1>1. way = "mutation" => Audit!Altered(way, e) = [e EXCEPT !.payload = Audit!Forged]
    BY DEF Audit!Altered
  <1>2. way = "payload_hash" => Audit!Altered(way, e) = [e EXCEPT !.payloadHash = Audit!Forged]
    BY DEF Audit!Altered
  <1>3. way = "event_hash" =>
          Audit!Altered(way, e) = [e EXCEPT !.hash = <<0, Audit!Forged, Audit!Genesis>>]
    BY DEF Audit!Altered
  <1>4. way = "previous" =>
          Audit!Altered(way, e) = [e EXCEPT !.previous = <<0, Audit!Forged, Audit!Genesis>>]
    BY DEF Audit!Altered
  <1>5. way = "rewrite" =>
          Audit!Altered(way, e) = Audit!Event(e.sequence, Audit!Forged, e.previous)
    BY DEF Audit!Altered
  <1>6. QED
    BY <1>1, <1>2, <1>3, <1>4, <1>5, EventFields, EventIsRow DEF Row

Renumbered(e, n) == [e EXCEPT !.sequence = n]

LEMMA RenumberedRow ==
    ASSUME NEW e, Row(e), NEW n
    PROVE  Row(Renumbered(e, n)) /\ Renumbered(e, n).sequence = n
  BY DEF Row, Renumbered

\* A sequence given by its rows.
LEMMA RowsOK ==
    ASSUME NEW n \in Nat, NEW w, w = [i \in 1..n |-> w[i]]
    PROVE  w \in Seq(ToSet(w)) /\ Len(w) = n
  <1>1. DOMAIN w = 1..n /\ \A i \in 1..n : w[i] \in ToSet(w)
    BY DEF ToSet
  <1>2. w \in [1..n -> ToSet(w)]
    BY <1>1
  <1>3. QED
    BY <1>2

LEMMA RemoveAtRows ==
    ASSUME NEW S, NEW w, w \in Seq(S), NEW i \in 1..Len(w), NEW u, u = Audit!RemoveAt(w, i)
    PROVE  /\ u \in Seq(S) /\ Len(u) = Len(w) - 1
           /\ \A j \in 1..Len(w) - 1 : u[j] = IF j < i THEN w[j] ELSE w[j + 1]
  <1> DEFINE a == SubSeq(w, 1, i - 1)
             b == SubSeq(w, i + 1, Len(w))
  <1>1. Len(w) \in Nat /\ i \in Nat /\ i <= Len(w) /\ i >= 1
    OBVIOUS
  <1>2. a \in Seq(S) /\ Len(a) = i - 1 /\ \A j \in 1..i - 1 : a[j] = w[j]
    <2>1. 1 \in 1..Len(w) + 1 /\ i - 1 \in 1 - 1..Len(w)
      BY <1>1
    <2>2. QED
      BY <1>1, <2>1, SubSeqProperties
  <1>3. b \in Seq(S) /\ Len(b) = Len(w) - i /\ \A j \in 1..Len(w) - i : b[j] = w[i + j]
    <2>1. i + 1 \in 1..Len(w) + 1 /\ Len(w) \in (i + 1) - 1..Len(w)
      BY <1>1
    <2>2. /\ b \in Seq(S) /\ Len(b) = Len(w) - (i + 1) + 1
          /\ \A j \in 1..Len(w) - (i + 1) + 1 : b[j] = w[(i + 1) + j - 1]
      BY <2>1, SubSeqProperties
    <2>3. QED
      BY <1>1, <2>2
  <1>4. u = a \o b
    BY DEF Audit!RemoveAt
  <1> HIDE DEF a, b
  <1>5. u \in Seq(S) /\ Len(u) = Len(w) - 1
    BY <1>1, <1>2, <1>3, <1>4
  <1>6. ASSUME NEW j \in 1..Len(w) - 1
        PROVE  u[j] = IF j < i THEN w[j] ELSE w[j + 1]
    <2>1. CASE j < i
      BY <2>1, <1>1, <1>2, <1>3, <1>4
    <2>2. CASE j >= i
      <3>1. j - (i - 1) \in 1..Len(b) /\ u[j] = b[j - (i - 1)]
        BY <2>2, <1>1, <1>2, <1>3, <1>4
      <3>2. i + (j - (i - 1)) = j + 1
        BY <1>1
      <3>3. QED
        BY <3>1, <3>2, <2>2, <1>1, <1>3
    <2>3. QED
      BY <2>1, <2>2, <1>1
  <1>7. QED
    BY <1>5, <1>6

LEMMA DamageOK ==
    ASSUME AuditInv, Audit!Damage
    PROVE  AuditInv'
  <1>1. /\ damage = "none" /\ log # <<>> /\ damage' # "none" /\ damage' \in Audit!Damages
        /\ UNCHANGED <<owner, work, written>>
    BY DEF Audit!Damage, Audit!Damages
  <1>2. /\ log = written /\ log \in Seq(ToSet(log)) /\ Len(log) \in Nat /\ Len(log) > 0
        /\ DOMAIN log = 1..Len(log) /\ Len(log) <= MaxEvents
        /\ Chain(written)
        /\ \A i \in 1..Len(log) : Row(log[i]) /\ log[i].sequence \in 1..MaxEvents
    BY <1>1 DEF AuditInv, LogOK, HeadOK
  <1>3. \A i \in 1..Len(log) : log[i].sequence = i
    BY <1>2, ChainRows
  <1>4. /\ head = [sequence |-> head.sequence, hash |-> head.hash]
        /\ head.sequence = Len(written) /\ head.hash = Audit!Previous(written, Len(written) + 1)
    BY <1>1 DEF AuditInv, HeadOK
  <1>5. DOMAIN work' = Sessions /\ \A s \in Sessions : SessionOK(s)'
    BY <1>1, <1>2, OtherSessionOK DEF AuditInv
  <1>6. head' = head => HeadOK'
    BY <1>1, <1>2, <1>4 DEF HeadOK
  <1>7. /\ LogOK' /\ HeadOK' /\ LengthOK'
    <2>1. ASSUME NEW way, way \in {"mutation", "payload_hash", "event_hash", "previous", "rewrite"},
                 NEW i \in DOMAIN log,
                 log' = [log EXCEPT ![i] = Audit!Altered(way, @)], head' = head
          PROVE  LogOK' /\ LengthOK'
      <3>1. Row(Audit!Altered(way, log[i])) /\ Audit!Altered(way, log[i]).sequence = log[i].sequence
        BY <2>1, <1>2, AlteredRow
      <3>2. log' = [j \in 1..Len(log) |-> log'[j]]
        BY <2>1, <1>2
      <3>3. log' \in Seq(ToSet(log')) /\ Len(log') = Len(log)
        BY <3>2, <1>2, RowsOK
      <3>4. \A j \in 1..Len(log) : Row(log'[j]) /\ log'[j].sequence \in 1..MaxEvents
        BY <2>1, <3>1, <1>2
      <3>5. QED
        BY <3>3, <3>4, <1>1, <1>2 DEF LogOK, LengthOK
    <2>2. ASSUME NEW i \in DOMAIN log, log' = Audit!RemoveAt(log, i), head' = head
          PROVE  LogOK' /\ LengthOK'
      <3>1. /\ log' \in Seq(ToSet(log)) /\ Len(log') = Len(log) - 1
            /\ \A j \in 1..Len(log) - 1 : log'[j] = IF j < i THEN log[j] ELSE log[j + 1]
        <4>1. i \in 1..Len(log) /\ log \in Seq(ToSet(log))
          BY <2>2, <1>2
        <4>2. QED
          BY <4>1, <2>2, RemoveAtRows
      <3>2. log' \in Seq(ToSet(log'))
        BY <3>1, SeqOverItself
      <3>3. ASSUME NEW j \in 1..Len(log')
            PROVE  Row(log'[j]) /\ log'[j].sequence \in 1..MaxEvents
        <4>1. j \in 1..Len(log) /\ j + 1 \in 1..Len(log) /\ j \in 1..Len(log) - 1
          BY <3>1, <1>2
        <4>2. log'[j] = log[j] \/ log'[j] = log[j + 1]
          BY <4>1, <3>1
        <4>3. QED
          BY <4>1, <4>2, <1>2
      <3>4. QED
        BY <3>1, <3>2, <3>3, <1>1, <1>2 DEF LogOK, LengthOK
    <2>3. ASSUME NEW i \in 1..Len(log) + 1, damage' = "insertion", Len(log) < MaxEvents,
                 log' = Audit!Inserted(i), head' = head
          PROVE  LogOK' /\ LengthOK'
      <3> DEFINE n == Len(log) + 1
      <3>1. log' = [j \in 1..n |->
                      IF j < i THEN log[j]
                      ELSE IF j = i THEN Audit!Event(i, Audit!Forged, Audit!Previous(log, i))
                      ELSE Renumbered(log[j - 1], j)]
        BY <2>3 DEF Audit!Inserted, Renumbered
      <3>2. log' = [j \in 1..n |-> log'[j]] /\ n \in Nat
        BY <3>1, <1>2
      <3>3. log' \in Seq(ToSet(log')) /\ Len(log') = n
        BY <3>2, RowsOK
      <3>4. ASSUME NEW j \in 1..n
            PROVE  Row(log'[j]) /\ log'[j].sequence = j
        <4>1. CASE j < i
          BY <4>1, <3>1, <1>2, <1>3
        <4>2. CASE j = i
          BY <4>2, <3>1, EventFields, EventIsRow
        <4>3. CASE j > i
          <5>1. j - 1 \in 1..Len(log) /\ log'[j] = Renumbered(log[j - 1], j)
            BY <4>3, <3>1, <1>2
          <5>2. QED
            BY <5>1, <1>2, RenumberedRow
        <4>4. QED
          BY <4>1, <4>2, <4>3, <1>2
      <3>5. n \in 1..n /\ n <= MaxEvents /\ MaxEvents \in Nat
        BY <2>3, <1>2, ControlAssumption DEF ControlAssumption
      <3>6. \A j \in 1..n : log'[j].sequence \in 1..MaxEvents
        BY <3>4, <3>5, <1>2
      <3>7. LengthOK'
        BY <2>3, <3>3, <3>4, <3>5, <1>1, <1>2 DEF LengthOK
      <3>8. QED
        BY <3>3, <3>4, <3>6, <3>7, <1>1 DEF LogOK
    <2>4. ASSUME NEW i \in 1..Len(log) - 1, log' = Audit!Swapped(i), head' = head
          PROVE  LogOK' /\ LengthOK'
      <3>1. log' = [log EXCEPT ![i] = Renumbered(log[i + 1], i),
                               ![i + 1] = Renumbered(log[i], i + 1)]
        BY <2>4 DEF Audit!Swapped, Renumbered
      <3>2. i \in 1..Len(log) /\ i + 1 \in 1..Len(log)
        BY <1>2
      <3>7. log' = [j \in 1..Len(log) |->
                      IF j = i + 1 THEN Renumbered(log[i], i + 1)
                      ELSE IF j = i THEN Renumbered(log[i + 1], i) ELSE log[j]]
        BY <3>1, <3>2, <1>2
      <3>8. log' = [j \in 1..Len(log) |-> log'[j]]
        BY <3>7
      <3>3. log' \in Seq(ToSet(log')) /\ Len(log') = Len(log)
        BY <3>8, <1>2, RowsOK
      <3>4. /\ Row(Renumbered(log[i + 1], i)) /\ Renumbered(log[i + 1], i).sequence = i
            /\ Row(Renumbered(log[i], i + 1)) /\ Renumbered(log[i], i + 1).sequence = i + 1
        BY <3>2, <1>2, RenumberedRow
      <3>5. \A j \in 1..Len(log) : Row(log'[j]) /\ log'[j].sequence \in 1..MaxEvents
        <4> TAKE j \in 1..Len(log)
        <4>1. j \in 1..MaxEvents
          BY <1>2, <1>3
        <4>2. log'[j] = IF j = i + 1 THEN Renumbered(log[i], i + 1)
                        ELSE IF j = i THEN Renumbered(log[i + 1], i) ELSE log[j]
          BY <3>7
        <4>3. QED
          BY <4>1, <4>2, <3>4, <1>2
      <3>6. QED
        BY <3>3, <3>5, <1>1, <1>2 DEF LogOK, LengthOK
    <2>5. ASSUME damage' = "truncate", head' = [head EXCEPT !.sequence = @ - 1], log' = log
          PROVE  LogOK' /\ HeadOK' /\ LengthOK'
      <3>1. head' = [sequence |-> Len(written) - 1, hash |-> head.hash]
        BY <2>5, <1>4
      <3>2. Len(written) \in 1..Len(log) /\ log[Len(written)].sequence = Len(written)
        BY <1>2, <1>3
      <3>3. HeadOK'
        BY <2>5, <3>1, <3>2, <1>1, <1>2, <1>4 DEF HeadOK
      <3>4. QED
        BY <2>5, <3>3, <1>1, <1>2 DEF LogOK, LengthOK
    <2>6. QED
      BY <2>1, <2>2, <2>3, <2>4, <2>5, <1>6 DEF Audit!Damage
  <1>8. QED
    BY <1>1, <1>5, <1>7 DEF AuditInv

LEMMA AuditInit == Audit!Init => AuditInv
  <1> SUFFICES ASSUME Audit!Init PROVE AuditInv
    OBVIOUS
  <1>1. /\ log = <<>> /\ written = <<>> /\ damage = "none" /\ owner = None
        /\ head = [sequence |-> 0, hash |-> <<>>]
        /\ DOMAIN work = Sessions /\ \A s \in Sessions : work[s] = Audit!Idle
    BY DEF Audit!Init, Audit!Genesis
  <1>2. Chain(written) /\ Len(written) = 0
    BY <1>1, NothingYet DEF Chain
  <1>3. LogOK /\ LengthOK
    BY <1>1, NothingYet DEF LogOK, LengthOK
  <1>4. HeadOK
    BY <1>1, <1>2, ControlAssumption DEF HeadOK, Audit!Previous, Audit!Genesis, ControlAssumption
  <1>5. ASSUME NEW s \in Sessions
        PROVE  SessionOK(s)
    <2>1. Columns(work[s])
      BY <1>1, PlainIdle DEF Columns, Audit!Reading
    <2>2. WriterOK(s)
      <3>1. written \o work[s].new = written
        BY <1>1, PlainIdle, NothingYet
      <3>2. Len(written) + Len(work[s].new) <= MaxEvents
        BY <1>1, <1>2, PlainIdle, NothingYet, ControlAssumption DEF ControlAssumption
      <3>3. QED
        BY <3>1, <3>2, <1>1, <1>2, PlainIdle, NothingYet, ControlAssumption
        DEF WriterOK, ControlAssumption
    <2>3. ReaderOK(s)
      BY <1>1, PlainIdle, NothingYet DEF ReaderOK, Covers, Audit!Reading
    <2>4. QED
      BY <2>1, <2>2, <2>3 DEF SessionOK
  <1>6. QED
    BY <1>1, <1>3, <1>4, <1>5 DEF AuditInv, Audit!Damages

LEMMA AuditStep == AuditInv /\ [Audit!Next]_auditVars => AuditInv'
  <1> SUFFICES ASSUME AuditInv, [Audit!Next]_auditVars PROVE AuditInv'
    OBVIOUS
  <1>1. CASE UNCHANGED auditVars
    <2>1. UNCHANGED <<log, head, written, damage>> /\ owner' = owner /\ work' = work
      BY <1>1 DEF auditVars
    <2>2. \A s \in Sessions : SessionOK(s)'
      BY <2>1, OtherSessionOK DEF AuditInv, HeadOK
    <2>3. QED
      BY <2>1, <2>2, TablesStayOK DEF AuditInv
  <1>2. CASE Audit!Next
    BY <1>2, DamageOK, BeginOK, AppendEventOK, CommitOK, RollBackOK, StartOK, ReadHeadOK,
       ReadEventsOK, RecordOK DEF Audit!Next
  <1>3. QED
    BY <1>1, <1>2

\* The other components leave the chain alone.
LEMMA AuditMoves == [AllNext]_allVars => [Audit!Next]_auditVars
  BY DEF AllNext, allVars, auditVars

\* What was written stays a chain, which the sessions continue and the head ends,
\* whatever damage the table has taken (production.py).
THEOREM AuditInvariantHolds == AllSpec => []AuditInv
  <1>1. AllInit => AuditInv
    BY AuditInit DEF AllInit
  <1>2. AuditInv /\ [AllNext]_allVars => AuditInv'
    BY AuditStep, AuditMoves
  <1>3. QED
    BY <1>1, <1>2, PTL DEF AllSpec

\* A chain that verifies is the chain that was written.
THEOREM VerifiedChainIsGenuine == AllSpec => []ValidIsWhatWasWritten
  <1>1. AuditInv => ValidIsWhatWasWritten
    BY DEF AuditInv, SessionOK, ReaderOK, ValidIsWhatWasWritten, Audit!ValidIsWhatWasWritten,
           IsPrefix, Audit!IsPrefix
  <1>2. QED
    BY <1>1, AuditInvariantHolds, PTL

\* What a reader got covers the head it got.
THEOREM ReadsAlwaysCover == AllSpec => []ReadCoversHead
  <1>1. AuditInv => ReadCoversHead
    <2> SUFFICES ASSUME AuditInv, damage = "none"
                 PROVE  /\ Audit!Verdict(log, head) = "valid"
                        /\ \A s \in Sessions : work[s].pc \in {"idle", "record"} => Covers(work[s])
      BY DEF ReadCoversHead, Audit!ReadCoversHead, Covers
    <2>1. /\ log = written /\ Chain(log) /\ log \in Seq(ToSet(log))
          /\ \A i \in 1..Len(log) : Row(log[i])
          /\ head.sequence = Len(log) /\ head.hash = Audit!Previous(log, Len(log) + 1)
      BY DEF AuditInv, LogOK, HeadOK
    <2>2. Audit!Verdict(log, head) = "valid"
      BY <2>1, VerdictMeans
    <2>3. QED
      BY <2>2 DEF AuditInv, SessionOK, ReaderOK
  <1>2. QED
    BY <1>1, AuditInvariantHolds, PTL

-----------------------------------------------------------------------------
(* Numbers.                                                                *)

LEMMA MaxOfTwo ==
    ASSUME NEW x \in Int
    PROVE  Admissions!Max({0, x}) = IF x > 0 THEN x ELSE 0
  <1> DEFINE m == IF x > 0 THEN x ELSE 0
  <1>1. m \in {0, x} /\ \A y \in {0, x} : m >= y
    OBVIOUS
  <1>2. ASSUME NEW z \in {0, x}, \A y \in {0, x} : z >= y
        PROVE  z = m
    BY <1>2
  <1> HIDE DEF m
  <1>3. (CHOOSE z \in {0, x} : \A y \in {0, x} : z >= y) = m
    BY <1>1, <1>2
  <1>4. QED
    BY <1>3 DEF Admissions!Max, m

LEMMA MinOfTwo ==
    ASSUME NEW x \in Int, NEW y \in Int
    PROVE  Admissions!Min({x, y}) = IF x < y THEN x ELSE y
  <1> DEFINE m == IF x < y THEN x ELSE y
  <1>1. m \in {x, y} /\ \A z \in {x, y} : m =< z
    OBVIOUS
  <1>2. ASSUME NEW z \in {x, y}, \A w \in {x, y} : z =< w
        PROVE  z = m
    BY <1>2
  <1> HIDE DEF m
  <1>3. (CHOOSE z \in {x, y} : \A w \in {x, y} : z =< w) = m
    BY <1>1, <1>2
  <1>4. QED
    BY <1>3 DEF Admissions!Min, m

LEMMA TimesNat ==
    ASSUME NEW a, a \in Nat, NEW b, b \in Nat
    PROVE  a * b \in Nat
  OBVIOUS

LEMMA TimesDifference ==
    ASSUME NEW a, a \in Nat, NEW b, b \in Nat, NEW c, c \in Nat
    PROVE  (b - a) * c + c * a = c * b
  OBVIOUS

LEMMA TimesSum ==
    ASSUME NEW a, a \in Nat, NEW b, b \in Nat, NEW c, c \in Nat
    PROVE  (a + b) * c = a * c + b * c
  OBVIOUS

LEMMA TimesGrows ==
    ASSUME NEW a, a \in Nat, NEW b, b \in Nat, NEW c, c \in Nat, a <= b
    PROVE  c * a <= c * b
  OBVIOUS

-----------------------------------------------------------------------------
(* Admission of runs.                                                      *)

\* Admission counts with the same operator.
LEMMA SameCardinality ==
    ASSUME NEW S
    PROVE  Admissions!Cardinality(S) = Cardinality(S)
  BY DEF Admissions!Cardinality, Cardinality

\* The rows of runs, R, and the records of their keys, I.
RunsHold(R, I) ==
    /\ IsFiniteSet(R)
    /\ \A r \in R : /\ r \in Admissions!RunRow /\ r.id \in 1..Cardinality(R)
                    /\ I[r.actor][r.key] = [body |-> r.body, run |-> r.id]
    /\ \A r, q \in R : r.id = q.id \/ (r.actor = q.actor /\ r.key = q.key) => r = q
    /\ \A a \in Actors, k \in Keys :
          I[a][k] # None => \E r \in R : r.actor = a /\ r.key = k

Queued(R) == {r \in R : r.status = "queued"}

\* What a session is answered, and what it works with.
Answered(w, R) ==
    w.answer = "run" => \E r \in R : /\ r.id = w.run /\ r.actor = w.actor
                                     /\ r.key = w.key /\ r.body = w.body
Works(w, time) ==
    /\ w.pc # "idle" => w.actor \in Actors /\ w.now <= time
    /\ w.pc = "lookup" => w.class = "submit"
    /\ w.pc # "idle" /\ w.class = "submit" => w.key \in Keys /\ w.body \in Bodies

\* A row b is as old as the request that wrote it, and has let nothing through before
\* it was made.
Dated(b, n, time) == IF b = None THEN n = 0 ELSE b.last <= time

\* What it has let through since, full with so many tokens.
Limited(b, n, full, rate) ==
    b # None => b.tokens + n * MicroToken <= full + rate * b.last

Holds(b, n, moved, full, rate, time) ==
    Dated(b, n, time) /\ (~moved => Limited(b, n, full, rate))

FullOf(c, h) == Burst[c][Admissions!Scope(h)] * MicroToken
RateOf(c, h) == Rate[c][Admissions!Scope(h)]

AdmissionInv ==
    /\ Admissions!TypeOK
    /\ RunsHold(runs, idem)
    /\ ready = Cardinality(Queued(runs))
    /\ \A s \in Sessions : Answered(call[s], runs) /\ Works(call[s], admClock)
    /\ \A c \in Admissions!Classes, h \in Admissions!Holders :
          Holds(bucket[c][h], served[c][h], late[c][h], FullOf(c, h), RateOf(c, h), admClock)

RowWith(r, st) == [r EXCEPT !.status = st, !.version = @ + 1]

LEMMA RowWithFields ==
    ASSUME NEW r, r \in Admissions!RunRow, NEW st, st \in {"cancelled", "finished"},
           NEW u, u = RowWith(r, st)
    PROVE  /\ u \in Admissions!RunRow /\ u.id = r.id /\ u.actor = r.actor /\ u.key = r.key
           /\ u.body = r.body /\ u.status = st
  <1>1. r.version \in Nat /\ r.version + 1 \in Nat
    BY DEF Admissions!RunRow
  <1>2. r = [id |-> r.id, actor |-> r.actor, key |-> r.key, body |-> r.body,
             status |-> r.status, version |-> r.version]
    BY DEF Admissions!RunRow
  <1>3. u = [id |-> r.id, actor |-> r.actor, key |-> r.key, body |-> r.body,
             status |-> st, version |-> r.version + 1]
    BY <1>2 DEF RowWith
  <1>4. st \in Admissions!RunStatus
    BY DEF Admissions!RunStatus
  <1>5. QED
    BY <1>1, <1>3, <1>4 DEF Admissions!RunRow

LEMMA QueuedFinite ==
    ASSUME NEW R, IsFiniteSet(R)
    PROVE  IsFiniteSet(Queued(R)) /\ Cardinality(Queued(R)) \in Nat
  <1>1. Queued(R) \in SUBSET R
    BY DEF Queued
  <1>2. QED
    BY <1>1, FS_Subset, FS_CardinalityType

\* A run that leaves the queue: its row is another one with the same identity.
LEMMA EndOfRun ==
    ASSUME NEW R, NEW I, RunsHold(R, I), NEW r \in R, NEW u, u \in Admissions!RunRow,
           u.id = r.id, u.actor = r.actor, u.key = r.key, u.body = r.body,
           u.status # "queued", NEW T, T = (R \ {r}) \cup {u}
    PROVE  /\ RunsHold(T, I)
           /\ Cardinality(Queued(T)) =
                 IF r.status = "queued" THEN Cardinality(Queued(R)) - 1
                 ELSE Cardinality(Queued(R))
           /\ r.status = "queued" => Cardinality(Queued(R)) > 0
           /\ \A w : Answered(w, R) => Answered(w, T)
  <1>1. IsFiniteSet(R) /\ \A p, q \in R : p.id = q.id => p = q
    BY DEF RunsHold
  <1>2. u \notin R \ {r}
    BY <1>1
  <1>3. /\ IsFiniteSet(R \ {r}) /\ Cardinality(R \ {r}) = Cardinality(R) - 1
        /\ Cardinality(R) \in Nat
    BY <1>1, FS_RemoveElement, FS_CardinalityType
  <1>4. IsFiniteSet(T) /\ Cardinality(T) = Cardinality(R \ {r}) + 1
    BY <1>2, <1>3, FS_AddElement
  <1>5. Cardinality(T) = Cardinality(R)
    BY <1>3, <1>4
  <1>6. \A q \in T : q = u \/ q \in R
    OBVIOUS
  <1>7. \A q \in R : q = r \/ q \in T
    OBVIOUS
  <1>8. RunsHold(T, I)
    <2>1. \A q \in T : /\ q \in Admissions!RunRow /\ q.id \in 1..Cardinality(T)
                       /\ I[q.actor][q.key] = [body |-> q.body, run |-> q.id]
      <3>1. \A q \in R : /\ q \in Admissions!RunRow /\ q.id \in 1..Cardinality(R)
                         /\ I[q.actor][q.key] = [body |-> q.body, run |-> q.id]
        BY DEF RunsHold
      <3>2. QED
        BY <3>1, <1>5, <1>6
    <2>2. ASSUME NEW p \in T, NEW q \in T, p.id = q.id \/ (p.actor = q.actor /\ p.key = q.key)
          PROVE  p = q
      BY <2>2, <1>2, <1>6 DEF RunsHold
    <2>3. ASSUME NEW a \in Actors, NEW k \in Keys, I[a][k] # None
          PROVE  \E q \in T : q.actor = a /\ q.key = k
      BY <2>3, <1>7 DEF RunsHold
    <2>4. QED
      BY <1>4, <2>1, <2>2, <2>3 DEF RunsHold
  <1>9. Queued(T) = Queued(R) \ {r}
    BY DEF Queued
  <1>10. IsFiniteSet(Queued(R)) /\ Cardinality(Queued(R)) \in Nat
    BY <1>1, QueuedFinite
  <1>11. r.status = "queued" <=> r \in Queued(R)
    BY DEF Queued
  <1>12. Cardinality(Queued(T)) = IF r \in Queued(R) THEN Cardinality(Queued(R)) - 1
                                  ELSE Cardinality(Queued(R))
    <2>1. Cardinality(Queued(R) \ {r}) = IF r \in Queued(R) THEN Cardinality(Queued(R)) - 1
                                         ELSE Cardinality(Queued(R))
      BY <1>10, FS_RemoveElement
    <2>2. QED
      BY <2>1, <1>9
  <1>13. r \in Queued(R) => Cardinality(Queued(R)) > 0
    BY <1>10, FS_EmptySet
  <1>14. ASSUME NEW w, Answered(w, R)
         PROVE  Answered(w, T)
    BY <1>14, <1>7 DEF Answered
  <1>15. QED
    BY <1>8, <1>11, <1>12, <1>13, <1>14

\* J is I with the record of run u.
Recorded(I, u, J) ==
    \A a \in Actors, k \in Keys :
        J[a][k] = IF a = u.actor /\ k = u.key THEN [body |-> u.body, run |-> u.id]
                  ELSE I[a][k]

\* A run that is admitted: the next number, for a key without a record.
LEMMA NewRun ==
    ASSUME NEW R, NEW I, RunsHold(R, I), NEW u, u \in Admissions!RunRow,
           u.id = Cardinality(R) + 1, I[u.actor][u.key] = None,
           NEW J, Recorded(I, u, J), NEW T, T = R \cup {u}
    PROVE  /\ RunsHold(T, J)
           /\ Cardinality(Queued(T)) =
                 IF u.status = "queued" THEN Cardinality(Queued(R)) + 1
                 ELSE Cardinality(Queued(R))
           /\ \A w : Answered(w, R) => Answered(w, T)
  <1>1. /\ IsFiniteSet(R) /\ Cardinality(R) \in Nat
    BY FS_CardinalityType DEF RunsHold
  <1>2. \A q \in R : /\ q \in Admissions!RunRow /\ q.id \in 1..Cardinality(R)
                     /\ I[q.actor][q.key] = [body |-> q.body, run |-> q.id]
    BY DEF RunsHold
  <1>3. u \notin R /\ \A q \in R : q.id # u.id
    <2>1. \A i \in 1..Cardinality(R) : i # Cardinality(R) + 1
      BY <1>1
    <2>2. QED
      BY <1>2, <2>1
  <1>4. IsFiniteSet(T) /\ Cardinality(T) = Cardinality(R) + 1
    BY <1>1, <1>3, FS_AddElement
  <1>5. u.actor \in Actors /\ u.key \in Keys /\ u.body \in Bodies /\ u.id \in Nat
    BY DEF Admissions!RunRow
  <1>6. \A q \in R : q.actor \in Actors /\ q.key \in Keys /\ q.body \in Bodies /\ q.id \in Nat
    BY <1>2 DEF Admissions!RunRow
  <1>7. ASSUME NEW q \in R
        PROVE  ~(q.actor = u.actor /\ q.key = u.key)
    <2>1. [body |-> q.body, run |-> q.id] # None
      BY <1>6, ControlAssumption DEF ControlAssumption
    <2>2. QED
      BY <2>1, <1>2
  <1>8. /\ J[u.actor][u.key] = [body |-> u.body, run |-> u.id]
        /\ \A a \in Actors, k \in Keys : ~(a = u.actor /\ k = u.key) => J[a][k] = I[a][k]
    BY <1>5 DEF Recorded
  <1>9. ASSUME NEW q \in T
        PROVE  /\ q \in Admissions!RunRow /\ q.id \in 1..Cardinality(T)
               /\ J[q.actor][q.key] = [body |-> q.body, run |-> q.id]
    <2>1. CASE q = u
      BY <2>1, <1>1, <1>4, <1>5, <1>8
    <2>2. CASE q \in R
      <3>1. J[q.actor][q.key] = I[q.actor][q.key]
        BY <2>2, <1>6, <1>7, <1>8
      <3>2. q.id \in 1..Cardinality(T)
        <4>1. \A i \in 1..Cardinality(R) : i \in 1..Cardinality(R) + 1
          BY <1>1
        <4>2. QED
          BY <4>1, <2>2, <1>2, <1>4
      <3>3. QED
        BY <2>2, <3>1, <3>2, <1>2
    <2>3. QED
      BY <2>1, <2>2
  <1>10. \A p, q \in R : p.id = q.id \/ (p.actor = q.actor /\ p.key = q.key) => p = q
    BY DEF RunsHold
  <1>11. \A p, q \in T : p.id = q.id \/ (p.actor = q.actor /\ p.key = q.key) => p = q
    BY <1>3, <1>7, <1>10
  <1>12. ASSUME NEW a \in Actors, NEW k \in Keys, J[a][k] # None
         PROVE  \E q \in T : q.actor = a /\ q.key = k
    BY <1>8, <1>12 DEF RunsHold
  <1>13. RunsHold(T, J)
    BY <1>4, <1>9, <1>11, <1>12 DEF RunsHold
  <1>14. Queued(T) = IF u.status = "queued" THEN Queued(R) \cup {u} ELSE Queued(R)
    BY DEF Queued
  <1>15. IsFiniteSet(Queued(R)) /\ u \notin Queued(R)
    BY <1>1, <1>3, QueuedFinite DEF Queued
  <1>16. Cardinality(Queued(T)) = IF u.status = "queued" THEN Cardinality(Queued(R)) + 1
                                  ELSE Cardinality(Queued(R))
    BY <1>14, <1>15, FS_AddElement
  <1>17. ASSUME NEW w, Answered(w, R)
         PROVE  Answered(w, T)
    BY <1>17 DEF Answered
  <1>18. QED
    BY <1>13, <1>16, <1>17

\* What a row holds when a request that read the clock at now has locked it.
Refill(b, full, rate, now) ==
    IF b = None THEN full
    ELSE Admissions!Min({full, b.tokens + Admissions!Max({0, now - b.last}) * rate})

LEMMA RefillBounds ==
    ASSUME NEW b, b \in Admissions!BucketRow \cup {None}, NEW full, full \in Nat,
           NEW rate, rate \in Nat, NEW now, now \in Nat
    PROVE  /\ Refill(b, full, rate, now) \in Nat
           /\ b = None => Refill(b, full, rate, now) = full
           /\ b # None /\ ~(now < b.last) =>
                 Refill(b, full, rate, now) <= b.tokens + (now - b.last) * rate
  <1>1. CASE b = None
    BY <1>1 DEF Refill
  <1>2. CASE b # None
    <2> DEFINE gap == IF now - b.last > 0 THEN now - b.last ELSE 0
               filled == b.tokens + gap * rate
    <2>1. b.tokens \in Nat /\ b.last \in Nat
      BY <1>2 DEF Admissions!BucketRow
    <2>2. Admissions!Max({0, now - b.last}) = gap
      BY <2>1, MaxOfTwo
    <2>3. gap \in Nat
      BY <2>1
    <2>4. gap * rate \in Nat
      BY <2>3, TimesNat
    <2>5. filled \in Nat
      BY <2>1, <2>4
    <2>6. Refill(b, full, rate, now) = Admissions!Min({full, filled})
      BY <1>2, <2>2 DEF Refill
    <2>7. ~(now < b.last) => filled = b.tokens + (now - b.last) * rate
      <3>1. ~(now < b.last) => gap = now - b.last
        BY <2>1
      <3>2. QED
        BY <3>1
    <2> HIDE DEF filled, gap
    <2>8. Admissions!Min({full, filled}) = IF full < filled THEN full ELSE filled
      BY <2>5, MinOfTwo
    <2>9. Refill(b, full, rate, now) \in Nat /\ Refill(b, full, rate, now) <= filled
      BY <2>5, <2>6, <2>8
    <2>10. QED
      BY <1>2, <2>7, <2>9
  <1>3. QED
    BY <1>1, <1>2

LEMMA Remainder ==
    ASSUME NEW rest, rest \in Nat, NEW cost, cost \in Nat, cost <= rest
    PROVE  rest - cost \in Nat
  OBVIOUS

LEMMA FirstCharge ==
    ASSUME NEW rest, rest \in Nat, NEW cost, cost \in Nat, NEW gained, gained \in Nat
    PROVE  (rest - cost) + (0 + cost) <= rest + gained
  OBVIOUS

LEMMA LaterCharge ==
    ASSUME NEW rest, rest \in Nat, NEW cost, cost \in Nat, NEW spent, spent \in Nat,
           NEW full, full \in Nat, NEW before, before \in Nat, NEW since, since \in Nat,
           NEW tokens, tokens \in Nat, rest <= tokens + since,
           tokens + spent <= full + before
    PROVE  (rest - cost) + (spent + cost) <= full + (since + before)
  OBVIOUS

\* A row that is refilled and charged, for n more requests.
LEMMA ChargedRow ==
    ASSUME NEW time, time \in Nat, NEW now, now \in Nat, now <= time,
           NEW full, full \in Nat, NEW rate, rate \in Nat,
           NEW b, b \in Admissions!BucketRow \cup {None}, NEW n, n \in Nat,
           Dated(b, n, time), NEW more, NEW cost,
           \/ more = 0 /\ cost = 0
           \/ more = 1 /\ cost = MicroToken,
           NEW rest, rest = Refill(b, full, rate, now), cost <= rest,
           NEW d, d = [tokens |-> rest - cost, last |-> now]
    PROVE  /\ d \in Admissions!BucketRow
           /\ Dated(d, n + more, time)
           /\ Limited(b, n, full, rate) /\ ~(b # None /\ now < b.last)
                 => Limited(d, n + more, full, rate)
  <1> DEFINE spent == n * MicroToken
             gained == rate * now
             before == rate * b.last
             since == (now - b.last) * rate
             total == (n + more) * MicroToken
  <1>1. MicroToken \in Nat /\ more \in Nat /\ cost \in Nat
    BY ControlAssumption DEF ControlAssumption
  <1>2. /\ rest \in Nat
        /\ b = None => rest = full
        /\ b # None /\ ~(now < b.last) => rest <= b.tokens + since
    BY RefillBounds
  <1>3. spent \in Nat /\ gained \in Nat
    BY <1>1, TimesNat
  <1>4. total = spent + cost
    <2>1. CASE more = 0
      BY <2>1, <1>1
    <2>2. CASE more = 1
      BY <2>2, <1>1
    <2>3. QED
      BY <2>1, <2>2
  <1>5. n = 0 => spent = 0
    BY <1>1
  <1>6. d.tokens = rest - cost /\ d.last = now
    OBVIOUS
  <1>7. /\ b = None => n = 0
        /\ Limited(b, n, full, rate) => (b # None => b.tokens + spent <= full + before)
    BY DEF Dated, Limited
  <1>8. rate * d.last = gained
    BY <1>6
  <1>9. b # None => b.tokens \in Nat /\ b.last \in Nat
    BY DEF Admissions!BucketRow
  <1>10. ASSUME b # None, ~(now < b.last)
         PROVE  since + before = gained /\ since \in Nat /\ before \in Nat
    <2>1. b.last \in Nat /\ now - b.last \in Nat
      BY <1>9, <1>10
    <2>2. since + before = gained
      BY <2>1, TimesDifference
    <2>3. since \in Nat /\ before \in Nat
      BY <2>1, TimesNat
    <2>4. QED
      BY <2>2, <2>3
  <1>11. Limited(d, n + more, full, rate) <=>
            (d # None => d.tokens + total <= full + rate * d.last)
    BY DEF Limited
  <1> HIDE DEF spent, gained, before, since, total
  <1>12. d \in Admissions!BucketRow
    <2>1. rest - cost \in Nat
      BY <1>1, <1>2, Remainder
    <2>2. QED
      BY <2>1 DEF Admissions!BucketRow
  <1>13. d # None
    BY <1>12, ControlAssumption DEF ControlAssumption, Admissions!BucketRow
  <1>14. ASSUME Limited(b, n, full, rate), ~(b # None /\ now < b.last)
         PROVE  d.tokens + total <= full + gained
    <2>1. CASE b = None
      <3>1. rest = full /\ spent = 0
        BY <2>1, <1>2, <1>5, <1>7
      <3>2. (rest - cost) + (0 + cost) <= rest + gained
        BY <1>1, <1>2, <1>3, FirstCharge
      <3>3. QED
        BY <3>1, <3>2, <1>4, <1>6
    <2>2. CASE b # None
      <3>1. /\ since + before = gained /\ since \in Nat /\ before \in Nat
            /\ rest <= b.tokens + since /\ b.tokens + spent <= full + before
            /\ b.tokens \in Nat
        BY <2>2, <1>2, <1>7, <1>9, <1>10, <1>14
      <3>2. (rest - cost) + (spent + cost) <= full + (since + before)
        BY <3>1, <1>1, <1>2, <1>3, LaterCharge
      <3>3. QED
        BY <3>1, <3>2, <1>4, <1>6
    <2>3. QED
      BY <2>1, <2>2
  <1>15. Dated(d, n + more, time)
    BY <1>6, <1>13 DEF Dated
  <1>16. QED
    BY <1>8, <1>11, <1>12, <1>14, <1>15

\* A row that stays, while the clock runs.
LEMMA KeptRow ==
    ASSUME NEW full, NEW rate, NEW time, NEW b, NEW n, NEW moved,
           Holds(b, n, moved, full, rate, time),
           NEW after, time \in Nat, after \in Nat, time <= after,
           b \in Admissions!BucketRow \cup {None}
    PROVE  Holds(b, n, moved, full, rate, after)
  <1>1. b # None => b.last \in Nat
    BY DEF Admissions!BucketRow
  <1>2. QED
    BY <1>1 DEF Holds, Dated

LEMMA RefilledRow ==
    ASSUME NEW c, NEW h, NEW now
    PROVE  Admissions!Refilled(c, h, now)
               = Refill(bucket[c][h], FullOf(c, h), RateOf(c, h), now)
  BY DEF Admissions!Refilled, Refill, FullOf, RateOf

LEMMA Policy ==
    ASSUME NEW c, c \in Admissions!Classes, NEW h, h \in Admissions!Holders
    PROVE  FullOf(c, h) \in Nat /\ RateOf(c, h) \in Nat
  <1>1. /\ Admissions!Scope(h) \in {"actor", "organization"} /\ MicroToken \in Nat
        /\ Burst[c][Admissions!Scope(h)] \in Nat /\ Rate[c][Admissions!Scope(h)] \in Nat
    BY ControlAssumption DEF ControlAssumption, Admissions!Scope, Admissions!Classes
  <1>2. QED
    BY <1>1, TimesNat DEF FullOf, RateOf

BucketsTyped ==
    /\ bucket \in [Admissions!Classes -> [Admissions!Holders -> Admissions!BucketRow \cup {None}]]
    /\ served \in [Admissions!Classes -> [Admissions!Holders -> Nat]]
    /\ late \in [Admissions!Classes -> [Admissions!Holders -> BOOLEAN]]

BucketsHold ==
    \A c \in Admissions!Classes, h \in Admissions!Holders :
        Holds(bucket[c][h], served[c][h], late[c][h], FullOf(c, h), RateOf(c, h), admClock)

\* Rows that are charged, or only refilled.
LEMMA SettleOK ==
    ASSUME BucketsTyped, BucketsHold, admClock \in Nat, admClock' = admClock,
           NEW c, c \in Admissions!Classes, NEW a, a \in Actors,
           NEW now, now \in Nat, now <= admClock, NEW cost,
           \/ cost = 0
           \/ cost = MicroToken /\ Admissions!Affords(c, a, now),
           Admissions!Settle(c, a, now, cost)
    PROVE  BucketsTyped' /\ BucketsHold'
  <1> DEFINE more == IF cost = 0 THEN 0 ELSE 1
             Paid(h) == [tokens |-> Admissions!Refilled(c, h, now) - cost, last |-> now]
             Late(h) == late[c][h] \/ (bucket[c][h] # None /\ now < bucket[c][h].last)
             Pays(d, h) == d = c /\ h \in Admissions!Payers(a)
  <1>1. a # Org /\ MicroToken \in Nat /\ MicroToken # 0
    BY ControlAssumption DEF ControlAssumption
  <1>2. a \in Admissions!Holders /\ Org \in Admissions!Holders /\ Admissions!Payers(a) = {a, Org}
    BY DEF Admissions!Holders, Admissions!Payers
  <1>3. ASSUME NEW h, h \in Admissions!Payers(a)
        PROVE  /\ h \in Admissions!Holders
               /\ Paid(h) \in Admissions!BucketRow
               /\ Holds(Paid(h), served[c][h] + more, Late(h), FullOf(c, h), RateOf(c, h), admClock)
    <2>1. h \in Admissions!Holders
      BY <1>2, <1>3
    <2>2. FullOf(c, h) \in Nat /\ RateOf(c, h) \in Nat
      BY <2>1, Policy
    <2>3. /\ bucket[c][h] \in Admissions!BucketRow \cup {None} /\ served[c][h] \in Nat
          /\ late[c][h] \in BOOLEAN
          /\ Holds(bucket[c][h], served[c][h], late[c][h], FullOf(c, h), RateOf(c, h), admClock)
      BY <2>1 DEF BucketsTyped, BucketsHold
    <2>4. Admissions!Refilled(c, h, now) \in Nat
      BY <2>2, <2>3, RefilledRow, RefillBounds
    <2>5. cost <= Admissions!Refilled(c, h, now)
      <3>1. CASE cost = 0
        BY <3>1, <2>4
      <3>2. CASE cost = MicroToken /\ Admissions!Affords(c, a, now)
        BY <3>2, <2>4, <1>1, <1>3 DEF Admissions!Affords
      <3>3. QED
        BY <3>1, <3>2
    <2>6. (more = 0 /\ cost = 0) \/ (more = 1 /\ cost = MicroToken)
      BY <1>1
    <2>7. Paid(h) = [tokens |-> Refill(bucket[c][h], FullOf(c, h), RateOf(c, h), now) - cost,
                    last |-> now]
      BY RefilledRow
    <2>8. cost <= Refill(bucket[c][h], FullOf(c, h), RateOf(c, h), now)
      BY <2>5, RefilledRow
    <2>11. Dated(bucket[c][h], served[c][h], admClock)
      BY <2>3 DEF Holds
    <2> HIDE DEF more, Paid
    <2>12. /\ Paid(h) \in Admissions!BucketRow
           /\ Dated(Paid(h), served[c][h] + more, admClock)
           /\ Limited(bucket[c][h], served[c][h], FullOf(c, h), RateOf(c, h))
                 /\ ~(bucket[c][h] # None /\ now < bucket[c][h].last)
                 => Limited(Paid(h), served[c][h] + more, FullOf(c, h), RateOf(c, h))
      BY <2>2, <2>3, <2>6, <2>7, <2>8, <2>11, ChargedRow
    <2>9. Holds(Paid(h), served[c][h] + more, Late(h), FullOf(c, h), RateOf(c, h), admClock)
      <3>1. ASSUME ~Late(h)
            PROVE  Limited(Paid(h), served[c][h] + more, FullOf(c, h), RateOf(c, h))
        BY <3>1, <2>3, <2>12 DEF Holds
      <3> HIDE DEF Late
      <3>2. QED
        BY <3>1, <2>12 DEF Holds
    <2>10. QED
      BY <2>1, <2>9, <2>12
  <1>4. bucket' = [bucket EXCEPT ![c] = [h \in Admissions!Holders |->
                      IF h \in Admissions!Payers(a) THEN Paid(h) ELSE @[h]]]
    BY DEF Admissions!Settle
  <1>5. late' = [late EXCEPT ![c] = [h \in Admissions!Holders |->
                    @[h] \/ (h \in Admissions!Payers(a) /\ bucket[c][h] # None
                                /\ now < bucket[c][h].last)]]
    BY DEF Admissions!Settle
  <1>6. served' = IF cost = 0 THEN served
                  ELSE [served EXCEPT ![c][a] = @ + 1, ![c][Org] = @ + 1]
    BY DEF Admissions!Settle
  <1> HIDE DEF Paid
  <1>7. \A d \in Admissions!Classes, h \in Admissions!Holders :
            bucket'[d][h] = IF Pays(d, h) THEN Paid(h) ELSE bucket[d][h]
    BY <1>4 DEF BucketsTyped
  <1>8. \A d \in Admissions!Classes, h \in Admissions!Holders :
            late'[d][h] = IF Pays(d, h) THEN Late(h) ELSE late[d][h]
    <2>1. \A d \in Admissions!Classes, h \in Admissions!Holders : late[d][h] \in BOOLEAN
      BY DEF BucketsTyped
    <2>2. \A d \in Admissions!Classes \ {c}, h \in Admissions!Holders : late'[d][h] = late[d][h]
      BY <1>5 DEF BucketsTyped
    <2>3. \A h \in Admissions!Holders : late'[c][h] =
              (late[c][h] \/ (h \in Admissions!Payers(a) /\ bucket[c][h] # None
                                /\ now < bucket[c][h].last))
      BY <1>5 DEF BucketsTyped
    <2>4. QED
      BY <2>1, <2>2, <2>3
  <1>9. \A d \in Admissions!Classes, h \in Admissions!Holders :
            served'[d][h] = IF Pays(d, h) THEN served[d][h] + more ELSE served[d][h]
    <2>1. \A d \in Admissions!Classes, h \in Admissions!Holders : served[d][h] \in Nat
      BY DEF BucketsTyped
    <2>2. CASE cost = 0
      BY <2>1, <2>2, <1>6
    <2>3. CASE cost # 0
      <3>1. served' = [served EXCEPT ![c] = [served[c] EXCEPT ![a] = @ + 1, ![Org] = @ + 1]]
        BY <2>3, <1>1, <1>2, <1>6 DEF BucketsTyped
      <3>2. QED
        BY <3>1, <2>1, <2>3, <1>1, <1>2 DEF BucketsTyped
    <2>4. QED
      BY <2>2, <2>3
  <1>10. BucketsTyped'
    <2>1. bucket' \in [Admissions!Classes -> [Admissions!Holders -> Admissions!BucketRow \cup {None}]]
      BY <1>3, <1>4 DEF BucketsTyped
    <2>2. late' \in [Admissions!Classes -> [Admissions!Holders -> BOOLEAN]]
      BY <1>5 DEF BucketsTyped
    <2>3. served' \in [Admissions!Classes -> [Admissions!Holders -> Nat]]
      <3>1. CASE cost = 0
        BY <3>1, <1>6 DEF BucketsTyped
      <3>2. CASE cost # 0
        <4>1. served' = [served EXCEPT ![c] = [served[c] EXCEPT ![a] = @ + 1, ![Org] = @ + 1]]
          BY <3>2, <1>1, <1>2, <1>6 DEF BucketsTyped
        <4>2. [served[c] EXCEPT ![a] = @ + 1, ![Org] = @ + 1] \in [Admissions!Holders -> Nat]
          <5>1. served[c] \in [Admissions!Holders -> Nat]
            BY DEF BucketsTyped
          <5>2. [served[c] EXCEPT ![a] = @ + 1] \in [Admissions!Holders -> Nat]
            BY <5>1, <1>2
          <5>3. [served[c] EXCEPT ![a] = @ + 1, ![Org] = @ + 1]
                    = [[served[c] EXCEPT ![a] = @ + 1] EXCEPT ![Org] = @ + 1]
            BY <5>1, <1>1, <1>2
          <5>4. QED
            BY <5>2, <5>3, <1>2
        <4>3. QED
          BY <4>1, <4>2 DEF BucketsTyped
      <3>3. QED
        BY <3>1, <3>2
    <2>4. QED
      BY <2>1, <2>2, <2>3 DEF BucketsTyped
  <1> HIDE DEF Pays, Late, more
  <1>11. ASSUME NEW d \in Admissions!Classes, NEW h \in Admissions!Holders
         PROVE  Holds(bucket'[d][h], served'[d][h], late'[d][h], FullOf(d, h), RateOf(d, h), admClock)
    <2>1. CASE Pays(d, h)
      <3>1. d = c /\ h \in Admissions!Payers(a)
        BY <2>1 DEF Pays
      <3>2. QED
        BY <3>1, <2>1, <1>3, <1>7, <1>8, <1>9
    <2>2. CASE ~Pays(d, h)
      BY <2>2, <1>7, <1>8, <1>9 DEF BucketsHold
    <2>3. QED
      BY <2>1, <2>2
  <1>12. QED
    BY <1>10, <1>11 DEF BucketsHold

RowsTyped ==
    /\ ready \in 0..Capacity /\ runs \subseteq Admissions!RunRow
    /\ idem \in [Actors -> [Keys -> Admissions!IdempotencyRecord \cup {None}]]
    /\ RunsHold(runs, idem) /\ ready = Cardinality(Queued(runs))

SessionsHold ==
    /\ call \in [Sessions -> Admissions!Calls]
    /\ \A s \in Sessions : Answered(call[s], runs) /\ Works(call[s], admClock)

ClockTyped == admClock \in 0..MaxClock /\ traffic \in Traffic

LEMMA AdmissionParts ==
    AdmissionInv <=> RowsTyped /\ BucketsTyped /\ BucketsHold /\ SessionsHold /\ ClockTyped
  BY DEF AdmissionInv, Admissions!TypeOK, RowsTyped, BucketsTyped, BucketsHold, SessionsHold,
         ClockTyped

LEMMA AdmissionWhole ==
    ASSUME RowsTyped', BucketsTyped', BucketsHold', SessionsHold', ClockTyped'
    PROVE  AdmissionInv'
  BY DEF AdmissionInv, Admissions!TypeOK, RowsTyped, BucketsTyped, BucketsHold, SessionsHold,
         ClockTyped

LEMMA TimeIsNat == ClockTyped => admClock \in Nat
  BY ControlAssumption DEF ClockTyped, ControlAssumption

\* A step of s alone, after which it has u before it.
LEMMA SessionStep ==
    ASSUME SessionsHold, NEW s, s \in Sessions, NEW u, u \in Admissions!Calls,
           call' = [call EXCEPT ![s] = u], admClock' = admClock,
           \A w : Answered(w, runs) => Answered(w, runs'),
           Answered(u, runs'), Works(u, admClock)
    PROVE  SessionsHold'
  <1>1. /\ call' \in [Sessions -> Admissions!Calls] /\ call'[s] = u
        /\ \A t \in Sessions \ {s} : call'[t] = call[t]
    BY DEF SessionsHold
  <1>2. \A t \in Sessions : Answered(call'[t], runs') /\ Works(call'[t], admClock)
    BY <1>1 DEF SessionsHold
  <1>3. QED
    BY <1>1, <1>2 DEF SessionsHold

LEMMA EndStep ==
    ASSUME SessionsHold, NEW s, s \in Sessions, Admissions!End(s), admClock' = admClock,
           \A w : Answered(w, runs) => Answered(w, runs')
    PROVE  SessionsHold'
  <1>1. Admissions!Idle \in Admissions!Calls
    BY DEF Admissions!Idle, Admissions!Calls, Admissions!Classes
  <1>2. Answered(Admissions!Idle, runs') /\ Works(Admissions!Idle, admClock)
    BY DEF Answered, Works, Admissions!Idle
  <1>3. QED
    BY <1>1, <1>2, SessionStep DEF Admissions!End

AnsweredWith(w, answer, id) ==
    [w EXCEPT !.pc = "idle", !.now = 0, !.answer = answer, !.run = id]

LEMMA AnsweredWithFields ==
    ASSUME NEW w, w \in Admissions!Calls, NEW ans, ans \in {"run", "error"},
           NEW id, id \in Nat, NEW u, u = AnsweredWith(w, ans, id)
    PROVE  /\ u \in Admissions!Calls
           /\ u.pc = "idle" /\ u.answer = ans /\ u.run = id /\ u.actor = w.actor
           /\ u.key = w.key /\ u.body = w.body
  BY DEF AnsweredWith, Admissions!Calls

LEMMA AnswerStep ==
    ASSUME SessionsHold, NEW s, s \in Sessions, NEW ans, ans \in {"run", "error"},
           NEW id, id \in Nat, Admissions!Answer(s, ans, id), admClock' = admClock,
           \A w : Answered(w, runs) => Answered(w, runs'),
           ans = "run" => \E r \in runs' : /\ r.id = id /\ r.actor = call[s].actor
                                           /\ r.key = call[s].key /\ r.body = call[s].body
    PROVE  SessionsHold'
  <1> DEFINE u == AnsweredWith(call[s], ans, id)
  <1>1. call[s] \in Admissions!Calls
    BY DEF SessionsHold
  <1>2. call' = [call EXCEPT ![s] = u]
    BY DEF Admissions!Answer, AnsweredWith, SessionsHold
  <1>3. u = AnsweredWith(call[s], ans, id)
    OBVIOUS
  <1> HIDE DEF u
  <1>4. /\ u \in Admissions!Calls
        /\ u.pc = "idle" /\ u.answer = ans /\ u.run = id /\ u.actor = call[s].actor
        /\ u.key = call[s].key /\ u.body = call[s].body
    BY <1>1, <1>3, AnsweredWithFields
  <1>5. Answered(u, runs') /\ Works(u, admClock)
    BY <1>4 DEF Answered, Works
  <1>6. QED
    BY <1>2, <1>4, <1>5, SessionStep

\* What a request is that has been received.
LEMMA AtWork ==
    ASSUME SessionsHold, ClockTyped, NEW s, s \in Sessions, call[s].pc # "idle"
    PROVE  /\ call[s].class \in Admissions!Classes /\ call[s].actor \in Actors
           /\ call[s].now \in Nat /\ call[s].now <= admClock
           /\ call[s].pc = "lookup" => call[s].class = "submit"
           /\ call[s].class = "submit" => call[s].key \in Keys /\ call[s].body \in Bodies
  BY DEF SessionsHold, Works, Admissions!Calls, Admissions!Classes

LEMMA RowsStay ==
    ASSUME RowsTyped, UNCHANGED <<runs, idem, ready>>
    PROVE  RowsTyped' /\ \A w : Answered(w, runs) => Answered(w, runs')
  BY DEF RowsTyped

LEMMA BucketsStay ==
    ASSUME BucketsTyped, BucketsHold, UNCHANGED <<bucket, served, late, admClock>>
    PROVE  BucketsTyped' /\ BucketsHold'
  BY DEF BucketsTyped, BucketsHold

LEMMA ClockStays ==
    ASSUME ClockTyped, UNCHANGED <<admClock, traffic>>
    PROVE  ClockTyped'
  BY DEF ClockTyped

\* A request that is charged, or refused with its rows refilled.
LEMMA ChargeStep ==
    ASSUME AdmissionInv, NEW s, s \in Sessions, call[s].pc # "idle", admClock' = admClock,
           \/ Admissions!Charge(s) /\ Admissions!Affordable(s)
           \/ Admissions!Refuse(s)
    PROVE  BucketsTyped' /\ BucketsHold'
  <1>1. BucketsTyped /\ BucketsHold /\ SessionsHold /\ ClockTyped /\ admClock \in Nat
    BY AdmissionParts, TimeIsNat
  <1>2. /\ call[s].class \in Admissions!Classes /\ call[s].actor \in Actors
        /\ call[s].now \in Nat /\ call[s].now <= admClock
    BY <1>1, AtWork
  <1>3. CASE Admissions!Charge(s) /\ Admissions!Affordable(s)
    BY <1>1, <1>2, <1>3, SettleOK DEF Admissions!Charge, Admissions!Affordable
  <1>4. CASE Admissions!Refuse(s)
    BY <1>1, <1>2, <1>4, SettleOK DEF Admissions!Refuse
  <1>5. QED
    BY <1>3, <1>4

-----------------------------------------------------------------------------
(* The steps of admission.                                                 *)

LEMMA ReceiveOK ==
    ASSUME AdmissionInv, NEW s, s \in Sessions, NEW class, class \in Admissions!Classes,
           NEW pc0, NEW a, a \in Actors, NEW k, k \in Keys \cup {None},
           NEW b, b \in Bodies \cup {None}, NEW id, id \in Nat, NEW ver, ver \in Nat,
           pc0 \in {"lookup", "transact"},
           pc0 = "lookup" \/ class = "submit" => class = "submit" /\ k \in Keys /\ b \in Bodies,
           Admissions!Receive(s, class, pc0, a, k, b, id, ver)
    PROVE  AdmissionInv'
  <1> DEFINE u == [class |-> class, pc |-> pc0, actor |-> a, key |-> k, body |-> b,
                   now |-> admClock, run |-> id, version |-> ver, answer |-> "none"]
  <1>1. RowsTyped /\ BucketsTyped /\ BucketsHold /\ SessionsHold /\ ClockTyped /\ admClock \in Nat
    BY AdmissionParts, TimeIsNat
  <1>2. call' = [call EXCEPT ![s] = u]
    BY DEF Admissions!Receive
  <1>3. u \in Admissions!Calls
    BY <1>1 DEF Admissions!Calls
  <1>4. Answered(u, runs') /\ Works(u, admClock)
    BY <1>1 DEF Answered, Works
  <1>5. UNCHANGED <<runs, idem, ready, bucket, served, late, admClock, traffic>>
    BY DEF Admissions!Receive
  <1> HIDE DEF u
  <1>6. SessionsHold'
    BY <1>1, <1>2, <1>3, <1>4, <1>5, RowsStay, SessionStep
  <1>7. RowsTyped' /\ BucketsTyped' /\ BucketsHold' /\ ClockTyped'
    BY <1>1, <1>5, RowsStay, BucketsStay, ClockStays
  <1>8. QED
    BY <1>6, <1>7, AdmissionWhole

LEMMA ReceivedOK ==
    ASSUME AdmissionInv, NEW s, s \in Sessions,
           Admissions!Submit(s) \/ Admissions!ReadRun(s) \/ Admissions!CancelRun(s)
    PROVE  AdmissionInv'
  <1>1. traffic.actors \subseteq Actors /\ traffic.bodies \subseteq Bodies
    BY AdmissionParts, ControlAssumption DEF ClockTyped, ControlAssumption
  <1>2. \A r \in runs : r.id \in Nat /\ r.version \in Nat
    BY AdmissionParts DEF RowsTyped, Admissions!RunRow
  <1>3. CASE Admissions!Submit(s)
    <2>1. PICK a \in traffic.actors, k \in Keys, b \in traffic.bodies :
              Admissions!Receive(s, "submit", "lookup", a, k, b, 0, 0)
      BY <1>3 DEF Admissions!Submit
    <2>2. QED
      BY <2>1, <1>1, ReceiveOK DEF Admissions!Classes
  <1>4. CASE Admissions!ReadRun(s)
    <2>1. PICK a \in traffic.actors :
              Admissions!Receive(s, "read", "transact", a, None, None, 0, 0)
      BY <1>4 DEF Admissions!ReadRun
    <2>2. QED
      BY <2>1, <1>1, ReceiveOK DEF Admissions!Classes
  <1>5. CASE Admissions!CancelRun(s)
    <2>1. PICK a \in traffic.actors :
              \/ Admissions!Receive(s, "mutate", "transact", a, None, None, 0, 1)
              \/ \E r \in runs :
                    Admissions!Receive(s, "mutate", "transact", a, None, None, r.id, r.version)
      BY <1>5 DEF Admissions!CancelRun
    <2>2. QED
      BY <2>1, <1>1, <1>2, ReceiveOK DEF Admissions!Classes
  <1>6. QED
    BY <1>3, <1>4, <1>5

ToTransact(w) == [w EXCEPT !.pc = "transact"]

LEMMA ToTransactFields ==
    ASSUME NEW w, w \in Admissions!Calls, NEW u, u = ToTransact(w)
    PROVE  /\ u \in Admissions!Calls /\ u.pc = "transact"
           /\ u.class = w.class /\ u.actor = w.actor /\ u.key = w.key /\ u.body = w.body
           /\ u.now = w.now /\ u.run = w.run /\ u.answer = w.answer
  BY DEF ToTransact, Admissions!Calls

LEMMA LookupOK ==
    ASSUME AdmissionInv, NEW s, s \in Sessions, Admissions!Lookup(s)
    PROVE  AdmissionInv'
  <1>1. RowsTyped /\ BucketsTyped /\ BucketsHold /\ SessionsHold /\ ClockTyped
    BY AdmissionParts
  <1>2. UNCHANGED <<runs, idem, ready, bucket, served, late, admClock, traffic>>
    BY DEF Admissions!Lookup
  <1>3. /\ call[s].pc = "lookup" /\ call[s].class = "submit" /\ call[s].actor \in Actors
        /\ call[s].key \in Keys /\ call[s].body \in Bodies /\ call[s] \in Admissions!Calls
    BY <1>1, AtWork DEF Admissions!Lookup, SessionsHold
  <1>4. RowsTyped' /\ BucketsTyped' /\ BucketsHold' /\ ClockTyped'
    BY <1>1, <1>2, RowsStay, BucketsStay, ClockStays
  <1>5. \A w : Answered(w, runs) => Answered(w, runs')
    BY <1>2
  <1>6. CASE call' = [call EXCEPT ![s].pc = "transact"]
    <2> DEFINE u == ToTransact(call[s])
    <2>1. call' = [call EXCEPT ![s] = u]
      BY <1>1, <1>6 DEF SessionsHold, ToTransact
    <2>2. u = ToTransact(call[s])
      OBVIOUS
    <2> HIDE DEF u
    <2>3. /\ u \in Admissions!Calls /\ u.pc = "transact"
          /\ u.class = call[s].class /\ u.actor = call[s].actor /\ u.key = call[s].key
          /\ u.body = call[s].body
          /\ u.now = call[s].now /\ u.run = call[s].run /\ u.answer = call[s].answer
      BY <2>2, <1>3, ToTransactFields
    <2>4. Answered(call[s], runs) /\ Works(call[s], admClock)
      BY <1>1 DEF SessionsHold
    <2>5. Answered(u, runs') /\ Works(u, admClock)
      BY <2>3, <2>4, <1>2, <1>3 DEF Answered, Works
    <2>6. SessionsHold'
      BY <2>1, <2>3, <2>5, <1>1, <1>2, <1>5, SessionStep
    <2>7. QED
      BY <2>6, <1>4, AdmissionWhole
  <1>7. CASE /\ Admissions!Known(s) # None /\ Admissions!SameBody(s)
             /\ Admissions!Answer(s, "run", Admissions!Known(s).run)
    <2>1. PICK r \in runs : r.actor = call[s].actor /\ r.key = call[s].key
      BY <1>1, <1>3, <1>7 DEF RowsTyped, RunsHold, Admissions!Known
    <2>2. Admissions!Known(s) = [body |-> r.body, run |-> r.id] /\ r.id \in Nat
      BY <2>1, <1>1 DEF RowsTyped, RunsHold, Admissions!Known, Admissions!RunRow
    <2>3. r.body = call[s].body /\ r.id = Admissions!Known(s).run
      BY <2>2, <1>7 DEF Admissions!SameBody
    <2>4. SessionsHold'
      BY <2>1, <2>2, <2>3, <1>1, <1>2, <1>5, <1>7, AnswerStep
    <2>5. QED
      BY <2>4, <1>4, AdmissionWhole
  <1>8. CASE Admissions!End(s)
    BY <1>8, <1>1, <1>2, <1>4, <1>5, EndStep, AdmissionWhole
  <1>9. QED
    BY <1>6, <1>7, <1>8 DEF Admissions!Lookup

\* What ends without a run.
LEMMA EndedOK ==
    ASSUME AdmissionInv, NEW s, s \in Sessions,
           \/ Admissions!Deny(s) \/ Admissions!ExceedsRate(s) \/ Admissions!TurnAway(s)
           \/ Admissions!Read(s) \/ Admissions!RefuseCancel(s)
    PROVE  AdmissionInv'
  <1>1. RowsTyped /\ BucketsTyped /\ BucketsHold /\ SessionsHold /\ ClockTyped
    BY AdmissionParts
  <1>2. /\ UNCHANGED <<admClock, runs, idem, ready, traffic>> /\ Admissions!End(s)
        /\ call[s].pc # "idle"
    BY DEF Admissions!Deny, Admissions!ExceedsRate, Admissions!TurnAway, Admissions!Read,
           Admissions!RefuseCancel, Admissions!Transacts, Admissions!Submits
  <1>3. \/ UNCHANGED <<bucket, served, late>>
        \/ Admissions!Charge(s) /\ Admissions!Affordable(s)
        \/ Admissions!Refuse(s)
    BY DEF Admissions!Deny, Admissions!ExceedsRate, Admissions!TurnAway, Admissions!Read,
           Admissions!RefuseCancel, Admissions!Submits, Admissions!RollBack
  <1>4. BucketsTyped' /\ BucketsHold'
    BY <1>1, <1>2, <1>3, ChargeStep, BucketsStay
  <1>5. RowsTyped' /\ SessionsHold' /\ ClockTyped'
    BY <1>1, <1>2, RowsStay, EndStep, ClockStays
  <1>6. QED
    BY <1>4, <1>5, AdmissionWhole

LEMMA CollideOK ==
    ASSUME AdmissionInv, NEW s, s \in Sessions, Admissions!Collide(s)
    PROVE  AdmissionInv'
  <1>1. RowsTyped /\ BucketsTyped /\ BucketsHold /\ SessionsHold /\ ClockTyped
    BY AdmissionParts
  <1>2. /\ UNCHANGED <<admClock, runs, idem, ready, traffic>> /\ Admissions!Answer(s, "error", 0)
        /\ UNCHANGED <<bucket, served, late>>
    BY DEF Admissions!Collide, Admissions!RollBack
  <1>3. BucketsTyped' /\ BucketsHold' /\ RowsTyped' /\ ClockTyped'
    BY <1>1, <1>2, RowsStay, BucketsStay, ClockStays
  <1>4. SessionsHold'
    BY <1>1, <1>2, AnswerStep
  <1>5. QED
    BY <1>3, <1>4, AdmissionWhole

LEMMA AdmitOK ==
    ASSUME AdmissionInv, NEW s, s \in Sessions, Admissions!Admit(s)
    PROVE  AdmissionInv'
  <1> DEFINE id == Cardinality(runs) + 1
             status1 == IF Admissions!Queues(s) THEN "queued" ELSE "waiting_approval"
             u == [id |-> id, actor |-> call[s].actor, key |-> call[s].key,
                   body |-> call[s].body, version |-> 1, status |-> status1]
  <1>1. RowsTyped /\ BucketsTyped /\ BucketsHold /\ SessionsHold /\ ClockTyped
    BY AdmissionParts
  <1>2. /\ runs' = runs \cup {u}
        /\ idem' = [idem EXCEPT ![u.actor][u.key] = [body |-> u.body, run |-> u.id]]
        /\ ready' = IF u.status = "queued" THEN ready + 1 ELSE ready
        /\ Admissions!Answer(s, "run", id) /\ Admissions!Charge(s)
        /\ UNCHANGED <<admClock, traffic>>
    <2>1. /\ u.status = status1 /\ u.actor = call[s].actor /\ u.key = call[s].key
          /\ u.body = call[s].body /\ u.id = id
      OBVIOUS
    <2>2. status1 = "queued" <=> Admissions!Queues(s)
      OBVIOUS
    <2>3. /\ runs' = runs \cup {u}
          /\ idem' = [idem EXCEPT ![call[s].actor][call[s].key] =
                          [body |-> call[s].body, run |-> id]]
          /\ ready' = IF Admissions!Queues(s) THEN ready + 1 ELSE ready
          /\ Admissions!Answer(s, "run", id) /\ Admissions!Charge(s)
          /\ UNCHANGED <<admClock, traffic>>
      <3>1. runs' = runs \cup {u}
        BY SameCardinality DEF Admissions!Admit
      <3>2. idem' = [idem EXCEPT ![call[s].actor][call[s].key] =
                          [body |-> call[s].body, run |-> id]]
        BY SameCardinality DEF Admissions!Admit
      <3>3. ready' = IF Admissions!Queues(s) THEN ready + 1 ELSE ready
        BY DEF Admissions!Admit
      <3>4. Admissions!Answer(s, "run", id) /\ Admissions!Charge(s)
        BY SameCardinality DEF Admissions!Admit
      <3>5. UNCHANGED <<admClock, traffic>>
        BY DEF Admissions!Admit
      <3>6. QED
        BY <3>1, <3>2, <3>3, <3>4, <3>5
    <2> HIDE DEF u, id, status1
    <2>4. QED
      BY <2>1, <2>2, <2>3
  <1>3. /\ call[s].pc # "idle" /\ call[s].class = "submit" /\ Admissions!Affordable(s)
        /\ Admissions!Known(s) = None
        /\ u.status = "queued" => ready < Capacity
    <2>1. Admissions!Submits(s) /\ ~Admissions!Full(s) /\ Admissions!KeyFree(s)
      BY DEF Admissions!Admit
    <2>2. ready \in Nat /\ Capacity \in Nat
      BY <1>1, ControlAssumption DEF RowsTyped, ControlAssumption
    <2>3. QED
      BY <2>1, <2>2 DEF Admissions!Submits, Admissions!Transacts, Admissions!Full,
                        Admissions!KeyFree
  <1>4. call[s].actor \in Actors /\ call[s].key \in Keys /\ call[s].body \in Bodies
    BY <1>1, <1>3, AtWork
  <1>5. id \in Nat
    <2>1. Cardinality(runs) \in Nat
      BY <1>1, FS_CardinalityType DEF RowsTyped, RunsHold
    <2>2. QED
      BY <2>1
  <1>6. u \in Admissions!RunRow
    BY <1>4, <1>5 DEF Admissions!RunRow, Admissions!RunStatus
  <1>7. /\ u.id = id /\ u.actor = call[s].actor /\ u.key = call[s].key /\ u.body = call[s].body
        /\ id = Cardinality(runs) + 1
    OBVIOUS
  <1> HIDE DEF u, id
  <1>8. idem[u.actor][u.key] = None
    BY <1>3, <1>7 DEF Admissions!Known
  <1>9. /\ RunsHold(runs', idem')
        /\ Cardinality(Queued(runs')) = IF u.status = "queued" THEN Cardinality(Queued(runs)) + 1
                                        ELSE Cardinality(Queued(runs))
        /\ \A w : Answered(w, runs) => Answered(w, runs')
    <2>1. /\ RunsHold(runs, idem)
          /\ idem \in [Actors -> [Keys -> Admissions!IdempotencyRecord \cup {None}]]
      BY <1>1 DEF RowsTyped
    <2>2. /\ idem' = [idem EXCEPT ![u.actor][u.key] = [body |-> u.body, run |-> u.id]]
          /\ runs' = runs \cup {u} /\ u.id = Cardinality(runs) + 1
      BY <1>2, <1>7
    <2>3. Recorded(idem, u, idem')
      <3>1. u.actor \in Actors /\ u.key \in Keys
        BY <1>4, <1>7
      <3>2. QED
        BY <2>1, <2>2, <3>1 DEF Recorded
    <2> HIDE DEF status1
    <2>5. RunsHold(runs, idem) /\ u \in Admissions!RunRow /\ u.id = Cardinality(runs) + 1
          /\ idem[u.actor][u.key] = None /\ Recorded(idem, u, idem') /\ runs' = runs \cup {u}
      BY <2>1, <2>2, <2>3, <1>6, <1>8
    <2>6. RunsHold(runs', idem')
      BY <2>5, NewRun
    <2>7. Cardinality(Queued(runs')) = IF u.status = "queued" THEN Cardinality(Queued(runs)) + 1
                                        ELSE Cardinality(Queued(runs))
      BY <2>5, NewRun
    <2>8. \A w : Answered(w, runs) => Answered(w, runs')
      BY <2>5, NewRun
    <2>4. QED
      BY <2>6, <2>7, <2>8
  <1>10. RowsTyped'
    <2>1. runs' \subseteq Admissions!RunRow
      BY <1>1, <1>2, <1>6 DEF RowsTyped
    <2>2. idem' \in [Actors -> [Keys -> Admissions!IdempotencyRecord \cup {None}]]
      <3>1. [body |-> u.body, run |-> u.id] \in Admissions!IdempotencyRecord
        BY <1>4, <1>5, <1>7 DEF Admissions!IdempotencyRecord
      <3>2. u.actor \in Actors /\ u.key \in Keys
        BY <1>4, <1>7
      <3>3. idem' = [idem EXCEPT ![u.actor] =
                        [idem[u.actor] EXCEPT ![u.key] = [body |-> u.body, run |-> u.id]]]
        BY <3>2, <1>1, <1>2 DEF RowsTyped
      <3>4. [idem[u.actor] EXCEPT ![u.key] = [body |-> u.body, run |-> u.id]]
                \in [Keys -> Admissions!IdempotencyRecord \cup {None}]
        BY <3>1, <3>2, <1>1 DEF RowsTyped
      <3>5. QED
        BY <3>3, <3>4, <1>1 DEF RowsTyped
    <2>3. ready' \in 0..Capacity /\ ready' = Cardinality(Queued(runs'))
      <3>1. ready \in 0..Capacity /\ Capacity \in Nat /\ ready = Cardinality(Queued(runs))
        BY <1>1, ControlAssumption DEF RowsTyped, ControlAssumption
      <3>2. ready' = IF u.status = "queued" THEN ready + 1 ELSE ready
        BY <1>2
      <3>3. ready' \in 0..Capacity
        BY <3>1, <3>2, <1>3
      <3>4. QED
        BY <3>1, <3>2, <3>3, <1>9
    <2>4. QED
      BY <2>1, <2>2, <2>3, <1>9 DEF RowsTyped
  <1>11. u \in runs'
    BY <1>2
  <1>12. SessionsHold'
    BY <1>1, <1>2, <1>5, <1>7, <1>9, <1>11, AnswerStep
  <1>13. BucketsTyped' /\ BucketsHold'
    BY <1>2, <1>3, ChargeStep
  <1>14. QED
    BY <1>1, <1>2, <1>10, <1>12, <1>13, ClockStays, AdmissionWhole

\* A run that leaves the queue, or the waiting room, for good.
LEMMA RunEnds ==
    ASSUME RowsTyped, NEW r, r \in runs, NEW st, st \in {"cancelled", "finished"},
           runs' = (runs \ {r}) \cup {RowWith(r, st)}, idem' = idem,
           ready' = Admissions!Max({0, ready - (IF r.status = "queued" THEN 1 ELSE 0)})
    PROVE  RowsTyped' /\ \A w : Answered(w, runs) => Answered(w, runs')
  <1> DEFINE u == RowWith(r, st)
             freed == IF r.status = "queued" THEN 1 ELSE 0
  <1>1. r \in Admissions!RunRow /\ RunsHold(runs, idem) /\ u = RowWith(r, st)
    BY DEF RowsTyped
  <1>2. ready \in Nat /\ ready \in 0..Capacity /\ Capacity \in Nat
    BY ControlAssumption DEF RowsTyped, ControlAssumption
  <1>3. runs' = (runs \ {r}) \cup {u}
    OBVIOUS
  <1> HIDE DEF u
  <1>4. /\ u \in Admissions!RunRow /\ u.id = r.id /\ u.actor = r.actor /\ u.key = r.key
        /\ u.body = r.body /\ u.status = st /\ u.status # "queued"
    BY <1>1, RowWithFields
  <1>5. /\ RunsHold(runs', idem)
        /\ Cardinality(Queued(runs')) = IF r.status = "queued" THEN Cardinality(Queued(runs)) - 1
                                        ELSE Cardinality(Queued(runs))
        /\ r.status = "queued" => Cardinality(Queued(runs)) > 0
        /\ \A w : Answered(w, runs) => Answered(w, runs')
    BY <1>1, <1>3, <1>4, EndOfRun
  <1>6. ready = Cardinality(Queued(runs))
    BY DEF RowsTyped
  <1>7. ready' = IF ready - freed > 0 THEN ready - freed ELSE 0
    <2>1. ready - freed \in Int
      BY <1>2
    <2>2. QED
      BY <2>1, MaxOfTwo
  <1>8. ready' \in 0..Capacity /\ ready' = Cardinality(Queued(runs'))
    BY <1>2, <1>5, <1>6, <1>7
  <1>9. runs' \subseteq Admissions!RunRow
    BY <1>3, <1>4 DEF RowsTyped
  <1>10. QED
    BY <1>5, <1>8, <1>9 DEF RowsTyped

LEMMA CancelOK ==
    ASSUME AdmissionInv, NEW s, s \in Sessions, Admissions!Cancel(s)
    PROVE  AdmissionInv'
  <1>1. RowsTyped /\ BucketsTyped /\ BucketsHold /\ SessionsHold /\ ClockTyped
    BY AdmissionParts
  <1>2. PICK r \in runs : /\ runs' = (runs \ {r}) \cup {RowWith(r, "cancelled")}
                          /\ ready' = Admissions!Max({0, ready - (IF r.status = "queued" THEN 1 ELSE 0)})
    BY DEF Admissions!Cancel, Admissions!FreedBy, RowWith
  <1>3. /\ UNCHANGED <<admClock, idem, traffic>> /\ Admissions!End(s)
        /\ Admissions!Charge(s) /\ Admissions!Affordable(s) /\ call[s].pc # "idle"
    BY DEF Admissions!Cancel, Admissions!Transacts
  <1>4. RowsTyped' /\ \A w : Answered(w, runs) => Answered(w, runs')
    BY <1>1, <1>2, <1>3, RunEnds
  <1>5. SessionsHold'
    BY <1>1, <1>3, <1>4, EndStep
  <1>6. BucketsTyped' /\ BucketsHold'
    BY <1>3, ChargeStep
  <1>7. QED
    BY <1>1, <1>3, <1>4, <1>5, <1>6, ClockStays, AdmissionWhole

LEMMA FinishOK ==
    ASSUME AdmissionInv, Admissions!Finish
    PROVE  AdmissionInv'
  <1>1. RowsTyped /\ BucketsTyped /\ BucketsHold /\ SessionsHold /\ ClockTyped
    BY AdmissionParts
  <1>2. PICK r \in runs : /\ r.status = "queued"
                          /\ runs' = (runs \ {r}) \cup {RowWith(r, "finished")}
                          /\ ready' = Admissions!Max({0, ready - 1})
    BY DEF Admissions!Finish, RowWith
  <1>3. UNCHANGED <<admClock, bucket, idem, call, served, late, traffic>>
    BY DEF Admissions!Finish
  <1>4. RowsTyped' /\ \A w : Answered(w, runs) => Answered(w, runs')
    BY <1>1, <1>2, <1>3, RunEnds
  <1>5. SessionsHold'
    BY <1>1, <1>3, <1>4 DEF SessionsHold
  <1>6. QED
    BY <1>1, <1>3, <1>4, <1>5, BucketsStay, ClockStays, AdmissionWhole

LEMMA TickOK ==
    ASSUME AdmissionInv, Admissions!Tick
    PROVE  AdmissionInv'
  <1>1. RowsTyped /\ BucketsTyped /\ BucketsHold /\ SessionsHold /\ ClockTyped
    BY AdmissionParts
  <1>2. /\ UNCHANGED <<bucket, runs, idem, ready, call, served, late, traffic>>
        /\ admClock < MaxClock /\ admClock' = admClock + 1
    BY DEF Admissions!Tick
  <1>3. /\ admClock \in Nat /\ admClock' \in Nat /\ admClock <= admClock'
        /\ admClock' \in 0..MaxClock
    BY <1>1, <1>2, ControlAssumption DEF ClockTyped, ControlAssumption
  <1>4. ClockTyped'
    BY <1>1, <1>2, <1>3 DEF ClockTyped
  <1>5. BucketsTyped'
    BY <1>1, <1>2 DEF BucketsTyped
  <1>6. ASSUME NEW c \in Admissions!Classes, NEW h \in Admissions!Holders
        PROVE  Holds(bucket[c][h], served[c][h], late[c][h], FullOf(c, h), RateOf(c, h), admClock')
    <2>1. bucket[c][h] \in Admissions!BucketRow \cup {None}
      BY <1>1 DEF BucketsTyped
    <2>2. QED
      BY <2>1, <1>1, <1>3, KeptRow DEF BucketsHold
  <1>7. BucketsHold'
    BY <1>2, <1>6 DEF BucketsHold
  <1>8. \A s \in Sessions : call[s].now \in Nat
    BY <1>1 DEF SessionsHold, Admissions!Calls
  <1>9. SessionsHold'
    BY <1>1, <1>2, <1>3, <1>8 DEF SessionsHold, Works
  <1>10. QED
    BY <1>1, <1>2, <1>4, <1>5, <1>7, <1>9, RowsStay, AdmissionWhole

LEMMA AdmissionStart == Admissions!Init => AdmissionInv
  <1> SUFFICES ASSUME Admissions!Init PROVE AdmissionInv
    OBVIOUS
  <1>1. /\ admClock = 0 /\ ready = 0 /\ runs = {}
        /\ bucket = [c \in Admissions!Classes |-> [h \in Admissions!Holders |-> None]]
        /\ idem = [a \in Actors |-> [k \in Keys |-> None]]
        /\ call = [s \in Sessions |-> Admissions!Idle] /\ traffic \in Traffic
        /\ served = [c \in Admissions!Classes |-> [h \in Admissions!Holders |-> 0]]
        /\ late = [c \in Admissions!Classes |-> [h \in Admissions!Holders |-> FALSE]]
    BY DEF Admissions!Init
  <1>2. ClockTyped
    BY <1>1, ControlAssumption DEF ClockTyped, ControlAssumption
  <1>3. BucketsTyped /\ BucketsHold
    BY <1>1 DEF BucketsTyped, BucketsHold, Holds, Dated, Limited
  <1>4. RowsTyped
    <2>1. Queued(runs) = {} /\ IsFiniteSet({}) /\ Cardinality({}) = 0
      BY <1>1, FS_EmptySet DEF Queued
    <2>2. RunsHold(runs, idem)
      BY <1>1, <2>1 DEF RunsHold
    <2>3. QED
      <3>1. ready \in 0..Capacity
        BY <1>1, ControlAssumption DEF ControlAssumption
      <3>2. idem \in [Actors -> [Keys -> Admissions!IdempotencyRecord \cup {None}]]
        BY <1>1
      <3>3. QED
        BY <3>1, <3>2, <1>1, <2>1, <2>2 DEF RowsTyped
  <1>5. SessionsHold
    <2>1. Admissions!Idle \in Admissions!Calls
      BY DEF Admissions!Idle, Admissions!Calls, Admissions!Classes
    <2>2. Answered(Admissions!Idle, runs) /\ Works(Admissions!Idle, admClock)
      BY DEF Answered, Works, Admissions!Idle
    <2>3. QED
      BY <1>1, <2>1, <2>2 DEF SessionsHold
  <1>6. QED
    BY <1>2, <1>3, <1>4, <1>5, AdmissionParts

LEMMA AdmissionStep == AdmissionInv /\ [Admissions!Next]_admissionVars => AdmissionInv'
  <1> SUFFICES ASSUME AdmissionInv, [Admissions!Next]_admissionVars PROVE AdmissionInv'
    OBVIOUS
  <1>1. CASE UNCHANGED admissionVars
    BY <1>1 DEF admissionVars, AdmissionInv, Admissions!TypeOK
  <1>2. CASE Admissions!Next
    BY <1>2, TickOK, FinishOK, ReceivedOK, LookupOK, EndedOK, AdmitOK, CollideOK, CancelOK
    DEF Admissions!Next
  <1>3. QED
    BY <1>1, <1>2

LEMMA AdmissionMoves == [AllNext]_allVars => [Admissions!Next]_admissionVars
  BY DEF AllNext, allVars, admissionVars

\* The rows of runs, their keys' records, the answers given, the place counted for
\* every queued run and the tokens of every bucket stay in step.
THEOREM AdmissionInvariantHolds == AllSpec => []AdmissionInv
  <1>1. AllInit => AdmissionInv
    BY AdmissionStart DEF AllInit
  <1>2. AdmissionInv /\ [AllNext]_allVars => AdmissionInv'
    BY AdmissionStep, AdmissionMoves
  <1>3. QED
    BY <1>1, <1>2, PTL DEF AllSpec

\* However many sessions submit one key at once, it stands for one run, and every
\* answer names the run of its own actor, key and body (production.py).
THEOREM KeysAlwaysStandForOneRun == AllSpec => []OneRunPerKey
  <1>1. AdmissionInv => OneRunPerKey
    <2> SUFFICES ASSUME AdmissionInv PROVE Admissions!OneRunPerKey
      BY DEF OneRunPerKey
    <2>1. RowsTyped /\ SessionsHold
      BY AdmissionParts
    <2>2. ready = Cardinality({r \in runs : r.status = "queued"})
      BY <2>1 DEF RowsTyped, Queued
    <2>3. QED
      <3>1. /\ \A r, q \in runs : r.actor = q.actor /\ r.key = q.key => r = q
            /\ \A r \in runs : idem[r.actor][r.key] = [body |-> r.body, run |-> r.id]
        BY <2>1 DEF RowsTyped, RunsHold
      <3>2. \A s \in Sessions : call[s].answer = "run" =>
               \E r \in runs : /\ r.id = call[s].run /\ r.actor = call[s].actor
                               /\ r.key = call[s].key /\ r.body = call[s].body
        BY <2>1 DEF SessionsHold, Answered
      <3>3. QED
        BY <3>1, <3>2, <2>2, SameCardinality DEF Admissions!OneRunPerKey
  <1>2. QED
    BY <1>1, AdmissionInvariantHolds, PTL

\* A bucket whose requests come in the order of their clocks never lets through more
\* than its burst and what its rate has added (rate_limit.py).
THEOREM BucketsAlwaysHoldTheirRate == AllSpec => []RateHeldInOrder
  <1>1. AdmissionInv => RateHeldInOrder
    <2> SUFFICES ASSUME AdmissionInv, NEW c \in Admissions!Classes, NEW h \in Admissions!Holders,
                        ~late[c][h]
                 PROVE  served[c][h] * MicroToken <= FullOf(c, h) + RateOf(c, h) * admClock
      BY DEF RateHeldInOrder, Admissions!RateHeldInOrder, FullOf, RateOf
    <2> DEFINE b == bucket[c][h]
               full == FullOf(c, h)
               rate == RateOf(c, h)
               spent == served[c][h] * MicroToken
               gained == rate * admClock
               before == rate * b.last
    <2>1. /\ BucketsTyped /\ BucketsHold /\ admClock \in Nat
          /\ full \in Nat /\ rate \in Nat /\ served[c][h] \in Nat /\ MicroToken \in Nat
      BY AdmissionParts, TimeIsNat, Policy, ControlAssumption DEF BucketsTyped, ControlAssumption
    <2>2. spent \in Nat /\ gained \in Nat
      BY <2>1, TimesNat
    <2>3. CASE b = None
      <3>1. served[c][h] = 0
        BY <2>1, <2>3 DEF BucketsHold, Holds, Dated
      <3>2. spent = 0
        BY <3>1, <2>1
      <3> HIDE DEF spent, gained, full
      <3>3. spent <= full + gained
        BY <3>2, <2>1, <2>2
      <3>4. QED
        BY <3>3 DEF spent, gained, full, rate
    <2>4. CASE b # None
      <3>1. b.last \in Nat /\ b.tokens \in Nat
        BY <2>1, <2>4 DEF BucketsTyped, Admissions!BucketRow
      <3>2. b.last <= admClock /\ b.tokens + spent <= full + before
        BY <2>1, <2>4 DEF BucketsHold, Holds, Dated, Limited
      <3>3. before <= gained /\ before \in Nat
        BY <3>1, <3>2, <2>1, TimesGrows, TimesNat
      <3> HIDE DEF spent, gained, full, before
      <3>4. spent <= full + gained
        BY <3>1, <3>2, <3>3, <2>1, <2>2
      <3>5. QED
        BY <3>4 DEF spent, gained, full, rate
    <2>5. QED
      BY <2>3, <2>4
  <1>2. QED
    BY <1>1, AdmissionInvariantHolds, PTL
=============================================================================
