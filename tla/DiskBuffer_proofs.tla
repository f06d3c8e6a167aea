-------------------------- MODULE DiskBuffer_proofs -------------------------
(***************************************************************************)
(* Proofs about DiskBuffer, for every capacity, batch size and disk budget, *)
(* every set of callers, and any number of crashes and failed calls.        *)
(***************************************************************************)
EXTENDS DiskBuffer, FiniteSetTheorems, SequenceTheorems, WellFoundedInduction, TLAPS

-----------------------------------------------------------------------------
(* Elements of sequences. *)

\* Append adds one element to what a channel or slice holds.
LEMMA RangeOfAppend ==
  ASSUME NEW S, NEW s \in Seq(S), NEW e \in S
  PROVE  Range(Append(s, e)) = Range(s) \cup {e}
<1> DEFINE u == <<e>>
<1>1. u \in Seq(S) /\ Range(u) = {e}
  BY DEF Range
<1>2. Append(s, e) = s \o u
  BY AppendIsConcat
<1> HIDE DEF u
<1> QED  BY <1>1, <1>2, RangeConcatenation

\* Receiving takes the head and leaves the tail.
LEMMA RangeOfTail ==
  ASSUME NEW S, NEW s \in Seq(S), s # <<>>
  PROVE  Range(s) = {Head(s)} \cup Range(Tail(s))
<1>1. Tail(s) \in Seq(S) /\ 1 \in 1..Len(s) /\ Len(s) \in 1..Len(s) /\ Head(s) = s[1]
  BY HeadTailProperties, EmptySeq
<1> DEFINE u == <<s[1]>>
<1>2. s = u \o Tail(s)
  <2>1. SubSeq(s, 1, Len(s)) = <<s[1]>> \o SubSeq(s, 1 + 1, Len(s))
    BY <1>1, SubSeqRecursiveFirst
  <2> QED  BY <2>1, SubSeqFull, TailIsSubSeq
<1>3. u \in Seq(S) /\ Range(u) = {s[1]}
  <2>1. s[1] \in S
    BY <1>1, ElementOfSeq
  <2> QED  BY ONLY <2>1 DEF Range
<1> HIDE DEF u
<1> DEFINE v == Tail(s)
<1>4. Range(u \o v) = Range(u) \cup Range(v)
  <2>1. u \in Seq(S) /\ v \in Seq(S)
    BY <1>1, <1>3
  <2> HIDE DEF v
  <2> QED  BY ONLY <2>1, RangeConcatenation
<1> QED  BY <1>1, <1>2, <1>3, <1>4

-----------------------------------------------------------------------------
(* The inductive invariant.  Order is stated between sets of entries: S is before T *)
(* but for the entries R, which may come again.                                    *)

Before(S, T, R) == \A x \in S, y \in T : y \in R \/ x < y

Ascending(s, R) == \A i, j \in DOMAIN s : i < j => s[j] \in R \/ s[i] < s[j]

\* The entries in a sequence of files or of batches.
Entries(ss) == UNION {Range(ss[k]) : k \in DOMAIN ss}

\* A sequence of files or of batches is in order.
AllAscending(ss, R) ==
  /\ \A k \in DOMAIN ss : Ascending(ss[k], R)
  /\ \A k, l \in DOMAIN ss : k < l => Before(Range(ss[k]), Range(ss[l]), R)

Types ==
  /\ accepted \in Nat
  /\ in \in Seq(Nat) /\ batch \in Seq(Nat) /\ unwritten \in Seq(Nat)
  /\ lines \in Seq(Seq(Nat)) /\ linked \subseteq DOMAIN lines
  /\ readBatch \in Seq(Nat) /\ batches \in Seq(Seq(Nat)) /\ delivered \in Seq(Nat)
  /\ writer \in {"select", "flush", "write", "evict", "trim", "unlink", "done"}
  /\ reader \in {"list", "open", "scan", "remove", "done"}

\* What the writer still has to write is in order and younger than every line.
WriterInv ==
  /\ Ascending(in, {}) /\ Ascending(batch, {}) /\ Ascending(unwritten, {})
  /\ Before(Range(batch) \cup Range(unwritten), Range(in), {})
  /\ Range(in) \cup Range(batch) \cup Range(unwritten) \subseteq 1..accepted
  /\ writer \in {"evict", "trim", "unlink", "done"} => batch = <<>>
  /\ writer = "write" => lines # <<>>
  /\ writer # "write" => unwritten = <<>>

\* The files are in order, within and among each other.
LinesInv ==
  /\ AllAscending(lines, {})
  /\ Entries(lines) \subseteq 1..accepted
  /\ Before(Entries(lines), Range(in) \cup Range(unwritten), {})
  /\ writer # "write" => Before(Entries(lines), Range(batch), {})

\* What the reader has taken out of files since the last start.
SentOf(d, bs, rb) == Range(d) \cup Entries(bs) \cup Range(rb)
Sent == SentOf(delivered, batches, readBatch)

\* What was taken out is in order on its whole way to the consumer.
OutOf(d, bs, rb, R) ==
  /\ Ascending(d, R) /\ AllAscending(bs, R) /\ Ascending(rb, R)
  /\ Before(Range(d), Entries(bs), R)
  /\ Before(Range(d) \cup Entries(bs), Range(rb), R)

AtFile == reader \in {"scan", "remove"}
HasFile == AtFile \/ reader = "open"

\* The reader is at the oldest file, and nothing that was taken out is younger than
\* what it will find there or in another file.
ReaderInv ==
  /\ OutOf(delivered, batches, readBatch, resent)
  /\ Sent \subseteq Entries(lines)
  /\ HasFile => /\ reading \in DOMAIN lines
                /\ pos \in 0..Len(lines[reading])
                /\ \A f \in linked : reading <= f
  /\ reader = "open" => pos = 0
  /\ \A f \in linked : (AtFile => f # reading) => Before(Sent, Range(lines[f]), resent)
  /\ reader = "scan" =>
       \A k \in DOMAIN lines[reading] : k > pos => Before(Sent, {lines[reading][k]}, resent)

\* The lines of a whole file that were scanned went through a flush or wait for it, or
\* are blank, and the writer is done with the file.
WholeInv ==
  whole /\ AtFile =>
    /\ ~(writer = "write" /\ reading = Len(lines))
    /\ reader = "scan" =>
         \A k \in 1..pos : lines[reading][k] \in handed \cup Range(readBatch) \cup Unencodable
    /\ reader = "remove" => Range(lines[reading]) \subseteq handed \cup Unencodable

\* What became of an entry that the buffer need not remember any more.
Settled == Spooled \cup handed \cup evicted \cup gone

\* Every line is in the directory or settled, and so is what the writer wrote of its batch;
\* what a blank line was written for is gone.
LossInv ==
  /\ Entries(lines) \subseteq Settled
  /\ Entries(lines) \cap Unencodable \subseteq gone
  /\ writer = "write" => Range(batch) \subseteq Range(unwritten) \cup Settled
  /\ 1..accepted \subseteq Range(in) \cup Range(batch) \cup Settled

DiskInv == Types /\ WriterInv /\ LinesInv /\ ReaderInv /\ WholeInv /\ LossInv

-----------------------------------------------------------------------------
(* Sequences in order. *)

\* An entry that nothing is younger than goes to the end.
LEMMA AscendingAppend ==
  ASSUME NEW s \in Seq(Nat), NEW e \in Nat, NEW R, Ascending(s, R),
         Before(Range(s), {e}, R)
  PROVE  Append(s, e) \in Seq(Nat) /\ Ascending(Append(s, e), R)
<1> DEFINE t == Append(s, e)
<1>1. /\ Len(s) \in Nat /\ t \in Seq(Nat)
      /\ DOMAIN s = 1..Len(s)
      /\ DOMAIN t = 1..Len(s) + 1
      /\ \A i \in 1..Len(s) : t[i] = s[i] /\ s[i] \in Range(s)
      /\ t[Len(s) + 1] = e
  BY AppendProperties, LenProperties DEF Range
<1> HIDE DEF t
<1>2. ASSUME NEW i \in DOMAIN t, NEW j \in DOMAIN t, i < j PROVE t[j] \in R \/ t[i] < t[j]
  <2>1. i \in 1..Len(s)
    BY <1>1, <1>2
  <2>2. CASE j = Len(s) + 1
    BY <1>1, <2>1, <2>2 DEF Before
  <2>3. CASE j # Len(s) + 1
    <3>1. j \in 1..Len(s)
      BY <1>1, <2>3
    <3> QED  BY <1>1, <1>2, <2>1, <3>1 DEF Ascending
  <2> QED  BY <2>2, <2>3
<1> QED  BY <1>1, <1>2 DEF Ascending, t

\* The head is before the tail.
LEMMA AscendingTail ==
  ASSUME NEW s \in Seq(Nat), NEW R, s # <<>>, Ascending(s, R)
  PROVE  /\ Head(s) \in Nat /\ Tail(s) \in Seq(Nat)
         /\ Range(s) = {Head(s)} \cup Range(Tail(s))
         /\ Ascending(Tail(s), R) /\ Before({Head(s)}, Range(Tail(s)), R)
<1> DEFINE t == Tail(s)
<1>1. /\ Len(s) \in Nat /\ Len(s) > 0
      /\ DOMAIN s = 1..Len(s)
      /\ DOMAIN t = 1..Len(s) - 1
      /\ \A i \in 1..Len(s) - 1 : t[i] = s[i + 1]
      /\ Head(s) = s[1] /\ Head(s) \in Nat /\ t \in Seq(Nat)
  BY HeadTailProperties, LenProperties, EmptySeq
<1>2. Range(s) = {Head(s)} \cup Range(t)
  BY RangeOfTail
<1> HIDE DEF t
<1>3. \A i \in DOMAIN t : i + 1 \in DOMAIN s /\ t[i] = s[i + 1] /\ 1 < i + 1
  BY <1>1
<1>4. Ascending(t, R)
  <2> SUFFICES ASSUME NEW i \in DOMAIN t, NEW j \in DOMAIN t, i < j
               PROVE  t[j] \in R \/ t[i] < t[j]
    BY DEF Ascending
  <2>1. i + 1 < j + 1
    BY <1>1
  <2> QED  BY <1>3, <2>1 DEF Ascending
<1>5. ASSUME NEW x \in Range(t) PROVE x \in R \/ Head(s) < x
  <2>1. PICK i \in DOMAIN t : x = t[i]
    BY DEF Range
  <2>2. 1 \in DOMAIN s /\ i + 1 \in DOMAIN s /\ 1 < i + 1 /\ t[i] = s[i + 1]
    BY <1>1, <1>3
  <2>3. s[i + 1] \in R \/ s[1] < s[i + 1]
    BY <2>2 DEF Ascending
  <2> QED  BY <1>1, <2>1, <2>2, <2>3
<1> QED  BY <1>1, <1>2, <1>4, <1>5 DEF Before, t

\* What is before the whole of a second sequence can be concatenated with it.
LEMMA AscendingConcat ==
  ASSUME NEW s \in Seq(Nat), NEW t \in Seq(Nat), NEW R, Ascending(s, R), Ascending(t, R),
         Before(Range(s), Range(t), R)
  PROVE  /\ s \o t \in Seq(Nat) /\ Ascending(s \o t, R)
         /\ Range(s \o t) = Range(s) \cup Range(t)
<1> DEFINE u == s \o t
<1>1. /\ Len(s) \in Nat /\ Len(t) \in Nat /\ u \in Seq(Nat)
      /\ DOMAIN s = 1..Len(s) /\ DOMAIN t = 1..Len(t)
      /\ DOMAIN u = 1..Len(s) + Len(t)
      /\ \A i \in 1..Len(s) + Len(t) :
           u[i] = IF i <= Len(s) THEN s[i] ELSE t[i - Len(s)]
  BY ConcatProperties, LenProperties
<1>2. Range(u) = Range(s) \cup Range(t)
  BY RangeConcatenation
<1>3. /\ \A i \in DOMAIN s : s[i] \in Range(s)
      /\ \A i \in DOMAIN t : t[i] \in Range(t)
  BY DEF Range
<1> HIDE DEF u
<1>4. ASSUME NEW i \in DOMAIN u, NEW j \in DOMAIN u, i < j PROVE u[j] \in R \/ u[i] < u[j]
  <2>1. CASE j <= Len(s)
    <3>1. i \in DOMAIN s /\ j \in DOMAIN s /\ u[i] = s[i] /\ u[j] = s[j]
      BY <1>1, <1>4, <2>1
    <3> QED  BY <1>4, <3>1 DEF Ascending
  <2>2. CASE i > Len(s)
    <3>1. /\ i \in 1..Len(s) + Len(t) /\ j \in 1..Len(s) + Len(t) /\ i < j
          /\ Len(s) \in Nat /\ Len(t) \in Nat
      BY <1>1, <1>4
    <3>2. /\ i - Len(s) \in 1..Len(t) /\ j - Len(s) \in 1..Len(t)
          /\ i - Len(s) < j - Len(s) /\ ~(i <= Len(s)) /\ ~(j <= Len(s))
      <4>1. j > Len(s) /\ i - Len(s) < j - Len(s) /\ ~(i <= Len(s)) /\ ~(j <= Len(s))
        BY ONLY <2>2, <3>1
      <4>2. i - Len(s) \in 1..Len(t)
        BY ONLY <2>2, <3>1
      <4>3. j - Len(s) \in 1..Len(t)
        BY ONLY <3>1, <4>1
      <4> QED  BY <4>1, <4>2, <4>3
    <3>3. u[i] = t[i - Len(s)] /\ u[j] = t[j - Len(s)]
      BY <1>1, <3>1, <3>2
    <3> QED  BY <1>1, <3>2, <3>3 DEF Ascending
  <2>3. CASE i <= Len(s) /\ Len(s) < j
    <3>1. /\ i \in 1..Len(s) /\ j - Len(s) \in 1..Len(t)
          /\ i \in 1..Len(s) + Len(t) /\ j \in 1..Len(s) + Len(t) /\ ~(j <= Len(s))
      <4>1. /\ i \in 1..Len(s) + Len(t) /\ j \in 1..Len(s) + Len(t)
            /\ Len(s) \in Nat /\ Len(t) \in Nat
        BY <1>1
      <4> QED  BY ONLY <2>3, <4>1
    <3>2. /\ i \in DOMAIN s /\ j - Len(s) \in DOMAIN t
          /\ u[i] = s[i] /\ u[j] = t[j - Len(s)]
      BY <1>1, <2>3, <3>1
    <3> QED  BY <1>3, <3>2 DEF Before
  <2>4. i \in Int /\ j \in Int /\ Len(s) \in Int
    BY <1>1
  <2> QED  BY <1>4, <2>1, <2>2, <2>3, <2>4
<1> QED  BY <1>1, <1>2, <1>4 DEF Ascending, u

\* Cutting a sequence in two.
LEMMA AscendingCut ==
  ASSUME NEW s \in Seq(Nat), NEW n \in 1..Len(s), Ascending(s, {})
  PROVE  LET a == SubSeq(s, 1, n)
             b == SubSeq(s, n + 1, Len(s))
         IN /\ a \in Seq(Nat) /\ b \in Seq(Nat)
            /\ Range(a) \cup Range(b) = Range(s)
            /\ Ascending(a, {}) /\ Ascending(b, {}) /\ Before(Range(a), Range(b), {})
<1> DEFINE a == SubSeq(s, 1, n)
           b == SubSeq(s, n + 1, Len(s))
<1>1. /\ Len(s) \in Nat /\ DOMAIN s = 1..Len(s) /\ \A i \in 1..Len(s) : s[i] \in Nat
      /\ n \in Nat /\ 1 <= n /\ n <= Len(s)
  BY LenProperties, ElementOfSeq
<1>2. a \in Seq(Nat) /\ Len(a) = n /\ \A i \in 1..n : a[i] = s[i]
  BY <1>1, SubSeqProperties
<1>3. /\ b \in Seq(Nat) /\ Len(b) = Len(s) - n
      /\ \A i \in 1..Len(s) - n : b[i] = s[n + i]
  <2> DEFINE m == n + 1
             l == Len(s)
  <2>1. m \in Int /\ l \in Int /\ \A i \in m..l : s[i] \in Nat
    BY <1>1
  <2>2. /\ SubSeq(s, m, l) \in Seq(Nat)
        /\ Len(SubSeq(s, m, l)) = IF m <= l THEN l - m + 1 ELSE 0
        /\ \A i \in 1..l - m + 1 : SubSeq(s, m, l)[i] = s[m + i - 1]
    BY <2>1, SubSeqProperties
  <2>3. l - m + 1 = l - n /\ (IF m <= l THEN l - m + 1 ELSE 0) = l - n
    <3>1. l \in Nat /\ n \in Nat /\ n <= l
      BY <1>1
    <3> HIDE DEF l
    <3> QED  BY ONLY <3>1
  <2>4. ASSUME NEW i \in 1..l - n PROVE b[i] = s[n + i]
    <3>1. m + i - 1 = n + i
      BY <1>1
    <3>2. b[i] = s[m + i - 1]
      BY <2>2, <2>3
    <3> HIDE DEF m
    <3> QED  BY <3>1, <3>2
  <2> QED  BY <2>2, <2>3, <2>4
<1>4. DOMAIN a = 1..n /\ DOMAIN b = 1..Len(s) - n
  <2> HIDE DEF a, b
  <2> QED  BY <1>2, <1>3, LenProperties
<1> HIDE DEF a, b
<1>5. \A i \in DOMAIN a : i \in DOMAIN s /\ a[i] = s[i]
  BY <1>1, <1>2, <1>4
<1>6. \A i \in DOMAIN b : n + i \in DOMAIN s /\ b[i] = s[n + i]
  <2> SUFFICES ASSUME NEW i \in 1..Len(s) - n PROVE n + i \in 1..Len(s)
    BY <1>1, <1>3, <1>4
  <2> QED  BY ONLY <1>1
<1>7. Ascending(a, {})
  BY <1>5 DEF Ascending
<1>8. Ascending(b, {})
  <2> SUFFICES ASSUME NEW i \in DOMAIN b, NEW j \in DOMAIN b, i < j PROVE b[i] < b[j]
    BY DEF Ascending
  <2>1. n + i < n + j
    BY <1>4
  <2> QED  BY <1>6, <2>1 DEF Ascending
<1>9. Before(Range(a), Range(b), {})
  <2> SUFFICES ASSUME NEW i \in DOMAIN a, NEW j \in DOMAIN b PROVE a[i] < b[j]
    BY DEF Before, Range
  <2>1. i < n + j
    BY <1>4
  <2> QED  BY <1>5, <1>6, <2>1 DEF Ascending
<1>10. Range(a) \cup Range(b) = Range(s)
  <2>1. ASSUME NEW i \in DOMAIN s PROVE s[i] \in Range(a) \cup Range(b)
    <3>1. CASE i <= n
      <4>1. i \in DOMAIN a
        BY <1>1, <1>4, <3>1
      <4> QED  BY <1>5, <4>1 DEF Range
    <3>2. CASE i > n
      <4>1. i - n \in DOMAIN b /\ n + (i - n) = i
        BY <1>1, <1>4, <3>2
      <4>2. b[i - n] = s[n + (i - n)]
        BY <1>6, <4>1
      <4> QED  BY <4>1, <4>2 DEF Range
    <3> QED  BY <1>1, <1>4, <3>1, <3>2
  <2> QED  BY <1>5, <1>6, <2>1 DEF Range
<1> QED  BY <1>2, <1>3, <1>7, <1>8, <1>9, <1>10 DEF a, b

-----------------------------------------------------------------------------
(* Sequences of files and of batches in order. *)

\* A file that is created, or a batch that is sent, is the youngest.
LEMMA AllAppend ==
  ASSUME NEW ss \in Seq(Seq(Nat)), NEW s \in Seq(Nat), NEW R,
         AllAscending(ss, R), Ascending(s, R), Before(Entries(ss), Range(s), R)
  PROVE  /\ Append(ss, s) \in Seq(Seq(Nat)) /\ AllAscending(Append(ss, s), R)
         /\ Entries(Append(ss, s)) = Entries(ss) \cup Range(s)
         /\ DOMAIN Append(ss, s) = DOMAIN ss \cup {Len(ss) + 1}
         /\ Len(Append(ss, s)) = Len(ss) + 1 /\ Append(ss, s)[Len(ss) + 1] = s
         /\ \A k \in DOMAIN ss : k \in 1..Len(ss) /\ Append(ss, s)[k] = ss[k]
<1> DEFINE ts == Append(ss, s)
<1>1. /\ Len(ss) \in Nat /\ ts \in Seq(Seq(Nat)) /\ Len(ts) = Len(ss) + 1
      /\ DOMAIN ss = 1..Len(ss)
      /\ DOMAIN ts = 1..Len(ss) + 1
      /\ \A k \in 1..Len(ss) : ts[k] = ss[k]
      /\ ts[Len(ss) + 1] = s
  BY AppendProperties, LenProperties
<1>2. 1..Len(ss) + 1 = 1..Len(ss) \cup {Len(ss) + 1}
  BY ONLY <1>1
<1> HIDE DEF ts
<1>3. \A e : (\E k \in DOMAIN ts : e \in Range(ts[k]))
               <=> (\E k \in DOMAIN ss : e \in Range(ss[k])) \/ e \in Range(s)
  BY <1>1, <1>2
<1>4. Entries(ts) = Entries(ss) \cup Range(s)
  BY <1>3 DEF Entries
<1>5. \A k \in DOMAIN ts : Ascending(ts[k], R)
  BY <1>1, <1>2 DEF AllAscending
<1>6. ASSUME NEW k \in DOMAIN ts, NEW l \in DOMAIN ts, k < l
      PROVE  Before(Range(ts[k]), Range(ts[l]), R)
  <2>1. k \in DOMAIN ss
    BY <1>1, <1>6
  <2>2. CASE l = Len(ss) + 1
    <3>1. Range(ts[k]) \subseteq Entries(ss)
      BY <1>1, <2>1 DEF Entries
    <3> QED  BY <1>1, <2>2, <3>1 DEF Before
  <2>3. CASE l # Len(ss) + 1
    BY <1>1, <1>2, <1>6, <2>1, <2>3 DEF AllAscending
  <2> QED  BY <2>2, <2>3
<1>7. AllAscending(ts, R)
  BY <1>5, <1>6 DEF AllAscending
<1> QED  BY <1>1, <1>2, <1>4, <1>7 DEF ts

\* The batch that is received is the oldest.
LEMMA AllTail ==
  ASSUME NEW ss \in Seq(Seq(Nat)), NEW R, ss # <<>>, AllAscending(ss, R)
  PROVE  /\ Head(ss) \in Seq(Nat) /\ Ascending(Head(ss), R)
         /\ Tail(ss) \in Seq(Seq(Nat)) /\ AllAscending(Tail(ss), R)
         /\ Entries(ss) = Range(Head(ss)) \cup Entries(Tail(ss))
         /\ Before(Range(Head(ss)), Entries(Tail(ss)), R)
<1> DEFINE ts == Tail(ss)
<1>1. /\ Len(ss) \in Nat /\ Len(ss) > 0
      /\ DOMAIN ss = 1..Len(ss)
      /\ DOMAIN ts = 1..Len(ss) - 1
      /\ \A k \in 1..Len(ss) - 1 : ts[k] = ss[k + 1]
      /\ Head(ss) = ss[1] /\ Head(ss) \in Seq(Nat) /\ ts \in Seq(Seq(Nat))
  BY HeadTailProperties, LenProperties, EmptySeq
<1> HIDE DEF ts
<1>2. 1 \in DOMAIN ss
  BY <1>1
<1>3. \A k \in DOMAIN ts : k + 1 \in DOMAIN ss /\ ts[k] = ss[k + 1] /\ 1 < k + 1
  BY <1>1
<1>4. ASSUME NEW e, NEW k \in DOMAIN ss, e \in Range(ss[k])
      PROVE  e \in Range(Head(ss)) \/ \E l \in DOMAIN ts : e \in Range(ts[l])
  <2>1. CASE k = 1
    BY <1>1, <1>4, <2>1
  <2>2. CASE k # 1
    <3>1. k - 1 \in DOMAIN ts /\ (k - 1) + 1 = k
      BY <1>1, <2>2
    <3> QED  BY <1>3, <1>4, <3>1
  <2> QED  BY <2>1, <2>2
<1>5. \A e : e \in Entries(ss) <=> e \in Range(Head(ss)) \/ e \in Entries(ts)
  BY <1>1, <1>2, <1>3, <1>4 DEF Entries
<1>6. AllAscending(ts, R)
  <2>1. ASSUME NEW k \in DOMAIN ts, NEW l \in DOMAIN ts, k < l
        PROVE  Before(Range(ts[k]), Range(ts[l]), R)
    <3>1. k + 1 < l + 1
      BY <1>1, <2>1
    <3> QED  BY <1>3, <3>1 DEF AllAscending
  <2> QED  BY <1>3, <2>1 DEF AllAscending
<1>7. Before(Range(Head(ss)), Entries(ts), R)
  <2>1. \A l \in DOMAIN ts : Before(Range(ss[1]), Range(ts[l]), R)
    BY <1>2, <1>3 DEF AllAscending
  <2> QED  BY <1>1, <2>1 DEF Before, Entries
<1> QED  BY <1>1, <1>2, <1>5, <1>6, <1>7 DEF AllAscending, ts

\* Lines younger than all others go to the end of the youngest file.
LEMMA AllGrow ==
  ASSUME NEW ss \in Seq(Seq(Nat)), NEW s \in Seq(Nat), ss # <<>>,
         AllAscending(ss, {}), Ascending(s, {}), Before(Entries(ss), Range(s), {})
  PROVE  LET l  == Len(ss)
             ts == [ss EXCEPT ![l] = @ \o s]
         IN /\ ts \in Seq(Seq(Nat)) /\ AllAscending(ts, {})
            /\ Entries(ts) = Entries(ss) \cup Range(s)
            /\ l \in DOMAIN ss /\ DOMAIN ts = DOMAIN ss /\ Len(ts) = l
            /\ ts[l] = ss[l] \o s /\ Range(ts[l]) = Range(ss[l]) \cup Range(s)
            /\ \A k \in DOMAIN ss : k # l => ts[k] = ss[k]
<1> DEFINE l  == Len(ss)
           ts == [ss EXCEPT ![l] = @ \o s]
<1>1. /\ l \in Nat /\ DOMAIN ss = 1..l /\ l \in DOMAIN ss
      /\ \A k \in DOMAIN ss : ss[k] \in Seq(Nat) /\ k <= l /\ k \in Nat
  <2>1. l \in Nat \ {0} /\ DOMAIN ss = 1..l
    BY EmptySeq, LenProperties
  <2>2. \A k \in 1..l : ss[k] \in Seq(Nat)
    BY ElementOfSeq
  <2> QED  BY <2>1, <2>2
<1>2. \A k \in DOMAIN ss : Range(ss[k]) \subseteq Entries(ss)
  BY DEF Entries
<1>3. Before(Range(ss[l]), Range(s), {})
  BY <1>1, <1>2 DEF Before
<1>4. /\ ss[l] \o s \in Seq(Nat) /\ Ascending(ss[l] \o s, {})
      /\ Range(ss[l] \o s) = Range(ss[l]) \cup Range(s)
  BY <1>1, <1>3, AscendingConcat DEF AllAscending
<1>5. /\ ts \in Seq(Seq(Nat)) /\ Len(ts) = l /\ DOMAIN ts = DOMAIN ss
      /\ ts[l] = ss[l] \o s
      /\ \A k \in DOMAIN ss : k # l => ts[k] = ss[k]
  <2>1. /\ ts \in Seq(Seq(Nat)) /\ Len(ts) = Len(ss)
        /\ \A k \in 1..Len(ss) : ts[k] = IF k = l THEN ss[l] \o s ELSE ss[k]
    BY <1>1, <1>4, ExceptSeq
  <2> QED  BY <1>1, <2>1
<1> HIDE DEF ts, l
<1>6. \A k \in DOMAIN ts : Ascending(ts[k], {})
  BY <1>4, <1>5 DEF AllAscending
<1>7. ASSUME NEW j \in DOMAIN ts, NEW k \in DOMAIN ts, j < k
      PROVE  Before(Range(ts[j]), Range(ts[k]), {})
  <2>1. j # l /\ ts[j] = ss[j] /\ Before(Range(ss[j]), Range(ss[k]), {})
    BY <1>1, <1>5, <1>7 DEF AllAscending
  <2>2. Before(Range(ss[j]), Range(s), {})
    BY <1>2, <1>5 DEF Before
  <2> QED  BY <1>4, <1>5, <2>1, <2>2 DEF Before
<1>8. AllAscending(ts, {})
  BY <1>6, <1>7 DEF AllAscending
<1>9. Entries(ts) = Entries(ss) \cup Range(s)
  <2>1. \A e : (\E k \in DOMAIN ts : e \in Range(ts[k]))
                 <=> (\E k \in DOMAIN ss : e \in Range(ss[k])) \/ e \in Range(s)
    BY <1>1, <1>4, <1>5
  <2> QED  BY <2>1 DEF Entries
<1> QED  BY <1>1, <1>4, <1>5, <1>8, <1>9 DEF ts, l

-----------------------------------------------------------------------------
(* The way from a file to the consumer. *)

\* A scanned line joins the reader's slice.
LEMMA OutScan ==
  ASSUME NEW d \in Seq(Nat), NEW bs \in Seq(Seq(Nat)), NEW rb \in Seq(Nat), NEW R,
         NEW e \in Nat, OutOf(d, bs, rb, R), Before(SentOf(d, bs, rb), {e}, R)
  PROVE  Append(rb, e) \in Seq(Nat) /\ OutOf(d, bs, Append(rb, e), R)
<1>1. Range(Append(rb, e)) = Range(rb) \cup {e}
  BY RangeOfAppend
<1>2. Before(Range(rb), {e}, R) /\ Before(Range(d) \cup Entries(bs), {e}, R)
  BY DEF Before, SentOf
<1>3. Append(rb, e) \in Seq(Nat) /\ Ascending(Append(rb, e), R)
  BY <1>2, AscendingAppend DEF OutOf
<1>4. Before(Range(d) \cup Entries(bs), Range(Append(rb, e)), R)
  BY <1>1, <1>2 DEF Before, OutOf
<1> QED  BY <1>3, <1>4 DEF OutOf

\* Nothing is in an empty slice.
LEMMA NoneIn == Range(<<>>) = {} /\ Entries(<<>>) = {} /\ \A R : Ascending(<<>>, R)
<1>1. DOMAIN <<>> = {}
  OBVIOUS
<1> QED  BY <1>1 DEF Range, Entries, Ascending

\* The slice is flushed, and d.batches takes it or not.
LEMMA OutFlush ==
  ASSUME NEW d \in Seq(Nat), NEW bs \in Seq(Seq(Nat)), NEW b \in Seq(Nat), NEW R,
         OutOf(d, bs, b, R), NEW cs \in {bs, Append(bs, b)}
  PROVE  /\ cs \in Seq(Seq(Nat)) /\ OutOf(d, cs, <<>>, R)
         /\ SentOf(d, cs, <<>>) \subseteq SentOf(d, bs, b)
<1>1. Range(<<>>) = {} /\ Ascending(<<>>, R)
  BY NoneIn
<1>2. Before(Entries(bs), Range(b), R) /\ Before(Range(d), Range(b), R)
  BY DEF Before, OutOf
<1>3. /\ Append(bs, b) \in Seq(Seq(Nat)) /\ AllAscending(Append(bs, b), R)
      /\ Entries(Append(bs, b)) = Entries(bs) \cup Range(b)
  BY <1>2, AllAppend DEF OutOf
<1>4. cs \in Seq(Seq(Nat)) /\ AllAscending(cs, R) /\ Entries(cs) \subseteq Entries(bs) \cup Range(b)
  BY <1>3 DEF OutOf
<1>5. Before(Range(d), Entries(cs), R)
  BY <1>2, <1>4 DEF Before, OutOf
<1>6. Before(Range(d) \cup Entries(cs), {}, R)
  BY DEF Before
<1> QED  BY <1>1, <1>4, <1>5, <1>6 DEF OutOf, SentOf

\* The consumer receives a batch.
LEMMA OutReceive ==
  ASSUME NEW d \in Seq(Nat), NEW bs \in Seq(Seq(Nat)), NEW rb \in Seq(Nat), NEW R,
         OutOf(d, bs, rb, R), bs # <<>>
  PROVE  /\ d \o Head(bs) \in Seq(Nat) /\ Tail(bs) \in Seq(Seq(Nat))
         /\ OutOf(d \o Head(bs), Tail(bs), rb, R)
         /\ SentOf(d \o Head(bs), Tail(bs), rb) = SentOf(d, bs, rb)
<1> DEFINE b == Head(bs)
           cs == Tail(bs)
<1>1. /\ b \in Seq(Nat) /\ Ascending(b, R)
      /\ cs \in Seq(Seq(Nat)) /\ AllAscending(cs, R)
      /\ Entries(bs) = Range(b) \cup Entries(cs)
      /\ Before(Range(b), Entries(cs), R)
  BY AllTail DEF OutOf
<1> HIDE DEF b, cs
<1>2. Before(Range(d), Range(b), R) /\ Before(Range(d), Entries(cs), R)
  BY <1>1 DEF Before, OutOf
<1>3. d \o b \in Seq(Nat) /\ Ascending(d \o b, R) /\ Range(d \o b) = Range(d) \cup Range(b)
  BY <1>1, <1>2, AscendingConcat DEF OutOf
<1>4. Before(Range(d \o b), Entries(cs), R)
  BY <1>1, <1>2, <1>3 DEF Before
<1>5. Range(d \o b) \cup Entries(cs) = Range(d) \cup Entries(bs)
  BY <1>1, <1>3
<1>6. OutOf(d \o b, cs, rb, R)
  BY <1>1, <1>3, <1>4, <1>5 DEF OutOf
<1> QED  BY <1>1, <1>3, <1>5, <1>6 DEF SentOf, b, cs

\* More entries may come again.
LEMMA OutMore ==
  ASSUME NEW d, NEW bs, NEW rb, NEW R, NEW Q, R \subseteq Q, OutOf(d, bs, rb, R)
  PROVE  OutOf(d, bs, rb, Q)
BY DEF OutOf, AllAscending, Ascending, Before

-----------------------------------------------------------------------------
(* The invariant holds at the start, and steps that leave a part of the state alone keep *)
(* what is said about it.                                                               *)

LEMMA DiskInit == Init => DiskInv
<1> SUFFICES ASSUME Init PROVE DiskInv
  OBVIOUS
<1>1. /\ Range(<<>>) = {} /\ Entries(<<>>) = {} /\ \A R : Ascending(<<>>, R)
      /\ DOMAIN <<>> = {} /\ <<>> \in Seq(Nat) /\ <<>> \in Seq(Seq(Nat))
  BY NoneIn
<1>2. \A R : AllAscending(<<>>, R)
  BY <1>1 DEF AllAscending
<1>3. Types
  BY <1>1 DEF Init, Types
<1>4. WriterInv /\ LinesInv
  BY <1>1, <1>2 DEF Init, WriterInv, LinesInv, Before
<1>5. ReaderInv
  BY <1>1, <1>2 DEF Init, ReaderInv, OutOf, Before, Sent, SentOf, AtFile, HasFile
<1>6. WholeInv
  BY DEF Init, WholeInv, AtFile
<1>7. LossInv
  <2>1. 1..accepted = {}
    BY DEF Init
  <2> QED  BY <1>1, <2>1 DEF Init, LossInv, Settled
<1> QED  BY <1>3, <1>4, <1>5, <1>6, <1>7 DEF DiskInv

LEMMA WriterSame ==
  ASSUME WriterInv, LinesInv, UNCHANGED <<in, batch, unwritten, writer, lines, accepted>>
  PROVE  WriterInv' /\ LinesInv'
BY DEF WriterInv, LinesInv

LEMMA ReaderSame ==
  ASSUME ReaderInv,
         UNCHANGED <<delivered, batches, readBatch, resent, lines, linked, reader, reading, pos>>
  PROVE  ReaderInv'
BY DEF ReaderInv, Sent, AtFile, HasFile

\* Only Create brings the writer to write.
LEMMA WholeSame ==
  ASSUME WholeInv, UNCHANGED <<whole, reader, reading, lines, pos, handed, readBatch>>,
         writer' = "write" => writer = "write"
  PROVE  WholeInv'
BY DEF WholeInv, AtFile

\* A line that settled stays settled.
LEMMA LossSame ==
  ASSUME LossInv, Settled \subseteq Settled', gone \subseteq gone',
         UNCHANGED <<in, batch, unwritten, writer, lines, accepted>>
  PROVE  LossInv'
BY DEF LossInv

LEMMA SettledSame ==
  ASSUME UNCHANGED <<lines, linked, handed, evicted>>, gone \subseteq gone'
  PROVE  Settled \subseteq Settled' /\ Spooled' = Spooled
BY DEF Settled, Spooled

-----------------------------------------------------------------------------
(* Add, Close, and the consumer. *)

LEMMA QuietStep ==
  ASSUME DiskInv,
         UNCHANGED <<in, batch, unwritten, writer, lines, linked, accepted, evicted>>,
         UNCHANGED <<reader, reading, pos, whole, readBatch, handed, resent, gone>>,
         UNCHANGED <<batches, delivered>>
  PROVE  DiskInv'
<1>1. Types'
  BY DEF DiskInv, Types
<1>2. WriterInv' /\ LinesInv'
  BY WriterSame DEF DiskInv
<1>3. ReaderInv'
  BY ReaderSame DEF DiskInv
<1>4. WholeInv'
  BY WholeSame DEF DiskInv
<1>5. LossInv'
  BY SettledSame, LossSame DEF DiskInv
<1> QED  BY <1>1, <1>2, <1>3, <1>4, <1>5 DEF DiskInv

LEMMA AddSendStep ==
  ASSUME DiskInv, NEW a \in Adders, AddSend(a)
  PROVE  DiskInv'
<1>1. /\ in' = Append(in, accepted + 1) /\ accepted' = accepted + 1
      /\ UNCHANGED <<batch, unwritten, writer, lines, linked, evicted>>
      /\ UNCHANGED <<reader, reading, pos, whole, readBatch, handed, resent, gone>>
      /\ UNCHANGED <<batches, delivered>>
  BY DEF AddSend, faultVars, writerVars, diskVars, readerVars, fileVars, outVars, endVars
<1>2. accepted \in Nat /\ accepted + 1 \in Nat /\ in \in Seq(Nat)
  BY DEF DiskInv, Types
<1>3. \A x \in 1..accepted : x < accepted + 1
  BY <1>2
<1>4. 1..accepted + 1 = 1..accepted \cup {accepted + 1}
  BY ONLY <1>2
<1>5. Range(in) \cup Range(batch) \cup Range(unwritten) \cup Entries(lines) \subseteq 1..accepted
  BY DEF DiskInv, WriterInv, LinesInv
<1>6. Range(in') = Range(in) \cup {accepted + 1}
  BY <1>1, <1>2, RangeOfAppend
<1>7. in' \in Seq(Nat) /\ Ascending(in', {})
  <2>1. Before(Range(in), {accepted + 1}, {})
    BY <1>3, <1>5 DEF Before
  <2> QED  BY <1>1, <1>2, <2>1, AscendingAppend DEF DiskInv, WriterInv
<1>8. Types'
  BY <1>1, <1>2, <1>7 DEF DiskInv, Types
<1>9. Before(Range(batch) \cup Range(unwritten), Range(in'), {})
  BY <1>3, <1>5, <1>6 DEF DiskInv, WriterInv, Before
<1>10. WriterInv'
  BY <1>1, <1>4, <1>5, <1>6, <1>7, <1>9 DEF DiskInv, WriterInv
<1>11. Before(Entries(lines), Range(in') \cup Range(unwritten), {})
  BY <1>3, <1>5, <1>6 DEF DiskInv, LinesInv, Before
<1>12. LinesInv'
  BY <1>1, <1>4, <1>5, <1>11 DEF DiskInv, LinesInv
<1>13. ReaderInv' /\ WholeInv'
  BY <1>1, ReaderSame, WholeSame DEF DiskInv
<1>14. LossInv'
  <2>1. Settled' = Settled
    BY <1>1 DEF Settled, Spooled
  <2> QED  BY <1>1, <1>4, <1>6, <2>1 DEF DiskInv, LossInv
<1> QED  BY <1>8, <1>10, <1>12, <1>13, <1>14 DEF DiskInv

LEMMA ReceiveBatchStep ==
  ASSUME DiskInv, ReceiveBatch
  PROVE  DiskInv'
<1>1. /\ batches # <<>> /\ batches' = Tail(batches) /\ delivered' = delivered \o Head(batches)
      /\ UNCHANGED <<in, batch, unwritten, writer, lines, linked, accepted, evicted>>
      /\ UNCHANGED <<reader, reading, pos, whole, readBatch, handed, resent, gone>>
  BY DEF ReceiveBatch, faultVars, addVars, writerVars, diskVars, fileVars
<1>2. /\ delivered' \in Seq(Nat) /\ batches' \in Seq(Seq(Nat))
      /\ OutOf(delivered', batches', readBatch, resent)
      /\ SentOf(delivered', batches', readBatch) = Sent
  BY <1>1, OutReceive DEF DiskInv, Types, ReaderInv, Sent
<1>3. Sent' = Sent /\ AtFile' = AtFile /\ HasFile' = HasFile
  BY <1>1, <1>2 DEF Sent, AtFile, HasFile
<1>4. Types'
  BY <1>1, <1>2 DEF DiskInv, Types
<1>5. ReaderInv'
  BY <1>1, <1>2, <1>3 DEF DiskInv, ReaderInv
<1>6. WriterInv' /\ LinesInv'
  BY <1>1, WriterSame DEF DiskInv
<1>7. WholeInv'
  BY <1>1, WholeSame DEF DiskInv
<1>8. LossInv'
  BY <1>1, SettledSame, LossSame DEF DiskInv
<1> QED  BY <1>4, <1>5, <1>6, <1>7, <1>8 DEF DiskInv

-----------------------------------------------------------------------------
(* The writer. *)

LEMMA WriterReceivesStep ==
  ASSUME DiskInv, WriterReceives
  PROVE  DiskInv'
<1>1. /\ writer = "select" /\ in # <<>> /\ in' = Tail(in) /\ batch' = Append(batch, Head(in))
      /\ writer' \in {"select", "flush"}
      /\ UNCHANGED <<unwritten, lines, linked, accepted, evicted>>
      /\ UNCHANGED <<reader, reading, pos, whole, readBatch, handed, resent, gone>>
      /\ UNCHANGED <<batches, delivered>>
  BY DEF WriterReceives, WriterTakes, faultVars, diskVars, readerVars, fileVars, outVars, endVars
<1>2. /\ Head(in) \in Nat /\ in' \in Seq(Nat) /\ Range(in) = {Head(in)} \cup Range(in')
      /\ Ascending(in', {}) /\ Before({Head(in)}, Range(in'), {})
  BY <1>1, AscendingTail DEF DiskInv, Types, WriterInv
<1>3. Before(Range(batch), {Head(in)}, {})
  BY <1>2 DEF DiskInv, WriterInv, Before
<1>4. /\ batch' \in Seq(Nat) /\ Ascending(batch', {}) /\ Range(batch') = Range(batch) \cup {Head(in)}
  <2>1. batch \in Seq(Nat) /\ Ascending(batch, {}) /\ batch' = Append(batch, Head(in))
    BY <1>1 DEF DiskInv, Types, WriterInv
  <2>2. Append(batch, Head(in)) \in Seq(Nat) /\ Ascending(Append(batch, Head(in)), {})
    BY <1>2, <1>3, <2>1, AscendingAppend
  <2>3. Range(Append(batch, Head(in))) = Range(batch) \cup {Head(in)}
    BY <1>2, <2>1, RangeOfAppend
  <2> QED  BY <2>1, <2>2, <2>3
<1>5. Before(Range(batch') \cup Range(unwritten), Range(in'), {})
  BY <1>2, <1>4 DEF DiskInv, WriterInv, Before
<1>6. Types'
  BY <1>1, <1>2, <1>4 DEF DiskInv, Types
<1>7. WriterInv'
  BY <1>1, <1>2, <1>4, <1>5 DEF DiskInv, WriterInv
<1>8. LinesInv'
  <2>1. Before(Entries(lines), Range(in') \cup Range(unwritten), {})
    BY <1>2 DEF DiskInv, LinesInv, Before
  <2>2. Before(Entries(lines), Range(batch'), {})
    BY <1>1, <1>2, <1>4 DEF DiskInv, LinesInv, Before
  <2> QED  BY <1>1, <2>1, <2>2 DEF DiskInv, LinesInv
<1>9. ReaderInv' /\ WholeInv'
  BY <1>1, ReaderSame, WholeSame DEF DiskInv
<1>10. LossInv'
  <2>1. Settled' = Settled
    BY <1>1 DEF Settled, Spooled
  <2> QED  BY <1>1, <1>2, <1>4, <2>1 DEF DiskInv, LossInv
<1> QED  BY <1>6, <1>7, <1>8, <1>9, <1>10 DEF DiskInv

\* The writer decides to flush, or to end.
LEMMA WriterTurns ==
  ASSUME DiskInv, writer = "select", writer' \in {"flush", "done"},
         writer' = "done" => batch = <<>>,
         UNCHANGED <<in, batch, unwritten, lines, linked, accepted, evicted>>,
         UNCHANGED <<reader, reading, pos, whole, readBatch, handed, resent, gone>>,
         UNCHANGED <<batches, delivered>>
  PROVE  DiskInv'
<1>1. Types'
  BY DEF DiskInv, Types
<1>2. WriterInv'
  BY DEF DiskInv, WriterInv
<1>3. LinesInv'
  BY DEF DiskInv, LinesInv
<1>4. ReaderInv' /\ WholeInv'
  BY ReaderSame, WholeSame DEF DiskInv
<1>5. LossInv'
  <2>1. Settled' = Settled
    BY DEF Settled, Spooled
  <2> QED  BY <2>1 DEF DiskInv, LossInv
<1> QED  BY <1>1, <1>2, <1>3, <1>4, <1>5 DEF DiskInv

\* The new file is empty and the youngest.
LEMMA CreateStep ==
  ASSUME DiskInv, Create
  PROVE  DiskInv'
<1> DEFINE n == Len(lines) + 1
<1>1. /\ writer = "flush" /\ writer' = "write" /\ unwritten' = batch
      /\ lines' = Append(lines, <<>>) /\ linked' = linked \cup {n}
      /\ UNCHANGED <<in, batch, accepted, evicted>>
      /\ UNCHANGED <<reader, reading, pos, whole, readBatch, handed, resent, gone>>
      /\ UNCHANGED <<batches, delivered>>
  BY DEF Create, faultVars, addVars, readerVars, fileVars, outVars, endVars
<1>2. Range(<<>>) = {} /\ <<>> \in Seq(Nat) /\ Ascending(<<>>, {})
  BY NoneIn
<1>3. /\ lines' \in Seq(Seq(Nat)) /\ AllAscending(lines', {})
      /\ Entries(lines') = Entries(lines)
      /\ DOMAIN lines' = DOMAIN lines \cup {n} /\ Len(lines') = n /\ lines'[n] = <<>>
      /\ \A k \in DOMAIN lines : k \in 1..Len(lines) /\ lines'[k] = lines[k]
  <2>1. Before(Entries(lines), Range(<<>>), {})
    BY <1>2 DEF Before
  <2>2. lines \in Seq(Seq(Nat)) /\ AllAscending(lines, {})
    BY DEF DiskInv, Types, LinesInv
  <2> DEFINE ts == Append(lines, <<>>)
  <2>3. /\ ts \in Seq(Seq(Nat)) /\ AllAscending(ts, {})
        /\ Entries(ts) = Entries(lines) \cup Range(<<>>)
        /\ DOMAIN ts = DOMAIN lines \cup {n} /\ Len(ts) = n /\ ts[n] = <<>>
        /\ \A k \in DOMAIN lines : k \in 1..Len(lines) /\ ts[k] = lines[k]
    BY <1>2, <2>1, <2>2, AllAppend
  <2>4. lines' = ts
    BY <1>1
  <2> HIDE DEF ts, n
  <2> QED  BY <1>2, <2>3, <2>4
<1>4. Len(lines) \in Nat /\ Len(lines') \in Nat /\ \A k \in DOMAIN lines : k < n
  <2>1. Len(lines) \in Nat
    BY LenProperties DEF DiskInv, Types
  <2> QED  BY <1>3, <2>1
<1> HIDE DEF n
<1>5. Types'
  BY <1>1, <1>3 DEF DiskInv, Types
<1>6. WriterInv'
  <2>1. lines' # <<>>
    <3>1. n \in DOMAIN lines' /\ DOMAIN <<>> = {}
      BY <1>3
    <3> QED  BY <3>1
  <2> QED  BY <1>1, <2>1 DEF DiskInv, WriterInv, Before
<1>7. LinesInv'
  <2>1. Before(Entries(lines'), Range(in') \cup Range(unwritten'), {})
    BY <1>1, <1>3 DEF DiskInv, LinesInv, Before
  <2> QED  BY <1>1, <1>3, <2>1 DEF DiskInv, LinesInv
<1>8. HasFile => reading \in DOMAIN lines /\ reading # n /\ reading <= n /\ lines'[reading] = lines[reading]
  <2>1. HasFile => reading \in DOMAIN lines
    BY DEF DiskInv, ReaderInv
  <2>2. \A k \in DOMAIN lines : k # n /\ k <= n
    BY <1>3, <1>4 DEF n
  <2> QED  BY <1>3, <2>1, <2>2
<1>9. ReaderInv'
  <2>1. Sent' = Sent /\ AtFile' = AtFile /\ HasFile' = HasFile
    BY <1>1 DEF Sent, AtFile, HasFile
  <2>2. ASSUME NEW f \in linked', AtFile => f # reading PROVE Before(Sent, Range(lines'[f]), resent)
    <3>1. CASE f = n
      BY <1>2, <1>3, <3>1 DEF Before
    <3>2. CASE f # n
      BY <1>1, <1>3, <2>2, <3>2 DEF DiskInv, Types, ReaderInv
    <3> QED  BY <3>1, <3>2
  <2>3. HasFile => \A f \in linked' : reading <= f
    BY <1>1, <1>4, <1>8 DEF DiskInv, ReaderInv
  <2>4. HasFile => reading \in DOMAIN lines' /\ pos \in 0..Len(lines'[reading])
    BY <1>3, <1>8 DEF DiskInv, ReaderInv
  <2>5. reader = "scan" =>
          \A k \in DOMAIN lines'[reading] : k > pos => Before(Sent, {lines'[reading][k]}, resent)
    BY <1>8 DEF DiskInv, ReaderInv, AtFile, HasFile
  <2> QED  BY <1>1, <1>3, <2>1, <2>2, <2>3, <2>4, <2>5 DEF DiskInv, ReaderInv
<1>10. WholeInv'
  <2>1. AtFile' = AtFile
    BY <1>1 DEF AtFile
  <2> QED  BY <1>1, <1>3, <1>8, <2>1 DEF DiskInv, WholeInv, HasFile
<1>11. LossInv'
  <2>1. Spooled' = Spooled
    <3>1. \A x : (\E f \in linked' : x \in Range(lines'[f])) <=> (\E f \in linked : x \in Range(lines[f]))
      BY <1>1, <1>2, <1>3 DEF DiskInv, Types
    <3> QED  BY <3>1 DEF Spooled
  <2>2. Settled' = Settled
    BY <1>1, <2>1 DEF Settled
  <2> QED  BY <1>1, <1>3, <2>2 DEF DiskInv, LossInv
<1> QED  BY <1>5, <1>6, <1>7, <1>9, <1>10, <1>11 DEF DiskInv

LEMMA CreateFailsStep ==
  ASSUME DiskInv, CreateFails
  PROVE  DiskInv'
<1>1. /\ writer = "flush" /\ writer' \in {"select", "done"} /\ batch' = <<>>
      /\ gone' = gone \cup Range(batch)
      /\ UNCHANGED <<in, unwritten, lines, linked, accepted, evicted>>
      /\ UNCHANGED <<reader, reading, pos, whole, readBatch, handed, resent>>
      /\ UNCHANGED <<batches, delivered>>
  BY DEF CreateFails, AfterFlush, Lose, addVars, diskVars, readerVars, fileVars, outVars, endVars
<1>2. Range(<<>>) = {} /\ <<>> \in Seq(Nat) /\ Ascending(<<>>, {})
  BY NoneIn
<1>3. Types'
  BY <1>1, <1>2 DEF DiskInv, Types
<1>4. WriterInv'
  BY <1>1, <1>2 DEF DiskInv, WriterInv, Before
<1>5. LinesInv'
  BY <1>1, <1>2 DEF DiskInv, LinesInv, Before
<1>6. ReaderInv' /\ WholeInv'
  BY <1>1, ReaderSame, WholeSame DEF DiskInv
<1>7. LossInv'
  <2>1. Settled' = Settled \cup Range(batch)
    BY <1>1 DEF Settled, Spooled
  <2> QED  BY <1>1, <1>2, <2>1 DEF DiskInv, LossInv
<1> QED  BY <1>3, <1>4, <1>5, <1>6, <1>7 DEF DiskInv

\* The lines that are written are the youngest of the youngest file.
LEMMA WriteStep ==
  ASSUME DiskInv, NEW n \in 1..Len(unwritten), Write(n)
  PROVE  DiskInv'
<1> DEFINE s == SubSeq(unwritten, 1, n)
           l == Len(lines)
<1>1. /\ writer = "write" /\ writer' = writer /\ lines' = [lines EXCEPT ![l] = @ \o s]
      /\ unwritten' = SubSeq(unwritten, n + 1, Len(unwritten))
      /\ gone' = gone \cup (IF l \in linked THEN Range(s) \cap Unencodable ELSE Range(s))
      /\ UNCHANGED <<in, batch, linked, accepted, evicted>>
      /\ UNCHANGED <<reader, reading, pos, whole, readBatch, handed, resent>>
      /\ UNCHANGED <<batches, delivered>>
  BY DEF Write, Lose, addVars, readerVars, fileVars, outVars, endVars
<1>2. /\ s \in Seq(Nat) /\ unwritten' \in Seq(Nat)
      /\ Range(s) \cup Range(unwritten') = Range(unwritten)
      /\ Ascending(s, {}) /\ Ascending(unwritten', {}) /\ Before(Range(s), Range(unwritten'), {})
  <2>1. unwritten \in Seq(Nat) /\ Ascending(unwritten, {})
    BY DEF DiskInv, Types, WriterInv
  <2> QED  BY <1>1, <2>1, AscendingCut
<1>3. Range(s) \subseteq Range(unwritten) /\ Range(unwritten') \subseteq Range(unwritten)
  BY <1>2
<1> HIDE DEF s
<1>4. /\ lines \in Seq(Seq(Nat)) /\ lines # <<>> /\ AllAscending(lines, {})
      /\ Before(Entries(lines), Range(s), {})
  BY <1>1, <1>3 DEF DiskInv, Types, WriterInv, LinesInv, Before
<1>5. /\ lines' \in Seq(Seq(Nat)) /\ AllAscending(lines', {})
      /\ Entries(lines') = Entries(lines) \cup Range(s)
      /\ l \in DOMAIN lines /\ DOMAIN lines' = DOMAIN lines /\ Len(lines') = l
      /\ lines'[l] = lines[l] \o s /\ Range(lines'[l]) = Range(lines[l]) \cup Range(s)
      /\ \A k \in DOMAIN lines : k # l => lines'[k] = lines[k]
  <2> DEFINE ts == [lines EXCEPT ![l] = @ \o s]
  <2>1. /\ ts \in Seq(Seq(Nat)) /\ AllAscending(ts, {})
        /\ Entries(ts) = Entries(lines) \cup Range(s)
        /\ l \in DOMAIN lines /\ DOMAIN ts = DOMAIN lines /\ Len(ts) = l
        /\ ts[l] = lines[l] \o s /\ Range(ts[l]) = Range(lines[l]) \cup Range(s)
        /\ \A k \in DOMAIN lines : k # l => ts[k] = lines[k]
    BY <1>2, <1>4, AllGrow
  <2>2. lines' = ts
    BY <1>1
  <2> HIDE DEF ts, l
  <2> QED  BY <2>1, <2>2
<1>6. Len(lines[l]) \in Nat /\ DOMAIN lines[l] = 1..Len(lines[l])
      /\ Len(s) \in Nat
      /\ DOMAIN lines'[l] = 1..Len(lines[l]) + Len(s) /\ Len(lines'[l]) = Len(lines[l]) + Len(s)
      /\ \A k \in 1..Len(lines[l]) + Len(s) :
           lines'[l][k] = IF k <= Len(lines[l]) THEN lines[l][k] ELSE s[k - Len(lines[l])]
  <2>1. l \in 1..Len(lines)
    BY <1>4, <1>5, LenProperties
  <2>2. lines[l] \in Seq(Nat)
    BY <1>4, <2>1, ElementOfSeq
  <2> DEFINE t == lines[l]
             u == t \o s
  <2>3. /\ Len(t) \in Nat /\ DOMAIN t = 1..Len(t) /\ Len(s) \in Nat
        /\ u \in Seq(Nat) /\ Len(u) = Len(t) + Len(s)
        /\ \A k \in 1..Len(t) + Len(s) : u[k] = IF k <= Len(t) THEN t[k] ELSE s[k - Len(t)]
    BY <1>2, <2>2, ConcatProperties, LenProperties
  <2>4. DOMAIN u = 1..Len(t) + Len(s)
    BY <2>3, LenProperties
  <2>5. lines'[l] = u
    BY <1>5
  <2> HIDE DEF t, u
  <2>6. /\ Len(t) \in Nat /\ DOMAIN t = 1..Len(t) /\ Len(s) \in Nat
        /\ DOMAIN lines'[l] = 1..Len(t) + Len(s) /\ Len(lines'[l]) = Len(t) + Len(s)
        /\ \A k \in 1..Len(t) + Len(s) : lines'[l][k] = IF k <= Len(t) THEN t[k] ELSE s[k - Len(t)]
    BY <2>3, <2>4, <2>5
  <2> QED  BY <2>6 DEF t
<1>7. Types'
  BY <1>1, <1>2, <1>5 DEF DiskInv, Types
<1>8. WriterInv'
  <2>1. lines' # <<>>
    <3>1. l \in DOMAIN lines' /\ DOMAIN <<>> = {}
      BY <1>5
    <3> QED  BY <3>1
  <2>2. Before(Range(batch) \cup Range(unwritten'), Range(in), {})
    BY <1>3 DEF DiskInv, WriterInv, Before
  <2> QED  BY <1>1, <1>2, <1>3, <2>1, <2>2 DEF DiskInv, WriterInv
<1>9. LinesInv'
  <2>1. Before(Range(s), Range(in), {})
    BY <1>3 DEF DiskInv, WriterInv, Before
  <2>2. Before(Entries(lines'), Range(in) \cup Range(unwritten'), {})
    BY <1>2, <1>3, <1>5, <2>1 DEF DiskInv, LinesInv, Before
  <2>3. Entries(lines') \subseteq 1..accepted
    BY <1>3, <1>5 DEF DiskInv, LinesInv, WriterInv
  <2> QED  BY <1>1, <1>5, <2>2, <2>3 DEF DiskInv, LinesInv
<1>10. ReaderInv'
  <2>1. Sent' = Sent /\ AtFile' = AtFile /\ HasFile' = HasFile
    BY <1>1 DEF Sent, AtFile, HasFile
  <2>2. Before(Sent, Range(s), resent)
    BY <1>4 DEF DiskInv, ReaderInv, Before
  <2>3. ASSUME NEW f \in linked, AtFile => f # reading PROVE Before(Sent, Range(lines'[f]), resent)
    <3>1. Before(Sent, Range(lines[f]), resent) /\ f \in DOMAIN lines
      BY <2>3 DEF DiskInv, Types, ReaderInv
    <3>2. Range(lines'[f]) \subseteq Range(lines[f]) \cup Range(s)
      BY <1>5, <3>1
    <3> QED  BY <2>2, <3>1, <3>2 DEF Before
  <2>4. ASSUME HasFile PROVE reading \in DOMAIN lines' /\ pos \in 0..Len(lines'[reading])
    <3>1. reading \in DOMAIN lines /\ pos \in 0..Len(lines[reading])
      BY <2>4 DEF DiskInv, ReaderInv
    <3>2. CASE reading = l
      <4>1. pos \in 0..Len(lines[l]) + Len(s)
        BY <1>6, <3>1, <3>2
      <4> QED  BY <1>5, <1>6, <3>1, <3>2, <4>1
    <3>3. CASE reading # l
      BY <1>5, <3>1, <3>3
    <3> QED  BY <3>2, <3>3
  <2>5. ASSUME reader = "scan", NEW k \in DOMAIN lines'[reading], k > pos
        PROVE  Before(Sent, {lines'[reading][k]}, resent)
    <3>1. /\ reading \in DOMAIN lines
          /\ \A j \in DOMAIN lines[reading] : j > pos => Before(Sent, {lines[reading][j]}, resent)
      BY <2>5 DEF DiskInv, ReaderInv, AtFile, HasFile
    <3>2. CASE reading # l
      BY <1>5, <2>5, <3>1, <3>2
    <3>3. CASE reading = l /\ k <= Len(lines[l])
      <4>1. k \in DOMAIN lines'[l]
        BY <2>5, <3>3
      <4>2. k \in DOMAIN lines[l] /\ lines'[l][k] = lines[l][k]
        BY <1>6, <3>3, <4>1
      <4> QED  BY <2>5, <3>1, <3>3, <4>2
    <3>4. CASE reading = l /\ k > Len(lines[l])
      <4>1. k \in 1..Len(lines[l]) + Len(s) /\ lines'[l][k] = s[k - Len(lines[l])]
        <5>1. k \in 1..Len(lines[l]) + Len(s) /\ ~(k <= Len(lines[l]))
          <6>1. k \in DOMAIN lines'[l]
            BY <2>5, <3>4
          <6> QED  BY <1>6, <3>4, <6>1
        <5>2. lines'[l][k] = IF k <= Len(lines[l]) THEN lines[l][k] ELSE s[k - Len(lines[l])]
          BY <1>6, <5>1
        <5> QED  BY <5>1, <5>2
      <4>2. k - Len(lines[l]) \in 1..Len(s) /\ DOMAIN s = 1..Len(s)
        <5>1. DOMAIN s = 1..Len(s)
          BY <1>2, LenProperties
        <5> QED  BY <1>6, <3>4, <4>1, <5>1
      <4>3. lines'[l][k] \in Range(s)
        BY <4>1, <4>2 DEF Range
      <4> QED  BY <2>2, <3>4, <4>3 DEF Before
    <3> QED  BY <1>6, <2>5, <3>2, <3>3, <3>4
  <2>6. Sent \subseteq Entries(lines')
    BY <1>5 DEF DiskInv, ReaderInv
  <2>7. /\ OutOf(delivered, batches, readBatch, resent)
        /\ \A f \in linked : HasFile => reading <= f
        /\ reader = "open" => pos = 0
    BY DEF DiskInv, ReaderInv
  <2> HIDE DEF l
  <2> QED  BY <1>1, <2>1, <2>3, <2>4, <2>5, <2>6, <2>7 DEF ReaderInv
<1>11. WholeInv'
  <2>1. AtFile' = AtFile
    BY <1>1 DEF AtFile
  <2>2. whole /\ AtFile => reading # l /\ reading \in DOMAIN lines
    BY <1>1 DEF DiskInv, WholeInv, ReaderInv, HasFile
  <2>3. whole /\ AtFile => lines'[reading] = lines[reading]
    BY <1>5, <2>2
  <2> QED  BY <1>1, <1>5, <2>1, <2>2, <2>3 DEF DiskInv, WholeInv
<1>12. LossInv'
  <2>1. Spooled \subseteq Spooled'
    <3>1. \A f \in linked : Range(lines[f]) \subseteq Range(lines'[f])
      BY <1>5 DEF DiskInv, Types
    <3> QED  BY <1>1, <3>1 DEF Spooled
  <2>2. Settled \subseteq Settled'
    BY <1>1, <2>1 DEF Settled
  <2>3. Range(s) \subseteq Settled'
    <3>1. CASE l \in linked
      <4>1. Range(s) \subseteq Spooled'
        BY <1>1, <1>5, <3>1 DEF Spooled
      <4> QED  BY <4>1 DEF Settled
    <3>2. CASE l \notin linked
      BY <1>1, <3>2 DEF Settled
    <3> QED  BY <3>1, <3>2
  <2>4. Range(batch) \subseteq Range(unwritten') \cup Settled'
    BY <1>1, <1>2, <2>2, <2>3 DEF DiskInv, LossInv
  <2>5. Range(s) \cap Unencodable \subseteq gone' /\ gone \subseteq gone'
    BY <1>1
  <2> QED  BY <1>1, <1>5, <2>2, <2>3, <2>4, <2>5 DEF DiskInv, LossInv
<1> QED  BY <1>7, <1>8, <1>9, <1>10, <1>11, <1>12 DEF DiskInv

LEMMA WriteEndsStep ==
  ASSUME DiskInv, WriteEnds
  PROVE  DiskInv'
<1>1. /\ writer = "write" /\ writer' = "evict" /\ batch' = <<>> /\ unwritten' = <<>>
      /\ gone' = gone \cup Range(unwritten)
      /\ UNCHANGED <<in, lines, linked, accepted, evicted>>
      /\ UNCHANGED <<reader, reading, pos, whole, readBatch, handed, resent>>
      /\ UNCHANGED <<batches, delivered>>
  BY DEF WriteEnds, Lose, addVars, diskVars, readerVars, fileVars, outVars, endVars
<1>2. Range(<<>>) = {} /\ <<>> \in Seq(Nat) /\ Ascending(<<>>, {})
  BY NoneIn
<1>3. Types'
  BY <1>1, <1>2 DEF DiskInv, Types
<1>4. WriterInv'
  BY <1>1, <1>2 DEF DiskInv, WriterInv, Before
<1>5. LinesInv'
  BY <1>1, <1>2 DEF DiskInv, LinesInv, Before
<1>6. ReaderInv' /\ WholeInv'
  BY <1>1, ReaderSame, WholeSame DEF DiskInv
<1>7. LossInv'
  <2>1. Settled' = Settled \cup Range(unwritten)
    BY <1>1 DEF Settled, Spooled
  <2> QED  BY <1>1, <1>2, <2>1 DEF DiskInv, LossInv
<1> QED  BY <1>3, <1>4, <1>5, <1>6, <1>7 DEF DiskInv

\* Listing, adding up and subtracting sizes change nothing but evictIfNeeded's variables.
LEMMA EvictTurns ==
  ASSUME DiskInv, writer \in {"evict", "trim", "unlink"},
         writer' \in {"trim", "unlink", "select", "done"},
         UNCHANGED <<in, batch, unwritten, lines, linked, accepted, evicted>>,
         UNCHANGED <<reader, reading, pos, whole, readBatch, handed, resent, gone>>,
         UNCHANGED <<batches, delivered>>
  PROVE  DiskInv'
<1>1. batch = <<>> /\ Range(<<>>) = {}
  BY NoneIn DEF DiskInv, WriterInv
<1>2. Types'
  BY DEF DiskInv, Types
<1>3. WriterInv'
  BY <1>1 DEF DiskInv, WriterInv
<1>4. LinesInv'
  BY <1>1 DEF DiskInv, LinesInv, Before
<1>5. ReaderInv' /\ WholeInv'
  BY ReaderSame, WholeSame DEF DiskInv
<1>6. LossInv'
  <2>1. Settled' = Settled
    BY DEF Settled, Spooled
  <2> QED  BY <2>1 DEF DiskInv, LossInv
<1> QED  BY <1>2, <1>3, <1>4, <1>5, <1>6 DEF DiskInv

\* What an evicted file holds counts as evicted.
LEMMA EvictUnlinksStep ==
  ASSUME DiskInv, NEW stuck, EvictUnlinks(stuck)
  PROVE  DiskInv'
<1> DEFINE f == Min(files)
<1>1. /\ writer = "unlink" /\ writer' = "trim"
      /\ UNCHANGED <<in, batch, unwritten, lines, accepted, gone>>
      /\ UNCHANGED <<reader, reading, pos, whole, readBatch, handed, resent>>
      /\ UNCHANGED <<batches, delivered>>
  BY DEF EvictUnlinks, addVars, readerVars, fileVars, outVars, endVars
<1>2. \/ UNCHANGED <<linked, evicted>>
      \/ linked' = linked \ {f} /\ evicted' = evicted \cup Range(lines[f])
  BY DEF EvictUnlinks
<1> HIDE DEF f
<1>3. batch = <<>> /\ Range(<<>>) = {}
  BY <1>1, NoneIn DEF DiskInv, WriterInv
<1>4. Types'
  BY <1>1, <1>2 DEF DiskInv, Types
<1>5. WriterInv'
  BY <1>1, <1>3 DEF DiskInv, WriterInv
<1>6. LinesInv'
  BY <1>1, <1>3 DEF DiskInv, LinesInv, Before
<1>7. ReaderInv'
  BY <1>1, <1>2 DEF DiskInv, ReaderInv, Sent, AtFile, HasFile
<1>8. WholeInv'
  BY <1>1, WholeSame DEF DiskInv
<1>9. LossInv'
  <2>1. Settled \subseteq Settled'
    BY <1>1, <1>2 DEF Settled, Spooled
  <2> QED  BY <1>1, <2>1 DEF DiskInv, LossInv
<1> QED  BY <1>4, <1>5, <1>6, <1>7, <1>8, <1>9 DEF DiskInv

-----------------------------------------------------------------------------
(* The reader. *)

\* The oldest file is one of the directory and none is older.
LEMMA OldestFile ==
  ASSUME NEW T \in SUBSET Nat, T # {}
  PROVE  Min(T) \in T /\ \A y \in T : Min(T) <= y
<1> DEFINE R == OpToRel(<,Nat)
<1>1. IsWellFoundedOn(R, Nat)
  BY NatLessThanWellFounded
<1>2. \A x, y \in Nat : y < x => <<y, x>> \in R
  BY DEF OpToRel
<1> HIDE DEF R
<1>3. PICK x \in T : \A y \in T : ~(<<y, x>> \in R)
  BY <1>1, WFMin
<1>4. ASSUME NEW y \in T PROVE x <= y
  <2>1. x \in Nat /\ y \in Nat /\ ~(y < x)
    BY <1>2, <1>3
  <2> QED  BY <2>1
<1> QED  BY <1>4 DEF Min

\* The entries of a linked file are spooled.
LEMMA SettledOf ==
  ASSUME DiskInv, NEW f \in DOMAIN lines
  PROVE  Range(lines[f]) \subseteq Settled
BY DEF DiskInv, LossInv, Entries

\* The files, as the reader's steps need them.
LEMMA FileTypes ==
  ASSUME Types
  PROVE  /\ DOMAIN lines \subseteq Nat /\ linked \subseteq DOMAIN lines
         /\ \A f \in DOMAIN lines :
              /\ lines[f] \in Seq(Nat) /\ Len(lines[f]) \in Nat
              /\ DOMAIN lines[f] = 1..Len(lines[f])
              /\ \A k \in DOMAIN lines[f] : lines[f][k] \in Nat /\ lines[f][k] \in Range(lines[f])
<1>1. lines \in Seq(Seq(Nat)) /\ linked \subseteq DOMAIN lines
  BY DEF Types
<1>2. DOMAIN lines = 1..Len(lines) /\ Len(lines) \in Nat
  BY <1>1, LenProperties
<1>3. \A f \in DOMAIN lines : lines[f] \in Seq(Nat)
  BY <1>1, <1>2, ElementOfSeq
<1>4. \A f \in DOMAIN lines : Len(lines[f]) \in Nat /\ DOMAIN lines[f] = 1..Len(lines[f])
  BY <1>3, LenProperties
<1>5. \A f \in DOMAIN lines : \A k \in DOMAIN lines[f] : lines[f][k] \in Nat
  BY <1>3, <1>4, ElementOfSeq
<1>6. \A f \in DOMAIN lines : \A k \in DOMAIN lines[f] : lines[f][k] \in Range(lines[f])
  BY DEF Range
<1> QED  BY <1>1, <1>2, <1>3, <1>4, <1>5, <1>6

LEMMA ReaderListsStep ==
  ASSUME DiskInv, ReaderLists
  PROVE  DiskInv'
<1>1. /\ reader = "list" /\ linked # {} /\ reader' = "open" /\ reading' = Oldest /\ pos' = 0
      /\ UNCHANGED <<in, batch, unwritten, writer, lines, linked, accepted, evicted>>
      /\ UNCHANGED <<whole, readBatch, handed, resent, gone, batches, delivered>>
  BY DEF ReaderLists, faultVars, addVars, writerVars, diskVars, outVars, endVars
<1>2. /\ DOMAIN lines \subseteq Nat /\ linked \subseteq DOMAIN lines
      /\ \A f \in DOMAIN lines : Len(lines[f]) \in Nat
  BY FileTypes DEF DiskInv
<1>3. Oldest \in linked /\ \A f \in linked : Oldest <= f
  BY <1>1, <1>2, OldestFile DEF Oldest
<1>4. ~AtFile /\ ~AtFile' /\ Sent' = Sent
  BY <1>1 DEF AtFile, Sent
<1>5. Types'
  BY <1>1 DEF DiskInv, Types
<1>6. WriterInv' /\ LinesInv'
  BY <1>1, WriterSame DEF DiskInv
<1>7. ReaderInv'
  <2>1. Oldest \in DOMAIN lines /\ 0 \in 0..Len(lines[Oldest])
    BY <1>2, <1>3
  <2> HIDE DEF Oldest
  <2> QED  BY <1>1, <1>3, <1>4, <2>1 DEF DiskInv, ReaderInv
<1>8. WholeInv'
  BY <1>4 DEF WholeInv
<1>9. LossInv'
  BY <1>1, SettledSame, LossSame DEF DiskInv
<1> QED  BY <1>5, <1>6, <1>7, <1>8, <1>9 DEF DiskInv

LEMMA ReaderCannotOpenStep ==
  ASSUME DiskInv, ReaderCannotOpen
  PROVE  DiskInv'
<1>1. /\ reader = "open" /\ reader' = "remove" /\ whole' = FALSE
      /\ UNCHANGED <<in, batch, unwritten, writer, lines, linked, accepted, evicted>>
      /\ UNCHANGED <<reading, pos, readBatch, handed, resent, gone, batches, delivered>>
  BY DEF ReaderCannotOpen, addVars, writerVars, diskVars, outVars, endVars
<1>2. ~AtFile /\ AtFile' /\ HasFile /\ HasFile' /\ Sent' = Sent
  BY <1>1 DEF AtFile, HasFile, Sent
<1>3. Types'
  BY <1>1 DEF DiskInv, Types
<1>4. WriterInv' /\ LinesInv'
  BY <1>1, WriterSame DEF DiskInv
<1>5. ReaderInv'
  BY <1>1, <1>2 DEF DiskInv, ReaderInv
<1>6. WholeInv'
  BY <1>1 DEF WholeInv
<1>7. LossInv'
  BY <1>1, SettledSame, LossSame DEF DiskInv
<1> QED  BY <1>3, <1>4, <1>5, <1>6, <1>7 DEF DiskInv

LEMMA ReaderOpensStep ==
  ASSUME DiskInv, ReaderOpens
  PROVE  DiskInv'
<1>1. /\ reader = "open" /\ reading \in linked /\ reader' = "scan" /\ readBatch' = <<>>
      /\ whole' = ~(writer = "write" /\ reading = Len(lines))
      /\ UNCHANGED <<in, batch, unwritten, writer, lines, linked, accepted, evicted>>
      /\ UNCHANGED <<reading, pos, handed, resent, gone, batches, delivered>>
  BY DEF ReaderOpens, faultVars, addVars, writerVars, diskVars, endVars
<1>2. /\ Range(<<>>) = {} /\ <<>> \in Seq(Nat)
  BY NoneIn
<1>3. ~AtFile /\ HasFile /\ AtFile' /\ HasFile' /\ pos = 0
  BY <1>1 DEF AtFile, HasFile, DiskInv, ReaderInv
<1>4. /\ OutOf(delivered', batches', readBatch', resent') /\ Sent' \subseteq Sent
  <2>1. /\ delivered \in Seq(Nat) /\ batches \in Seq(Seq(Nat)) /\ readBatch \in Seq(Nat)
        /\ OutOf(delivered, batches, readBatch, resent)
    BY DEF DiskInv, Types, ReaderInv
  <2>2. /\ OutOf(delivered, batches, <<>>, resent)
        /\ SentOf(delivered, batches, <<>>) \subseteq SentOf(delivered, batches, readBatch)
    BY <2>1, OutFlush
  <2> QED  BY <1>1, <2>2 DEF Sent
<1>5. Types'
  BY <1>1, <1>2 DEF DiskInv, Types
<1>6. WriterInv' /\ LinesInv'
  BY <1>1, WriterSame DEF DiskInv
<1>7. ReaderInv'
  <2>1. \A f \in linked : Before(Sent', Range(lines[f]), resent)
    BY <1>3, <1>4 DEF DiskInv, ReaderInv, Before
  <2>2. \A k \in DOMAIN lines[reading] : Before(Sent', {lines[reading][k]}, resent)
    BY <1>1, <2>1 DEF Before, Range
  <2>3. Sent' \subseteq Entries(lines)
    BY <1>4 DEF DiskInv, ReaderInv
  <2>4. /\ reading \in DOMAIN lines /\ pos \in 0..Len(lines[reading])
        /\ \A f \in linked : reading <= f
    BY <1>3 DEF DiskInv, ReaderInv
  <2> QED  BY <1>1, <1>3, <1>4, <2>1, <2>2, <2>3, <2>4 DEF ReaderInv
<1>8. WholeInv'
  <2>1. whole' => ~(writer' = "write" /\ reading' = Len(lines'))
    BY <1>1, Zenon
  <2>2. 1..pos' = {}
    BY <1>1, <1>3
  <2> QED  BY <1>1, <2>1, <2>2 DEF WholeInv
<1>9. LossInv'
  BY <1>1, SettledSame, LossSame DEF DiskInv
<1> QED  BY <1>5, <1>6, <1>7, <1>8, <1>9 DEF DiskInv

\* What a flush of sendFile does to the slice b on its way.
LEMMA HandOverFlow ==
  ASSUME Types, NEW b \in Seq(Nat), OutOf(delivered, batches, b, resent), HandOver(b),
         UNCHANGED <<delivered, resent>>
  PROVE  /\ readBatch' \in Seq(Nat) /\ batches' \in Seq(Seq(Nat))
         /\ OutOf(delivered', batches', readBatch', resent')
         /\ Sent' \subseteq SentOf(delivered, batches, b)
         /\ handed' = handed \cup Range(b)
<1>1. /\ readBatch' = <<>> /\ handed' = handed \cup Range(b)
      /\ batches' \in {batches, Append(batches, b)}
  BY DEF HandOver
<1>2. /\ batches' \in Seq(Seq(Nat)) /\ OutOf(delivered, batches', <<>>, resent)
      /\ SentOf(delivered, batches', <<>>) \subseteq SentOf(delivered, batches, b)
  <2>1. delivered \in Seq(Nat) /\ batches \in Seq(Seq(Nat))
    BY DEF Types
  <2> QED  BY <1>1, <2>1, OutFlush
<1> QED  BY <1>1, <1>2, EmptySeq DEF Sent

\* What scanning the line e does to the slice.
LEMMA ScanFlow ==
  ASSUME Types, OutOf(delivered, batches, readBatch, resent), NEW e \in Nat,
         Before(Sent, {e}, resent)
  PROVE  LET b == Append(readBatch, e)
         IN /\ b \in Seq(Nat) /\ Range(b) = Range(readBatch) \cup {e}
            /\ OutOf(delivered, batches, b, resent)
            /\ SentOf(delivered, batches, b) = Sent \cup {e}
<1>1. delivered \in Seq(Nat) /\ batches \in Seq(Seq(Nat)) /\ readBatch \in Seq(Nat)
  BY DEF Types
<1>2. Before(SentOf(delivered, batches, readBatch), {e}, resent)
  BY DEF Sent
<1> DEFINE b == Append(readBatch, e)
           D == SentOf(delivered, batches, readBatch)
<1>3. b \in Seq(Nat)
  BY <1>1, <1>2, OutScan
<1>4. Range(b) = Range(readBatch) \cup {e}
  BY <1>1, RangeOfAppend
<1>5. OutOf(delivered, batches, b, resent)
  BY <1>1, <1>2, OutScan
<1>6. SentOf(delivered, batches, b) = D \cup {e}
  <2> HIDE DEF b
  <2> QED  BY <1>4 DEF SentOf
<1> QED  BY <1>3, <1>4, <1>5, <1>6 DEF Sent

\* An error of the scanner drops the slice.
LEMMA ScanFailsStep ==
  ASSUME DiskInv, reader = "scan", ScanFails,
         UNCHANGED <<in, batch, unwritten, writer, lines, linked, accepted, evicted>>,
         UNCHANGED <<reading, resent, gone, delivered>>
  PROVE  DiskInv'
<1>1. /\ reader' = "remove" /\ whole' = FALSE /\ readBatch' = <<>>
      /\ UNCHANGED <<pos, batches, handed>>
  BY DEF ScanFails
<1>2. /\ OutOf(delivered, batches, <<>>, resent)
      /\ SentOf(delivered, batches, <<>>) \subseteq SentOf(delivered, batches, readBatch)
  <2>1. /\ delivered \in Seq(Nat) /\ batches \in Seq(Seq(Nat)) /\ readBatch \in Seq(Nat)
        /\ OutOf(delivered, batches, readBatch, resent)
    BY DEF DiskInv, Types, ReaderInv
  <2> QED  BY <2>1, OutFlush
<1>3. Sent' \subseteq Sent /\ AtFile /\ AtFile' /\ HasFile /\ HasFile'
  BY <1>1, <1>2 DEF Sent, AtFile, HasFile
<1>4. Types'
  BY <1>1, EmptySeq DEF DiskInv, Types
<1>5. WriterInv' /\ LinesInv'
  BY WriterSame DEF DiskInv
<1>6. ReaderInv'
  <2>1. \A f \in linked : f # reading => Before(Sent', Range(lines[f]), resent)
    BY <1>3 DEF DiskInv, ReaderInv, Before
  <2>2. Sent' \subseteq Entries(lines)
    BY <1>3 DEF DiskInv, ReaderInv
  <2>3. /\ reading \in DOMAIN lines /\ pos \in 0..Len(lines[reading])
        /\ \A f \in linked : reading <= f
    BY <1>3 DEF DiskInv, ReaderInv
  <2> QED  BY <1>1, <1>2, <1>3, <2>1, <2>2, <2>3 DEF ReaderInv
<1>7. WholeInv'
  BY <1>1 DEF WholeInv
<1>8. LossInv'
  BY <1>1, SettledSame, LossSame DEF DiskInv
<1> QED  BY <1>4, <1>5, <1>6, <1>7, <1>8 DEF DiskInv

LEMMA ReaderScansStep ==
  ASSUME DiskInv, ReaderScans
  PROVE  DiskInv'
<1> DEFINE e == lines[reading][pos + 1]
<1>1. /\ reader = "scan" /\ pos < Len(lines[reading])
      /\ UNCHANGED <<in, batch, unwritten, writer, lines, linked, accepted, evicted>>
      /\ UNCHANGED <<reading, resent, gone, delivered>>
  BY DEF ReaderScans, faultVars, addVars, writerVars, diskVars, endVars
<1>2. Types /\ ReaderInv /\ AtFile /\ HasFile
  BY <1>1 DEF DiskInv, AtFile, HasFile
<1>3. /\ reading \in DOMAIN lines /\ pos \in 0..Len(lines[reading])
      /\ \A f \in linked : reading <= f
  BY <1>2 DEF ReaderInv
<1>4. /\ Len(lines[reading]) \in Nat /\ pos \in Nat
      /\ DOMAIN lines[reading] = 1..Len(lines[reading])
  BY <1>2, <1>3, FileTypes
<1>5. pos + 1 \in DOMAIN lines[reading] /\ pos + 1 > pos /\ pos + 1 \in 0..Len(lines[reading])
  BY <1>1, <1>4
<1>6. e \in Nat /\ e \in Range(lines[reading]) /\ Before(Sent, {e}, resent)
  BY <1>1, <1>2, <1>3, <1>5, FileTypes DEF ReaderInv
<1> DEFINE b == Append(readBatch, e)
<1>7. /\ b \in Seq(Nat) /\ Range(b) = Range(readBatch) \cup {e}
      /\ OutOf(delivered, batches, b, resent)
      /\ SentOf(delivered, batches, b) = Sent \cup {e}
  <2>1. OutOf(delivered, batches, readBatch, resent)
    BY <1>2 DEF ReaderInv
  <2> HIDE DEF e
  <2> QED  BY <1>2, <1>6, <2>1, ScanFlow
<1>8. \A f \in linked : f # reading => Before({e}, Range(lines[f]), {})
  <2> SUFFICES ASSUME NEW f \in linked, f # reading PROVE Before({e}, Range(lines[f]), {})
    OBVIOUS
  <2>1. f \in DOMAIN lines /\ f \in Nat /\ reading \in Nat /\ reading <= f
    BY <1>2, <1>3, FileTypes
  <2>2. reading < f
    BY <2>1
  <2>3. Before(Range(lines[reading]), Range(lines[f]), {})
    BY <1>3, <2>1, <2>2 DEF DiskInv, LinesInv, AllAscending
  <2> QED  BY <1>6, <2>3 DEF Before
<1>9. \A k \in DOMAIN lines[reading] : k > pos + 1 => Before({e}, {lines[reading][k]}, {})
  <2>1. Ascending(lines[reading], {})
    BY <1>3 DEF DiskInv, LinesInv, AllAscending
  <2>2. \A k \in DOMAIN lines[reading] : k > pos + 1 => e < lines[reading][k]
    BY <1>4, <1>5, <2>1 DEF Ascending
  <2> QED  BY <2>2 DEF Before
<1> HIDE DEF e
<1>10. WriterInv' /\ LinesInv'
  BY <1>1, WriterSame DEF DiskInv
<1>11. CASE e \in Long \ Unencodable
  <2>1. ScanFails
    BY <1>11 DEF ReaderScans, e
  <2> QED  BY <1>1, <2>1, ScanFailsStep
<1>12. CASE e \notin Long \ Unencodable
  <2>1. /\ pos' = pos + 1 /\ UNCHANGED <<reader, whole>>
        /\ \/ HandOver(b)
           \/ readBatch' = b /\ UNCHANGED <<batches, handed>>
           \/ e \in Unencodable /\ UNCHANGED <<readBatch, batches, handed>>
    BY <1>12 DEF ReaderScans, e
  <2>2. /\ readBatch' \in Seq(Nat) /\ batches' \in Seq(Seq(Nat))
        /\ OutOf(delivered', batches', readBatch', resent')
        /\ Sent' \subseteq Sent \cup {e}
        /\ handed \subseteq handed'
        /\ Range(readBatch) \cup {e} \subseteq handed' \cup Range(readBatch') \cup Unencodable
    <3> HIDE DEF b
    <3>1. CASE HandOver(b)
      <4>1. /\ readBatch' \in Seq(Nat) /\ batches' \in Seq(Seq(Nat))
            /\ OutOf(delivered', batches', readBatch', resent')
            /\ Sent' \subseteq SentOf(delivered, batches, b)
            /\ handed' = handed \cup Range(b)
        BY <1>1, <1>2, <1>7, <3>1, HandOverFlow
      <4> QED  BY <1>7, <4>1
    <3>2. CASE readBatch' = b /\ UNCHANGED <<batches, handed>>
      BY <1>1, <1>2, <1>7, <3>2 DEF Types, Sent
    <3>3. CASE e \in Unencodable /\ UNCHANGED <<readBatch, batches, handed>>
      BY <1>1, <1>2, <3>3 DEF Types, ReaderInv, Sent
    <3> QED  BY <2>1, <3>1, <3>2, <3>3
  <2>3. AtFile' = AtFile /\ HasFile' = HasFile
    BY <2>1 DEF AtFile, HasFile
  <2>4. Types'
    BY <1>1, <1>2, <2>1, <2>2 DEF Types
  <2>5. ReaderInv'
    <3>1. \A f \in linked : f # reading => Before(Sent', Range(lines[f]), resent)
      BY <1>2, <1>8, <2>2 DEF ReaderInv, Before
    <3>2. Sent' \subseteq Entries(lines)
      BY <1>2, <1>3, <1>6, <2>2 DEF ReaderInv, Entries
    <3>3. ASSUME NEW k \in DOMAIN lines[reading], k > pos + 1
          PROVE  Before(Sent', {lines[reading][k]}, resent)
      <4>1. k > pos
        BY <1>4, <3>3
      <4>2. Before(Sent, {lines[reading][k]}, resent)
        BY <1>1, <1>2, <4>1 DEF ReaderInv
      <4> QED  BY <1>9, <2>2, <3>3, <4>2 DEF Before
    <3> QED  BY <1>1, <1>2, <1>3, <1>5, <2>1, <2>2, <2>3, <3>1, <3>2, <3>3 DEF ReaderInv
  <2>6. WholeInv'
    <3>1. ASSUME whole, NEW k \in 1..pos + 1
          PROVE  lines[reading][k] \in handed' \cup Range(readBatch') \cup Unencodable
      <4>1. CASE k = pos + 1
        BY <2>2, <4>1 DEF e
      <4>2. CASE k # pos + 1
        <5>1. k \in 1..pos
          BY <1>4, <4>2
        <5>2. lines[reading][k] \in handed \cup Range(readBatch) \cup Unencodable
          BY <1>1, <1>2, <3>1, <5>1 DEF DiskInv, WholeInv
        <5> QED  BY <2>2, <5>2
      <4> QED  BY <4>1, <4>2
    <3>2. whole => ~(writer = "write" /\ reading = Len(lines))
      BY <1>2 DEF DiskInv, WholeInv
    <3> QED  BY <1>1, <2>1, <3>1, <3>2 DEF WholeInv
  <2>7. LossInv'
    <3>1. Settled \subseteq Settled'
      BY <1>1, <2>2 DEF Settled, Spooled
    <3> QED  BY <1>1, <3>1, LossSame DEF DiskInv
  <2> QED  BY <1>10, <2>4, <2>5, <2>6, <2>7 DEF DiskInv
<1> QED  BY <1>11, <1>12

LEMMA ReaderEndsStep ==
  ASSUME DiskInv, ReaderEnds
  PROVE  DiskInv'
<1>1. /\ reader = "scan" /\ pos = Len(lines[reading]) /\ reader' = "remove"
      /\ HandOver(readBatch)
      /\ UNCHANGED <<in, batch, unwritten, writer, lines, linked, accepted, evicted>>
      /\ UNCHANGED <<reading, pos, whole, resent, gone, delivered>>
  BY DEF ReaderEnds, AtEndOfFile, faultVars, addVars, writerVars, diskVars, fileVars, endVars
<1>2. Types /\ ReaderInv /\ AtFile /\ AtFile' /\ HasFile /\ HasFile'
  BY <1>1 DEF DiskInv, AtFile, HasFile
<1>3. /\ readBatch' \in Seq(Nat) /\ batches' \in Seq(Seq(Nat))
      /\ OutOf(delivered', batches', readBatch', resent')
      /\ Sent' \subseteq Sent
      /\ handed' = handed \cup Range(readBatch)
  <2>1. readBatch \in Seq(Nat) /\ OutOf(delivered, batches, readBatch, resent)
    BY <1>2 DEF Types, ReaderInv
  <2> QED  BY <1>1, <1>2, <2>1, HandOverFlow DEF Sent
<1>4. Types'
  BY <1>1, <1>2, <1>3 DEF Types
<1>5. WriterInv' /\ LinesInv'
  BY <1>1, WriterSame DEF DiskInv
<1>6. ReaderInv'
  <2>1. \A f \in linked : f # reading => Before(Sent', Range(lines[f]), resent)
    BY <1>2, <1>3 DEF ReaderInv, Before
  <2>2. Sent' \subseteq Entries(lines)
    BY <1>2, <1>3 DEF ReaderInv
  <2> QED  BY <1>1, <1>2, <1>3, <2>1, <2>2 DEF ReaderInv
<1>7. WholeInv'
  <2>1. ASSUME whole PROVE Range(lines[reading]) \subseteq handed' \cup Unencodable
    <3>1. DOMAIN lines[reading] = 1..pos
      BY <1>1, <1>2, FileTypes DEF ReaderInv
    <3>2. \A k \in 1..pos : lines[reading][k] \in handed \cup Range(readBatch) \cup Unencodable
      BY <1>1, <1>2, <2>1 DEF DiskInv, WholeInv
    <3> QED  BY <1>3, <3>1, <3>2 DEF Range
  <2>2. whole => ~(writer = "write" /\ reading = Len(lines))
    BY <1>2 DEF DiskInv, WholeInv
  <2> QED  BY <1>1, <2>1, <2>2 DEF WholeInv
<1>8. LossInv'
  <2>1. Settled \subseteq Settled'
    BY <1>1, <1>3 DEF Settled, Spooled
  <2> QED  BY <1>1, <2>1, LossSame DEF DiskInv
<1> QED  BY <1>4, <1>5, <1>6, <1>7, <1>8 DEF DiskInv

\* Removing the file settles what it holds: it was handed on, or it counts as gone.
LEMMA ReaderRemovesStep ==
  ASSUME DiskInv, ReaderRemoves
  PROVE  DiskInv'
<1>1. /\ reader = "remove" /\ reader' = "list" /\ linked' = linked \ {reading}
      /\ gone' = gone \cup (IF whole THEN {} ELSE Range(lines[reading]) \ handed)
      /\ UNCHANGED <<in, batch, unwritten, writer, lines, accepted, evicted>>
      /\ UNCHANGED <<reading, pos, whole, readBatch, handed, resent>>
      /\ UNCHANGED <<batches, delivered>>
  BY DEF ReaderRemoves, RemoveFile, Lose, addVars, writerVars, fileVars, outVars, endVars
<1>2. AtFile /\ ~AtFile' /\ HasFile /\ ~HasFile'
  BY <1>1 DEF AtFile, HasFile
<1>3. Types'
  BY <1>1 DEF DiskInv, Types
<1>4. WriterInv' /\ LinesInv'
  BY <1>1, WriterSame DEF DiskInv
<1>5. ReaderInv'
  BY <1>1, <1>2 DEF DiskInv, ReaderInv, Sent
<1>6. WholeInv'
  BY <1>2 DEF WholeInv
<1>7. LossInv'
  <2>1. Range(lines[reading]) \subseteq handed \cup gone'
    <3>1. reading \in DOMAIN lines
      BY <1>2 DEF DiskInv, ReaderInv
    <3>2. Range(lines[reading]) \cap Unencodable \subseteq gone
      BY <3>1 DEF DiskInv, LossInv, Entries
    <3>3. CASE whole
      BY <1>1, <1>2, <3>2, <3>3 DEF DiskInv, WholeInv
    <3>4. CASE ~whole
      BY <1>1, <3>4
    <3> QED  BY <3>3, <3>4
  <2>2. Spooled \subseteq Spooled' \cup Range(lines[reading])
    BY <1>1 DEF Spooled
  <2>3. Settled \subseteq Settled'
    BY <1>1, <2>1, <2>2 DEF Settled
  <2> QED  BY <1>1, <2>3, LossSame DEF DiskInv
<1> QED  BY <1>3, <1>4, <1>5, <1>6, <1>7 DEF DiskInv

LEMMA ReaderKeepsStep ==
  ASSUME DiskInv, ReaderKeeps
  PROVE  DiskInv'
<1>1. /\ reader = "remove" /\ reader' = "list" /\ resent' = resent \cup Range(lines[reading])
      /\ UNCHANGED <<in, batch, unwritten, writer, lines, linked, accepted, evicted>>
      /\ UNCHANGED <<reading, pos, whole, readBatch, handed, gone>>
      /\ UNCHANGED <<batches, delivered>>
  BY DEF ReaderKeeps, addVars, writerVars, diskVars, fileVars, outVars, endVars
<1>2. AtFile /\ ~AtFile' /\ ~HasFile'
  BY <1>1 DEF AtFile, HasFile
<1>3. Types'
  BY <1>1 DEF DiskInv, Types
<1>4. WriterInv' /\ LinesInv'
  BY <1>1, WriterSame DEF DiskInv
<1>5. ReaderInv'
  <2>1. OutOf(delivered, batches, readBatch, resent')
    BY <1>1, OutMore DEF DiskInv, ReaderInv
  <2>2. ASSUME NEW f \in linked PROVE Before(Sent, Range(lines[f]), resent')
    <3>1. CASE f = reading
      BY <1>1, <3>1 DEF Before
    <3>2. CASE f # reading
      <4>1. Before(Sent, Range(lines[f]), resent)
        BY <3>2 DEF DiskInv, ReaderInv
      <4> QED  BY <1>1, <4>1 DEF Before
    <3> QED  BY <3>1, <3>2
  <2>3. Sent' = Sent
    BY <1>1 DEF Sent
  <2> QED  BY <1>1, <1>2, <2>1, <2>2, <2>3 DEF DiskInv, ReaderInv
<1>6. WholeInv'
  BY <1>2 DEF WholeInv
<1>7. LossInv'
  BY <1>1, SettledSame, LossSame DEF DiskInv
<1> QED  BY <1>3, <1>4, <1>5, <1>6, <1>7 DEF DiskInv

LEMMA ReaderQuitsStep ==
  ASSUME DiskInv, ReaderQuits
  PROVE  DiskInv'
<1>1. /\ reader = "list" /\ reader' = "done"
      /\ UNCHANGED <<in, batch, unwritten, writer, lines, linked, accepted, evicted>>
      /\ UNCHANGED <<reading, pos, whole, readBatch, handed, resent, gone>>
      /\ UNCHANGED <<batches, delivered>>
  BY DEF ReaderQuits, faultVars, addVars, writerVars, diskVars, fileVars, outVars, endVars
<1>2. ~AtFile /\ ~AtFile' /\ ~HasFile'
  BY <1>1 DEF AtFile, HasFile
<1>3. Types'
  BY <1>1 DEF DiskInv, Types
<1>4. WriterInv' /\ LinesInv'
  BY <1>1, WriterSame DEF DiskInv
<1>5. ReaderInv'
  BY <1>1, <1>2 DEF DiskInv, ReaderInv, Sent
<1>6. WholeInv'
  BY <1>2 DEF WholeInv
<1>7. LossInv'
  BY <1>1, SettledSame, LossSame DEF DiskInv
<1> QED  BY <1>3, <1>4, <1>5, <1>6, <1>7 DEF DiskInv

-----------------------------------------------------------------------------
(* Crash and restart. *)

\* The files stay as they are, and what only the memory held counts as gone.
LEMMA CrashStep ==
  ASSUME DiskInv, CrashAndRestart
  PROVE  DiskInv'
<1>1. /\ in' = <<>> /\ batch' = <<>> /\ unwritten' = <<>> /\ writer' = "select"
      /\ reader' = "list" /\ readBatch' = <<>> /\ batches' = <<>> /\ delivered' = <<>>
      /\ gone' = gone \cup (handed \cup ((Range(in) \cup Range(batch)) \ Spooled))
      /\ UNCHANGED <<lines, linked, accepted, evicted, resent>>
  BY DEF CrashAndRestart, Restart, Lose, diskVars
<1>2. /\ Range(<<>>) = {} /\ Entries(<<>>) = {} /\ \A R : Ascending(<<>>, R)
      /\ DOMAIN <<>> = {} /\ <<>> \in Seq(Nat) /\ <<>> \in Seq(Seq(Nat))
  BY NoneIn
<1>3. \A R : AllAscending(<<>>, R)
  BY <1>2 DEF AllAscending
<1>4. Types'
  BY <1>1, <1>2 DEF DiskInv, Types
<1>5. WriterInv'
  BY <1>1, <1>2 DEF WriterInv, Before
<1>6. LinesInv'
  BY <1>1, <1>2 DEF DiskInv, LinesInv, Before
<1>7. ReaderInv'
  BY <1>1, <1>2, <1>3 DEF ReaderInv, OutOf, Before, Sent, SentOf, AtFile, HasFile
<1>8. WholeInv'
  BY <1>1 DEF WholeInv, AtFile
<1>9. LossInv'
  <2>1. Spooled' = Spooled
    BY <1>1 DEF Spooled
  <2>2. Settled \cup Range(in) \cup Range(batch) \subseteq Settled'
    BY <1>1, <2>1 DEF Settled
  <2> QED  BY <1>1, <2>2 DEF DiskInv, LossInv
<1> QED  BY <1>4, <1>5, <1>6, <1>7, <1>8, <1>9 DEF DiskInv

-----------------------------------------------------------------------------
(* The theorems. *)

LEMMA DiskStep == DiskInv /\ [Next]_vars => DiskInv'
<1> SUFFICES ASSUME DiskInv, [Next]_vars PROVE DiskInv'
  OBVIOUS
<1> USE DEF faultVars, addVars, writerVars, diskVars, readerVars, fileVars, outVars, endVars
<1>1. ASSUME NEW a \in Adders, AddChecked(a) PROVE DiskInv'
  BY <1>1, QuietStep DEF AddChecked
<1>2. ASSUME NEW a \in Adders, AddFails(a) PROVE DiskInv'
  BY <1>2, QuietStep DEF AddFails
<1>3. ASSUME NEW a \in Adders, AddSend(a) PROVE DiskInv'
  BY <1>3, AddSendStep
<1>4. CASE WriterReceives
  BY <1>4, WriterReceivesStep
<1>5. CASE WriterTicks
  BY <1>5, WriterTurns DEF WriterTicks
<1>6. CASE WriterSeesClose
  BY <1>6, WriterTurns DEF WriterSeesClose
<1>7. CASE Create
  BY <1>7, CreateStep
<1>8. CASE CreateFails
  BY <1>8, CreateFailsStep
<1>9. ASSUME NEW n \in 1..MaxBatchSize, Write(n) PROVE DiskInv'
  <2>1. n \in 1..Len(unwritten)
    BY <1>9 DEF Write
  <2> QED  BY <1>9, <2>1, WriteStep
<1>10. CASE WriteEnds
  BY <1>10, WriteEndsStep
<1>11. CASE Evicts
  <2>1. CASE EvictLists
    BY <2>1, EvictTurns DEF EvictLists
  <2>2. CASE EvictSeesNothing
    BY <2>2, EvictTurns DEF EvictSeesNothing, AfterFlush
  <2>3. ASSUME NEW fails \in BOOLEAN, EvictStats(fails) PROVE DiskInv'
    BY <2>3, EvictTurns DEF EvictStats
  <2>4. ASSUME NEW fails \in BOOLEAN, EvictSubtracts(fails) PROVE DiskInv'
    BY <2>4, EvictTurns DEF EvictSubtracts
  <2>5. ASSUME NEW fails \in BOOLEAN, EvictUnlinks(fails) PROVE DiskInv'
    BY <2>5, EvictUnlinksStep
  <2>6. CASE EvictEnds
    BY <2>6, EvictTurns DEF EvictEnds, EvictStops, AfterFlush
  <2> QED  BY <1>11, <2>1, <2>2, <2>3, <2>4, <2>5, <2>6 DEF Evicts
<1>12. CASE ReaderQuits
  BY <1>12, ReaderQuitsStep
<1>13. CASE ReaderLists \/ ReaderOpens \/ ReaderCannotOpen
  BY <1>13, ReaderListsStep, ReaderOpensStep, ReaderCannotOpenStep
<1>14. CASE ReaderScans \/ ReaderFails
  <2>1. CASE ReaderFails
    BY <2>1, ScanFailsStep DEF ReaderFails
  <2> QED  BY <1>14, <2>1, ReaderScansStep
<1>15. CASE ReaderEnds
  BY <1>15, ReaderEndsStep
<1>16. CASE ReaderRemoves
  BY <1>16, ReaderRemovesStep
<1>17. CASE ReaderKeeps
  BY <1>17, ReaderKeepsStep
<1>18. CASE CloseIn
  BY <1>18, QuietStep DEF CloseIn
<1>19. CASE CloseBatches
  BY <1>19, QuietStep DEF CloseBatches, CloseAfter
<1>20. CASE ReceiveBatch
  BY <1>20, ReceiveBatchStep
<1>21. CASE CrashAndRestart
  BY <1>21, CrashStep
<1>22. CASE UNCHANGED vars
  BY <1>22, QuietStep DEF vars
<1> QED
  BY <1>1, <1>2, <1>3, <1>4, <1>5, <1>6, <1>7, <1>8, <1>9, <1>10, <1>11, <1>12, <1>13,
     <1>14, <1>15, <1>16, <1>17, <1>18, <1>19, <1>20, <1>21, <1>22
  DEF Next, WriterStep, ReaderStep

LEMMA DiskInvariant == Spec => []DiskInv
BY DiskInit, DiskStep, PTL DEF Spec

\* disk_buffer.go, sendFile and evictIfNeeded: a file that was complete when it was opened,
\* possibly after a crash, and that was read to its end without an error is removed only
\* when each entry in it went through a flush, whatever the writer and the eviction do
\* meanwhile.
THEOREM WholeFileIsHandedOverHolds == Spec => []WholeFileIsHandedOver
<1>1. DiskInv => WholeFileIsHandedOver
  BY DEF DiskInv, WholeInv, AtFile, WholeFileIsHandedOver
<1> QED  BY <1>1, DiskInvariant, PTL

\* disk_buffer.go, all of it: an accepted entry is in memory, in the directory, handed on,
\* evicted, or lost in one of the places where the code gives it up (a file that cannot be
\* created, written, opened or read, an entry that cannot be marshalled, and the others that
\* NothingElseIsLost lists), after any number of crashes and failed calls of package os.
THEOREM NothingElseIsLostHolds == Spec => []NothingElseIsLost
<1>1. DiskInv => NothingElseIsLost
  BY DEF DiskInv, LossInv, Settled, NothingElseIsLost
<1> QED  BY <1>1, DiskInvariant, PTL

\* disk_buffer.go:20, batches are read back in order: between two starts the consumer sees
\* the entries in the order of Add and none twice, but for those of files that could not
\* be removed.
THEOREM ReadBackInOrderHolds == Spec => []ReadBackInOrder
<1>1. DiskInv => ReadBackInOrder
  BY DEF DiskInv, ReaderInv, OutOf, Ascending, ReadBackInOrder
<1> QED  BY <1>1, DiskInvariant, PTL

-----------------------------------------------------------------------------
(* The disk budget: how many lines a set of files has. *)

\* The lines of the files S, where ls[f] is what file f contains.
PairsOf(ls, S) == UNION {{f} \X (1..Len(ls[f])) : f \in S}

Bounded(ls, S, n) == IsFiniteSet(S) /\ \A f \in S : Len(ls[f]) \in 0..n

\* There are no more lines than files times lines of a file.
LEMMA PairsBound ==
  ASSUME NEW ls, NEW S, NEW n \in Nat, Bounded(ls, S, n)
  PROVE  /\ IsFiniteSet(PairsOf(ls, S)) /\ Cardinality(PairsOf(ls, S)) \in Nat
         /\ Cardinality(PairsOf(ls, S)) <= Cardinality(S) * n
<1> DEFINE P == S \X (1..n)
<1>1. IsFiniteSet(1..n) /\ Cardinality(1..n) = n
  BY FS_Interval
<1>2. IsFiniteSet(P) /\ Cardinality(P) = Cardinality(S) * n
  BY <1>1, FS_Product DEF Bounded
<1>3. PairsOf(ls, S) \subseteq P
  BY DEF PairsOf, Bounded
<1> HIDE DEF P
<1>4. /\ IsFiniteSet(PairsOf(ls, S))
      /\ Cardinality(PairsOf(ls, S)) <= Cardinality(P)
  BY <1>2, <1>3, FS_Subset
<1> QED  BY <1>2, <1>4, FS_CardinalityType

\* The lines of different files are different.
LEMMA PairsSplit ==
  ASSUME NEW ls, NEW S, NEW T, NEW n \in Nat, Bounded(ls, S, n), Bounded(ls, T, n),
         S \cap T = {}
  PROVE  Cardinality(PairsOf(ls, S \cup T)) =
           Cardinality(PairsOf(ls, S)) + Cardinality(PairsOf(ls, T))
<1> DEFINE A == PairsOf(ls, S)
           B == PairsOf(ls, T)
<1>1. PairsOf(ls, S \cup T) = A \cup B
  BY DEF PairsOf
<1>2. A \cap B = {}
  BY DEF PairsOf
<1>3. IsFiniteSet(A) /\ IsFiniteSet(B) /\ Cardinality(A) \in Nat /\ Cardinality(B) \in Nat
  BY PairsBound
<1> HIDE DEF A, B
<1>4. Cardinality(A \cup B) = Cardinality(A) + Cardinality(B) - Cardinality(A \cap B)
  BY <1>3, FS_Union
<1>5. Cardinality(A \cap B) = 0
  BY <1>2, FS_EmptySet
<1>6. Cardinality(A \cup B) = Cardinality(A) + Cardinality(B)
  BY <1>3, <1>4, <1>5
<1> QED  BY <1>1, <1>6 DEF A, B

LEMMA PairsOfOne ==
  ASSUME NEW ls, NEW f, Len(ls[f]) \in Nat
  PROVE  Cardinality(PairsOf(ls, {f})) = Len(ls[f])
<1> DEFINE A == {f}
           B == 1..Len(ls[f])
<1>1. PairsOf(ls, {f}) = A \X B
  BY DEF PairsOf
<1>2. IsFiniteSet(A) /\ Cardinality(A) = 1
  BY FS_Singleton
<1>3. IsFiniteSet(B) /\ Cardinality(B) = Len(ls[f])
  BY FS_Interval
<1> HIDE DEF A, B
<1>4. Cardinality(A \X B) = Cardinality(A) * Cardinality(B)
  BY <1>2, <1>3, FS_Product
<1>5. Cardinality(A \X B) = 1 * Len(ls[f]) /\ 1 * Len(ls[f]) = Len(ls[f])
  BY <1>2, <1>3, <1>4
<1> QED  BY <1>1, <1>5

LEMMA PairsOfNone == \A ls : Cardinality(PairsOf(ls, {})) = 0
<1>1. \A ls : PairsOf(ls, {}) = {}
  BY DEF PairsOf
<1> QED  BY <1>1, FS_EmptySet

\* Size, which adds up the files in some order, counts their lines.
LEMMA SizeCounts ==
  ASSUME NEW S, NEW n \in Nat, Bounded(lines, S, n)
  PROVE  Size(S) = Cardinality(PairsOf(lines, S))
<1> DEFINE some(s) == CHOOSE x \in s : TRUE
           count(s) == Cardinality(PairsOf(lines, s))
           Rec(g) == g = [s \in SUBSET S |->
                            IF s = {} THEN 0 ELSE Len(lines[some(s)]) + g[s \ {some(s)}]]
           iter == CHOOSE g : Rec(g)
<1>1. Size(S) = iter[S]
  BY DEF Size, MapThenSumSet, MapThenFoldSet
<1>2. ASSUME NEW s \in SUBSET S
      PROVE  /\ Bounded(lines, s, n) /\ count(s) \in Nat /\ Cardinality(s) \in Nat
             /\ IsFiniteSet(s)
  <2>1. IsFiniteSet(s)
    BY FS_Subset DEF Bounded
  <2>2. Bounded(lines, s, n)
    BY <2>1 DEF Bounded
  <2> QED  BY <2>1, <2>2, PairsBound, FS_CardinalityType
<1>3. ASSUME NEW s \in SUBSET S, s # {}
      PROVE  some(s) \in s /\ s \ {some(s)} \in SUBSET S
  <2>1. \E x \in s : TRUE
    BY <1>3
  <2>2. some(s) \in s
    BY <2>1
  <2> HIDE DEF some
  <2> QED  BY <2>2
<1> HIDE DEF some
<1>4. ASSUME NEW s \in SUBSET S, s # {}
      PROVE  count(s) = Len(lines[some(s)]) + count(s \ {some(s)})
  <2> DEFINE x == some(s)
             A == {x}
             B == s \ {x}
  <2>1. A \in SUBSET S /\ B \in SUBSET S /\ s = A \cup B /\ A \cap B = {}
    BY <1>3, <1>4
  <2>2. Len(lines[x]) \in Nat
    BY <1>3, <1>4 DEF Bounded
  <2> HIDE DEF x
  <2>3. count(A) = Len(lines[x])
    BY <2>2, PairsOfOne
  <2> HIDE DEF A, B
  <2>4. count(A \cup B) = count(A) + count(B)
    BY <1>2, <2>1, PairsSplit
  <2> QED  BY <2>1, <2>3, <2>4 DEF B, x
<1>5. count({}) = 0
  BY PairsOfNone
<1> HIDE DEF count
<1>6. Rec([s \in SUBSET S |-> count(s)])
  <2>1. ASSUME NEW s \in SUBSET S
        PROVE  count(s) = IF s = {} THEN 0
                          ELSE Len(lines[some(s)]) + [t \in SUBSET S |-> count(t)][s \ {some(s)}]
    BY <1>3, <1>4, <1>5
  <2> QED  BY <2>1
<1>7. Rec(iter)
  <2> HIDE DEF Rec
  <2>1. \E g : Rec(g)
    BY <1>6
  <2> QED  BY <2>1
<1>8. ASSUME NEW s \in SUBSET S
      PROVE  iter[s] = IF s = {} THEN 0 ELSE Len(lines[some(s)]) + iter[s \ {some(s)}]
  <2> HIDE DEF iter
  <2> QED  BY <1>7
<1> HIDE DEF iter, Rec
<1>9. ASSUME NEW s \in SUBSET S, iter[s] # count(s) PROVE FALSE
  <2> DEFINE bad == {t \in SUBSET S : iter[t] # count(t)}
             sizes == {k \in Nat : \E t \in bad : Cardinality(t) = k}
             R == OpToRel(<,Nat)
  <2>1. sizes \subseteq Nat /\ sizes # {}
    BY <1>2, <1>9
  <2>2. IsWellFoundedOn(R, Nat)
    BY NatLessThanWellFounded
  <2>3. PICK k \in sizes : \A l \in sizes : ~(<<l, k>> \in R)
    <3> HIDE DEF sizes, R
    <3> QED  BY <2>1, <2>2, WFMin
  <2>4. \A l \in sizes : ~(l < k)
    BY <2>1, <2>3 DEF OpToRel
  <2>5. PICK t \in bad : Cardinality(t) = k
    BY <2>3
  <2>6. t # {}
    BY <1>5, <1>8, <2>5
  <2> DEFINE u == t \ {some(t)}
  <2>7. u \in SUBSET S /\ Cardinality(u) = Cardinality(t) - 1 /\ Cardinality(t) \in Nat
        /\ Cardinality(u) \in Nat
    BY <1>2, <1>3, <2>5, <2>6, FS_RemoveElement
  <2>8. iter[t] = Len(lines[some(t)]) + iter[u] /\ count(t) = Len(lines[some(t)]) + count(u)
    BY <1>4, <1>8, <2>5, <2>6
  <2>9. iter[u] # count(u)
    BY <2>5, <2>8
  <2> HIDE DEF u
  <2>10. Cardinality(u) \in sizes
    BY <2>7, <2>9
  <2> QED  BY <2>4, <2>5, <2>7, <2>10
<1> QED  BY <1>1, <1>9 DEF count

-----------------------------------------------------------------------------
(* The invariant of the budget. *)

\* What a set of files takes up.
Volume(ls, S) == Cardinality(PairsOf(ls, S))

\* The files are bounded by the batches they were written from.
LEMMA FilesBounded ==
  ASSUME NEW ls \in Seq(Seq(Nat)), NEW n \in Nat,
         \A f \in DOMAIN ls : Len(ls[f]) <= n, NEW S \in SUBSET DOMAIN ls
  PROVE  Bounded(ls, S, n) /\ Volume(ls, S) \in Nat
<1>1. Len(ls) \in Nat /\ DOMAIN ls = 1..Len(ls)
  BY LenProperties
<1>2. IsFiniteSet(1..Len(ls))
  BY <1>1, FS_Interval
<1>3. IsFiniteSet(S)
  BY <1>1, <1>2, FS_Subset
<1>4. ASSUME NEW f \in S PROVE Len(ls[f]) \in 0..n
  <2>1. ls[f] \in Seq(Nat)
    BY <1>1, ElementOfSeq
  <2> QED  BY <2>1, LenProperties
<1>5. Bounded(ls, S, n)
  BY <1>3, <1>4 DEF Bounded
<1> QED  BY <1>5, PairsBound DEF Volume

\* Fewer files do not take up more.
LEMMA VolumeOfFewer ==
  ASSUME NEW ls, NEW n \in Nat, NEW T, Bounded(ls, T, n), NEW S \in SUBSET T
  PROVE  Volume(ls, S) <= Volume(ls, T)
<1>1. PairsOf(ls, S) \subseteq PairsOf(ls, T)
  BY DEF PairsOf
<1>2. IsFiniteSet(PairsOf(ls, T))
  BY PairsBound
<1> QED  BY <1>1, <1>2, FS_Subset DEF Volume

\* Only the contents of the files count.
LEMMA VolumeSame ==
  ASSUME NEW ls, NEW ts, NEW S, \A f \in S : ls[f] = ts[f]
  PROVE  Volume(ls, S) = Volume(ts, S)
<1>1. PairsOf(ls, S) = PairsOf(ts, S)
  BY DEF PairsOf
<1> QED  BY <1>1 DEF Volume

LEMMA Times ==
  ASSUME NEW a \in Nat, NEW b \in Nat, NEW m \in Nat
  PROVE  /\ a * m \in Nat /\ b * m \in Nat
         /\ (a + b) * m = a * m + b * m
OBVIOUS

Budget == MaxDiskLines + (crashes + faults) * MaxBatchSize
Slack == faults * MaxBatchSize

\* evictIfNeeded's sum may be stale, but but for the faults it is never less than the
\* files that it counted and that are still there, and those it gave up are few.
TrimInv ==
  /\ total \in Int /\ files \subseteq DOMAIN lines /\ unstatted \subseteq files
  /\ Volume(lines, linked) <= Budget + MaxBatchSize
  /\ Volume(lines, linked \ files) <= Slack
  /\ writer = "trim" => Volume(lines, linked \ unstatted) <= total + Slack
  /\ writer = "unlink" =>
       /\ unstatted = {} /\ files # {}
       /\ Volume(lines, linked \ {Min(files)}) <= total + Slack

Writing == {"write", "evict", "trim", "unlink"}

\* No file is longer than the batch it is written from; before it is written the others
\* are within the budget, and eviction brings them back under it.
BudgetInv ==
  /\ crashes \in Nat /\ faults \in Nat
  /\ \A f \in DOMAIN lines : Len(lines[f]) <= MaxBatchSize
  /\ Len(batch) <= MaxBatchSize
  /\ writer = "select" => Len(batch) < MaxBatchSize
  /\ writer = "write" => Len(unwritten) + Len(lines[Len(lines)]) <= MaxBatchSize
  /\ writer = "write" => Volume(lines, linked \ {Len(lines)}) <= Budget
  /\ writer = "evict" => Volume(lines, linked) <= Budget + MaxBatchSize
  /\ writer \in {"trim", "unlink"} => TrimInv
  /\ writer \notin Writing => Volume(lines, linked) <= Budget

LEMMA Sizes == MaxBatchSize \in Nat \ {0} /\ MaxDiskLines \in Nat
BY DiskBufferAssumption

\* What c crashes and n faults add to the budget.
LEMMA BudgetGrows ==
  ASSUME BudgetInv, NEW c \in Nat, NEW n \in Nat, crashes' = crashes + c, faults' = faults + n
  PROVE  /\ Budget \in Nat /\ Budget' = Budget + (c + n) * MaxBatchSize
         /\ Slack \in Nat /\ Slack' = Slack + n * MaxBatchSize
         /\ (c + n) * MaxBatchSize \in Nat /\ n * MaxBatchSize \in Nat
         /\ MaxDiskLines + Slack <= Budget
         /\ crashes' \in Nat /\ faults' \in Nat
<1> DEFINE a == crashes + faults
           b == c + n
           m == MaxBatchSize
<1>1. a \in Nat /\ b \in Nat /\ m \in Nat /\ MaxDiskLines \in Nat /\ faults \in Nat /\ crashes \in Nat
  BY Sizes DEF BudgetInv
<1>2. crashes' + faults' = a + b
  BY <1>1
<1>3. /\ Budget = MaxDiskLines + a * m /\ Budget' = MaxDiskLines + (crashes' + faults') * m
      /\ Slack = faults * m /\ Slack' = faults' * m
  BY DEF Budget, Slack
<1> HIDE DEF b, m
<1>4. /\ crashes * m \in Nat /\ faults * m \in Nat /\ n * m \in Nat /\ b * m \in Nat
      /\ a * m = crashes * m + faults * m
      /\ (faults + n) * m = faults * m + n * m
  BY <1>1, Times DEF a
<1> HIDE DEF a
<1>5. a * m \in Nat /\ (a + b) * m = a * m + b * m
  BY <1>1, Times
<1>6. Budget \in Nat /\ Budget' = Budget + b * m
  BY <1>1, <1>2, <1>3, <1>4, <1>5
<1>7. Slack \in Nat /\ Slack' = Slack + n * m /\ MaxDiskLines + Slack <= Budget
  BY <1>1, <1>3, <1>4, <1>5
<1>8. crashes' \in Nat /\ faults' \in Nat
  BY <1>1
<1> QED  BY <1>4, <1>6, <1>7, <1>8 DEF b, m

LEMMA BudgetTypes ==
  ASSUME BudgetInv
  PROVE  Budget \in Nat /\ Slack \in Nat /\ MaxDiskLines + Slack <= Budget
<1> DEFINE a == crashes + faults
           m == MaxBatchSize
<1>1. crashes \in Nat /\ faults \in Nat /\ m \in Nat /\ MaxDiskLines \in Nat
  BY Sizes DEF BudgetInv
<1>2. Budget = MaxDiskLines + a * m /\ Slack = faults * m
  BY DEF Budget, Slack
<1> HIDE DEF m
<1>3. crashes * m \in Nat /\ faults * m \in Nat /\ a * m = crashes * m + faults * m
  BY <1>1, Times DEF a
<1> HIDE DEF a
<1> QED  BY <1>1, <1>2, <1>3

\* Every set of files of the directory is bounded.
LEMMA LinkedBounded ==
  ASSUME DiskInv, BudgetInv, NEW S \in SUBSET linked
  PROVE  Bounded(lines, S, MaxBatchSize) /\ Volume(lines, S) \in Nat
<1>1. lines \in Seq(Seq(Nat)) /\ S \in SUBSET DOMAIN lines
  BY DEF DiskInv, Types
<1>2. \A f \in DOMAIN lines : Len(lines[f]) <= MaxBatchSize
  BY DEF BudgetInv
<1> QED  BY <1>1, <1>2, Sizes, FilesBounded

\* One file more or less.
LEMMA VolumeOfOne ==
  ASSUME DiskInv, BudgetInv, NEW S \in SUBSET linked, NEW f \in S
  PROVE  /\ Len(lines[f]) \in Nat /\ Len(lines[f]) <= MaxBatchSize
         /\ Volume(lines, S) \in Nat /\ Volume(lines, S \ {f}) \in Nat
         /\ Volume(lines, S) = Volume(lines, S \ {f}) + Len(lines[f])
<1> DEFINE A == S \ {f}
           B == {f}
<1>1. A \in SUBSET linked /\ B \in SUBSET linked /\ A \cap B = {} /\ S = A \cup B
  OBVIOUS
<1>2. f \in DOMAIN lines /\ Len(lines[f]) \in Nat
  BY FileTypes DEF DiskInv
<1>3. Len(lines[f]) <= MaxBatchSize
  BY <1>2 DEF BudgetInv
<1>4. Volume(lines, B) = Len(lines[f])
  BY <1>2, PairsOfOne DEF Volume
<1> HIDE DEF A, B
<1>5. /\ Bounded(lines, A, MaxBatchSize) /\ Bounded(lines, B, MaxBatchSize)
      /\ Volume(lines, A) \in Nat /\ Volume(lines, S) \in Nat
  BY <1>1, LinkedBounded
<1>6. Volume(lines, A \cup B) = Volume(lines, A) + Volume(lines, B)
  BY <1>1, <1>5, Sizes, PairsSplit DEF Volume
<1>7. Volume(lines, S) = Volume(lines, A) + Len(lines[f])
  BY <1>1, <1>4, <1>6
<1> QED  BY <1>2, <1>3, <1>5, <1>7 DEF A

\* A step that leaves the files and what the writer holds alone.
LEMMA BudgetSame ==
  ASSUME BudgetInv, UNCHANGED <<lines, linked, batch, unwritten, writer, crashes, faults>>,
         UNCHANGED <<files, unstatted, total>>
  PROVE  BudgetInv'
BY DEF BudgetInv, TrimInv, Budget, Slack

\* The writer turns to or from its select with a batch that has room.
LEMMA BudgetTurns ==
  ASSUME BudgetInv, UNCHANGED <<lines, linked, crashes, faults>>,
         writer \notin Writing, writer' \notin Writing,
         Len(batch') <= MaxBatchSize, writer' = "select" => Len(batch') < MaxBatchSize
  PROVE  BudgetInv'
BY DEF BudgetInv, Budget, Writing

LEMMA BudgetCreate ==
  ASSUME DiskInv, BudgetInv, Create
  PROVE  BudgetInv'
<1> DEFINE n == Len(lines) + 1
<1>1. /\ writer = "flush" /\ writer' = "write" /\ unwritten' = batch
      /\ lines' = Append(lines, <<>>) /\ linked' = linked \cup {n}
      /\ UNCHANGED <<batch, crashes, faults>>
  BY DEF Create, faultVars, endVars
<1>2. /\ lines \in Seq(Seq(Nat)) /\ Len(lines) \in Nat /\ DOMAIN lines = 1..Len(lines)
      /\ linked \subseteq 1..Len(lines)
  BY LenProperties DEF DiskInv, Types
<1>3. <<>> \in Seq(Nat) /\ Len(<<>>) = 0
  BY EmptySeq
<1>4. /\ lines' \in Seq(Seq(Nat)) /\ Len(lines') = n
      /\ \A f \in 1..Len(lines) : lines'[f] = lines[f]
      /\ lines'[n] = <<>>
  BY <1>1, <1>2, <1>3, AppendProperties
<1>5. DOMAIN lines' = 1..n
  BY <1>4, LenProperties
<1>6. linked' \ {Len(lines')} = linked
  BY <1>1, <1>2, <1>4
<1>7. Volume(lines', linked) = Volume(lines, linked)
  BY <1>2, <1>4, VolumeSame
<1>8. Volume(lines', linked' \ {Len(lines')}) <= Budget'
  <2>1. Volume(lines, linked) <= Budget /\ Budget' = Budget
    BY <1>1 DEF BudgetInv, Budget, Writing
  <2> QED  BY <1>6, <1>7, <2>1
<1>9. Len(batch) \in Nat /\ Len(batch) <= MaxBatchSize
  BY LenProperties DEF DiskInv, Types, BudgetInv
<1>10. Len(unwritten') + Len(lines'[Len(lines')]) <= MaxBatchSize
  BY <1>1, <1>3, <1>4, <1>9, Sizes
<1>11. ASSUME NEW f \in DOMAIN lines' PROVE Len(lines'[f]) <= MaxBatchSize
  <2>1. CASE f = n
    BY <1>3, <1>4, <2>1, Sizes
  <2>2. CASE f # n
    <3>1. f \in 1..Len(lines)
      BY <1>2, <1>5, <2>2
    <3> QED  BY <1>2, <1>4, <3>1 DEF BudgetInv
  <2> QED  BY <2>1, <2>2
<1> QED  BY <1>1, <1>8, <1>10, <1>11 DEF BudgetInv, Writing

LEMMA BudgetWrite ==
  ASSUME DiskInv, BudgetInv, NEW n \in 1..Len(unwritten), Write(n)
  PROVE  BudgetInv'
<1> DEFINE s == SubSeq(unwritten, 1, n)
           l == Len(lines)
           u == SubSeq(unwritten, n + 1, Len(unwritten))
           m == Len(unwritten)
<1>1. /\ writer = "write" /\ writer' = writer /\ lines' = [lines EXCEPT ![l] = @ \o s]
      /\ unwritten' = u
      /\ UNCHANGED <<batch, linked, crashes, faults>>
  BY DEF Write, Lose, endVars
<1>2. /\ lines \in Seq(Seq(Nat)) /\ lines # <<>> /\ unwritten \in Seq(Nat)
      /\ linked \subseteq DOMAIN lines
  BY <1>1 DEF DiskInv, Types, WriterInv
<1>3. l \in 1..l /\ l \in Nat /\ DOMAIN lines = 1..l /\ lines[l] \in Seq(Nat) /\ m \in Nat
  <2>1. l \in Nat \ {0} /\ DOMAIN lines = 1..l /\ m \in Nat
    BY <1>2, EmptySeq, LenProperties
  <2>2. l \in 1..l
    BY <2>1
  <2> QED  BY <1>2, <2>1, <2>2, ElementOfSeq
<1>4. \A i \in 1..m : unwritten[i] \in Nat
  BY <1>2, ElementOfSeq
<1>5. s \in Seq(Nat) /\ Len(s) = n
  <2>1. \A i \in 1..n : unwritten[i] \in Nat
    BY <1>3, <1>4
  <2> QED  BY <1>3, <2>1, SubSeqProperties
<1>6. u \in Seq(Nat) /\ Len(u) = m - n
  <2>1. \A i \in n + 1..m : unwritten[i] \in Nat
    BY <1>3, <1>4
  <2>2. Len(u) = IF n + 1 <= m THEN m - (n + 1) + 1 ELSE 0
    BY <1>3, <2>1, SubSeqProperties
  <2>3. u \in Seq(Nat)
    BY <1>3, <2>1, SubSeqProperties
  <2> HIDE DEF u
  <2> QED  BY <1>3, <2>2, <2>3
<1> HIDE DEF s, u, m
<1>7. lines[l] \o s \in Seq(Nat) /\ Len(lines[l] \o s) = Len(lines[l]) + n /\ Len(lines[l]) \in Nat
  BY <1>3, <1>5, ConcatProperties, LenProperties
<1>8. /\ Len(lines') = l /\ DOMAIN lines' = 1..l
      /\ \A f \in 1..l : lines'[f] = IF f = l THEN lines[l] \o s ELSE lines[f]
  <2>1. lines' \in Seq(Seq(Nat)) /\ Len(lines') = l
        /\ \A f \in 1..l : lines'[f] = IF f = l THEN lines[l] \o s ELSE lines[f]
    <3> DEFINE e == lines[l] \o s
    <3>1. e \in Seq(Nat) /\ lines' = [lines EXCEPT ![l] = e]
      BY <1>1, <1>7
    <3> HIDE DEF e, l
    <3>2. l \in 1..Len(lines)
      BY <1>3 DEF l
    <3>3. /\ [lines EXCEPT ![l] = e] \in Seq(Seq(Nat))
          /\ Len([lines EXCEPT ![l] = e]) = Len(lines)
          /\ \A j \in 1..Len(lines) : [lines EXCEPT ![l] = e][j] = IF j = l THEN e ELSE lines[j]
      BY <1>2, <3>1, <3>2, ExceptSeq
    <3> QED  BY <3>1, <3>3 DEF e, l
  <2> QED  BY <2>1, LenProperties
<1> HIDE DEF l
<1>9. Len(unwritten') + Len(lines'[Len(lines')]) <= MaxBatchSize
  <2>1. m + Len(lines[l]) <= MaxBatchSize
    BY <1>1 DEF BudgetInv, l, m
  <2>2. Len(unwritten') = m - n /\ Len(lines'[l]) = Len(lines[l]) + n /\ Len(lines') = l
    BY <1>1, <1>3, <1>6, <1>7, <1>8
  <2> QED  BY <1>3, <1>7, <2>1, <2>2, Sizes
<1>10. ASSUME NEW f \in DOMAIN lines' PROVE Len(lines'[f]) <= MaxBatchSize
  <2>1. CASE f = l
    <3>1. Len(unwritten') \in Nat
      BY <1>1, <1>6, LenProperties
    <3>2. Len(lines'[l]) \in Nat
      BY <1>3, <1>7, <1>8
    <3> QED  BY <1>8, <1>9, <2>1, <3>1, <3>2, Sizes
  <2>2. CASE f # l
    BY <1>3, <1>8, <2>2 DEF BudgetInv
  <2> QED  BY <2>1, <2>2
<1>11. Volume(lines', linked' \ {Len(lines')}) <= Budget'
  <2>1. Volume(lines, linked \ {l}) <= Budget /\ Budget' = Budget
    BY <1>1 DEF BudgetInv, Budget, l
  <2>2. \A f \in linked \ {l} : lines'[f] = lines[f]
    BY <1>2, <1>3, <1>8
  <2>3. Volume(lines', linked \ {l}) = Volume(lines, linked \ {l})
    BY <2>2, VolumeSame
  <2> QED  BY <1>1, <1>8, <2>1, <2>3
<1> QED  BY <1>1, <1>9, <1>10, <1>11 DEF BudgetInv, Writing

\* The file that was written takes up no more than a batch.
LEMMA WrittenVolume ==
  ASSUME DiskInv, BudgetInv, writer = "write"
  PROVE  Volume(lines, linked) <= Budget + MaxBatchSize
<1> DEFINE l == Len(lines)
           A == linked \ {l}
           B == linked \cap {l}
<1>1. Volume(lines, A) <= Budget
  BY DEF BudgetInv
<1>2. A \in SUBSET linked /\ B \in SUBSET linked /\ A \cap B = {} /\ linked = A \cup B
  OBVIOUS
<1>3. Volume(lines, B) <= MaxBatchSize
  <2>1. CASE B = {}
    <3>1. Volume(lines, B) = 0
      BY <2>1, PairsOfNone DEF Volume
    <3> HIDE DEF B
    <3> QED  BY <3>1, Sizes
  <2>2. CASE B # {}
    <3>1. B = {l} /\ l \in linked
      BY <2>2
    <3>2. l \in DOMAIN lines /\ lines \in Seq(Seq(Nat))
      BY <3>1 DEF DiskInv, Types
    <3>3. lines[l] \in Seq(Nat)
      BY <3>2, LenProperties, ElementOfSeq
    <3>4. Len(lines[l]) \in Nat /\ Len(lines[l]) <= MaxBatchSize
      BY <3>2, <3>3, LenProperties DEF BudgetInv
    <3>5. Volume(lines, {l}) = Len(lines[l])
      BY <3>4, PairsOfOne DEF Volume
    <3> QED  BY <3>1, <3>4, <3>5
  <2> QED  BY <2>1, <2>2
<1> HIDE DEF A, B
<1>4. /\ Bounded(lines, A, MaxBatchSize) /\ Bounded(lines, B, MaxBatchSize)
      /\ Volume(lines, A) \in Nat /\ Volume(lines, B) \in Nat
  BY <1>2, LinkedBounded
<1>5. Volume(lines, A \cup B) = Volume(lines, A) + Volume(lines, B)
  BY <1>2, <1>4, Sizes, PairsSplit DEF Volume
<1>6. Budget \in Nat
  BY BudgetTypes
<1>7. Volume(lines, linked) = Volume(lines, A) + Volume(lines, B)
  BY <1>2, <1>5
<1> QED  BY <1>1, <1>3, <1>4, <1>6, <1>7, Sizes

LEMMA BudgetWriteEnds ==
  ASSUME DiskInv, BudgetInv, WriteEnds
  PROVE  BudgetInv'
<1>1. /\ writer = "write" /\ writer' = "evict" /\ batch' = <<>>
      /\ UNCHANGED <<lines, linked, crashes, faults>>
  BY DEF WriteEnds, Lose, diskVars, endVars
<1>2. Volume(lines, linked) <= Budget + MaxBatchSize
  BY <1>1, WrittenVolume
<1>3. Len(batch') <= MaxBatchSize
  BY <1>1, Sizes, EmptySeq
<1> QED  BY <1>1, <1>2, <1>3 DEF BudgetInv, Budget, Writing

\* The oldest file of those that evictIfNeeded works on.
LEMMA OldestOf ==
  ASSUME DiskInv, NEW S \in SUBSET DOMAIN lines, S # {}
  PROVE  Min(S) \in S
<1>1. S \in SUBSET Nat
  BY FileTypes DEF DiskInv
<1> QED  BY <1>1, OldestFile

LEMMA BudgetEvictLists ==
  ASSUME DiskInv, BudgetInv, EvictLists
  PROVE  BudgetInv'
<1>1. /\ writer = "evict" /\ writer' = "trim" /\ files' = linked /\ unstatted' = linked /\ total' = 0
      /\ UNCHANGED <<batch, unwritten, lines, linked, crashes, faults>>
  BY DEF EvictLists, faultVars, endVars
<1>2. Volume(lines, linked \ linked) = 0
  <2>1. linked \ linked = {}
    OBVIOUS
  <2> QED  BY <2>1, PairsOfNone DEF Volume
<1>3. Slack \in Nat /\ Slack' = Slack /\ Budget' = Budget
  BY <1>1, BudgetTypes DEF Slack, Budget
<1>4. TrimInv'
  <2>1. Volume(lines, linked \ linked) <= Slack /\ Volume(lines, linked \ linked) <= 0 + Slack
    BY <1>2, <1>3
  <2>2. linked \subseteq DOMAIN lines /\ Volume(lines, linked) <= Budget + MaxBatchSize
    BY <1>1 DEF DiskInv, Types, BudgetInv
  <2> QED  BY <1>1, <1>3, <2>1, <2>2 DEF TrimInv
<1> QED  BY <1>1, <1>4 DEF BudgetInv, Writing

LEMMA BudgetEvictSeesNothing ==
  ASSUME DiskInv, BudgetInv, EvictSeesNothing
  PROVE  BudgetInv'
<1>1. /\ writer = "evict" /\ writer' \in {"select", "done"} /\ faults' = faults + 1
      /\ UNCHANGED <<batch, unwritten, lines, linked, crashes>>
  BY DEF EvictSeesNothing, AfterFlush, Faults, diskVars, endVars
<1>2. /\ Budget' = Budget + (0 + 1) * MaxBatchSize /\ crashes' \in Nat /\ faults' \in Nat
  <2>1. crashes' = crashes + 0
    BY <1>1 DEF BudgetInv
  <2> QED  BY <1>1, <2>1, BudgetGrows
<1>3. Volume(lines, linked) <= Budget'
  <2>1. (0 + 1) * MaxBatchSize = MaxBatchSize
    BY Sizes
  <2> QED  BY <1>1, <1>2, <2>1 DEF BudgetInv
<1>4. batch = <<>> /\ Len(batch) < MaxBatchSize
  BY <1>1, Sizes, EmptySeq DEF DiskInv, WriterInv
<1> QED  BY <1>1, <1>2, <1>3, <1>4 DEF BudgetInv, Writing

\* A size that is not seen counts as a fault.
LEMMA BudgetEvictStats ==
  ASSUME DiskInv, BudgetInv, NEW fails \in BOOLEAN, EvictStats(fails)
  PROVE  BudgetInv'
<1> DEFINE f == Min(unstatted)
           n == IF fails THEN 1 ELSE 0
           U == unstatted \ {f}
<1>1. /\ writer = "trim" /\ writer' = writer /\ unstatted # {} /\ unstatted' = U
      /\ total' = total + SizeSeen(f, fails) /\ faults' = faults + n
      /\ UNCHANGED <<batch, unwritten, lines, linked, files, crashes>>
  BY DEF EvictStats, Faults, endVars
<1>2. TrimInv /\ n \in Nat
  BY <1>1 DEF BudgetInv
<1>3. f \in unstatted /\ unstatted \subseteq files /\ files \subseteq DOMAIN lines
  <2>1. unstatted \in SUBSET DOMAIN lines
    BY <1>2 DEF TrimInv
  <2> QED  BY <1>1, <1>2, <2>1, OldestOf DEF TrimInv
<1>4. /\ Budget \in Nat /\ Budget' = Budget + (0 + n) * MaxBatchSize /\ Slack \in Nat
      /\ Slack' = Slack + n * MaxBatchSize /\ n * MaxBatchSize \in Nat
      /\ crashes' \in Nat /\ faults' \in Nat
  <2>1. crashes' = crashes + 0
    BY <1>1 DEF BudgetInv
  <2> HIDE DEF n
  <2> QED  BY <1>1, <1>2, <2>1, BudgetGrows
<1>5. n * MaxBatchSize = IF fails THEN MaxBatchSize ELSE 0
  BY Sizes
<1>6. 0 + n = n
  OBVIOUS
<1> HIDE DEF f, n
<1>7. /\ Volume(lines, linked) \in Nat /\ Volume(lines, linked \ files) \in Nat
      /\ Volume(lines, linked \ unstatted) \in Nat
  <2>1. linked \in SUBSET linked /\ linked \ files \in SUBSET linked
        /\ linked \ unstatted \in SUBSET linked
    OBVIOUS
  <2> QED  BY <2>1, LinkedBounded
<1>8. Volume(lines, linked \ U) <= total' + Slack'
  <2> DEFINE V == Volume(lines, linked \ unstatted)
             W == Volume(lines, linked \ U)
  <2>1. V <= total + Slack /\ total \in Int /\ V \in Nat
    BY <1>1, <1>2, <1>7 DEF TrimInv
  <2>2. CASE f \in linked
    <3>1. linked \ U \in SUBSET linked /\ f \in linked \ U /\ (linked \ U) \ {f} = linked \ unstatted
      BY <1>3, <2>2
    <3>2. /\ Len(lines[f]) \in Nat /\ Len(lines[f]) <= MaxBatchSize /\ W = V + Len(lines[f])
      BY <3>1, VolumeOfOne
    <3>3. total' = total + (IF fails THEN 0 ELSE Len(lines[f]))
      BY <1>1, <2>2 DEF SizeSeen
    <3> HIDE DEF V, W
    <3>4. W <= total' + Slack'
      <4>1. CASE fails
        BY <1>4, <1>5, <2>1, <3>2, <3>3, <4>1, Sizes
      <4>2. CASE ~fails
        BY <1>4, <1>5, <2>1, <3>2, <3>3, <4>2, Sizes
      <4> QED  BY <4>1, <4>2
    <3> QED  BY <3>4 DEF W
  <2>3. CASE f \notin linked
    <3>1. linked \ U = linked \ unstatted
      BY <2>3
    <3>2. total' = total + 0
      BY <1>1, <2>3 DEF SizeSeen
    <3>3. W = V
      BY <3>1
    <3> HIDE DEF V, W
    <3>4. W <= total' + Slack'
      BY <1>4, <2>1, <3>2, <3>3
    <3> QED  BY <3>4 DEF W
  <2> QED  BY <2>2, <2>3
<1>9. TrimInv'
  <2>1. Volume(lines, linked) <= Budget' + MaxBatchSize
    BY <1>2, <1>4, <1>6, <1>7, Sizes DEF TrimInv
  <2>2. Volume(lines, linked \ files) <= Slack'
    BY <1>2, <1>4, <1>7 DEF TrimInv
  <2>3. total' \in Int
    <3>1. f \in DOMAIN lines /\ Len(lines[f]) \in Nat
      BY <1>3, FileTypes DEF DiskInv
    <3> QED  BY <1>1, <1>2, <3>1 DEF TrimInv, SizeSeen
  <2> QED  BY <1>1, <1>3, <1>8, <2>1, <2>2, <2>3 DEF TrimInv
<1> QED  BY <1>1, <1>4, <1>9 DEF BudgetInv, Writing

LEMMA BudgetEvictSubtracts ==
  ASSUME DiskInv, BudgetInv, NEW fails \in BOOLEAN, EvictSubtracts(fails)
  PROVE  BudgetInv'
<1> DEFINE f == Min(files)
           n == IF fails THEN 1 ELSE 0
<1>1. /\ writer = "trim" /\ writer' = "unlink" /\ unstatted = {} /\ files # {}
      /\ total' = total - SizeSeen(f, fails) /\ faults' = faults + n
      /\ UNCHANGED <<batch, unwritten, lines, linked, files, unstatted, crashes>>
  BY DEF EvictSubtracts, AboveBudget, Faults, endVars
<1>2. TrimInv /\ n \in Nat
  BY <1>1 DEF BudgetInv
<1>3. f \in files /\ files \subseteq DOMAIN lines
  <2>1. files \in SUBSET DOMAIN lines
    BY <1>2 DEF TrimInv
  <2> QED  BY <1>1, <2>1, OldestOf
<1>4. /\ Budget \in Nat /\ Budget' = Budget + (0 + n) * MaxBatchSize /\ Slack \in Nat
      /\ Slack' = Slack + n * MaxBatchSize /\ n * MaxBatchSize \in Nat
      /\ crashes' \in Nat /\ faults' \in Nat
  <2>1. crashes' = crashes + 0
    BY <1>1 DEF BudgetInv
  <2> HIDE DEF n
  <2> QED  BY <1>1, <1>2, <2>1, BudgetGrows
<1>5. 0 + n = n
  OBVIOUS
<1> DEFINE g == Min(files')
<1>6. g = f
  BY <1>1
<1> HIDE DEF f, g, n
<1>7. /\ Volume(lines, linked) \in Nat /\ Volume(lines, linked \ files) \in Nat
      /\ Volume(lines, linked \ {f}) \in Nat
  <2>1. linked \in SUBSET linked /\ linked \ files \in SUBSET linked /\ linked \ {f} \in SUBSET linked
    OBVIOUS
  <2> QED  BY <2>1, LinkedBounded
<1>8. Volume(lines, linked) <= total + Slack /\ total \in Int
  <2>1. linked \ unstatted = linked
    BY <1>1
  <2> QED  BY <1>1, <1>2, <2>1 DEF TrimInv
<1>9. Volume(lines, linked \ {f}) <= total' + Slack'
  <2> DEFINE V == Volume(lines, linked)
             W == Volume(lines, linked \ {f})
  <2>1. /\ V \in Nat /\ W \in Nat /\ total \in Int /\ V <= total + Slack
        /\ Slack \in Nat /\ n * MaxBatchSize \in Nat /\ Slack' = Slack + n * MaxBatchSize
    BY <1>4, <1>7, <1>8
  <2>2. CASE f \in linked
    <3>1. Len(lines[f]) \in Nat /\ Len(lines[f]) <= MaxBatchSize /\ V = W + Len(lines[f])
      <4>1. linked \in SUBSET linked
        OBVIOUS
      <4> QED  BY <2>2, <4>1, VolumeOfOne
    <3>2. total' = total - (IF fails THEN 0 ELSE Len(lines[f]))
      BY <1>1, <2>2 DEF SizeSeen
    <3>3. \E k \in Nat : k = n * MaxBatchSize
      BY <2>1
    <3> PICK k \in Nat : k = n * MaxBatchSize
      BY <3>3
    <3> DEFINE L == Len(lines[f])
    <3>4. /\ V \in Nat /\ W \in Nat /\ L \in Nat /\ V = W + L /\ total \in Int
          /\ V <= total + Slack /\ Slack \in Nat /\ Slack' = Slack + k
      BY <2>1, <3>1
    <3>5. total' = IF fails THEN total ELSE total - L
      BY <3>2, <3>4
    <3> HIDE DEF V, W, L
    <3>6. W <= total' + Slack'
      <4>1. CASE fails
        BY <3>4, <3>5, <4>1
      <4>2. CASE ~fails
        BY <3>4, <3>5, <4>2
      <4> QED  BY <4>1, <4>2
    <3> QED  BY <3>6 DEF W
  <2>3. CASE f \notin linked
    <3>1. linked \ {f} = linked /\ total' = total - 0
      BY <1>1, <2>3 DEF SizeSeen
    <3>2. W = V
      BY <3>1
    <3> HIDE DEF V, W
    <3>3. W <= total' + Slack'
      BY <2>1, <3>1, <3>2
    <3> QED  BY <3>3 DEF W
  <2> QED  BY <2>2, <2>3
<1>10. TrimInv'
  <2>1. Volume(lines, linked) <= Budget' + MaxBatchSize
    BY <1>2, <1>4, <1>5, <1>7, Sizes DEF TrimInv
  <2>2. Volume(lines, linked \ files) <= Slack'
    BY <1>2, <1>4, <1>7 DEF TrimInv
  <2>3. total' \in Int
    <3>1. Len(lines[f]) \in Nat
      BY <1>3, FileTypes DEF DiskInv
    <3> QED  BY <1>1, <1>8, <3>1 DEF SizeSeen
  <2>4. Volume(lines, linked \ {g}) <= total' + Slack'
    BY <1>6, <1>9
  <2> QED  BY <1>1, <1>3, <2>1, <2>2, <2>3, <2>4 DEF TrimInv, g
<1> QED  BY <1>1, <1>4, <1>10 DEF BudgetInv, Writing

\* A file that cannot be removed counts as a fault.
LEMMA BudgetEvictUnlinks ==
  ASSUME DiskInv, BudgetInv, NEW stuck \in BOOLEAN, EvictUnlinks(stuck)
  PROVE  BudgetInv'
<1> DEFINE f == Min(files)
           n == IF stuck THEN 1 ELSE 0
<1>1. /\ writer = "unlink" /\ writer' = "trim" /\ files' = files \ {f}
      /\ linked' = IF stuck THEN linked ELSE linked \ {f}
      /\ faults' = faults + n
      /\ UNCHANGED <<batch, unwritten, lines, unstatted, total, crashes>>
  BY DEF EvictUnlinks, Faults, endVars
<1>2. TrimInv /\ n \in Nat
  BY <1>1 DEF BudgetInv
<1>3. f \in files /\ files \subseteq DOMAIN lines /\ unstatted = {}
  <2>1. files \in SUBSET DOMAIN lines /\ files # {} /\ unstatted = {}
    BY <1>1, <1>2 DEF TrimInv
  <2> QED  BY <2>1, OldestOf
<1>4. /\ Budget \in Nat /\ Budget' = Budget + (0 + n) * MaxBatchSize /\ Slack \in Nat
      /\ Slack' = Slack + n * MaxBatchSize /\ n * MaxBatchSize \in Nat
      /\ crashes' \in Nat /\ faults' \in Nat
  <2>1. crashes' = crashes + 0
    BY <1>1 DEF BudgetInv
  <2> HIDE DEF n
  <2> QED  BY <1>1, <1>2, <2>1, BudgetGrows
<1>5. 0 + n = n /\ n * MaxBatchSize = IF stuck THEN MaxBatchSize ELSE 0
  BY Sizes
<1>6. /\ Volume(lines, linked) <= Budget + MaxBatchSize /\ Volume(lines, linked \ files) <= Slack
      /\ Volume(lines, linked \ {f}) <= total + Slack /\ total \in Int
  BY <1>1, <1>2 DEF TrimInv
<1> HIDE DEF f, n
<1>7. /\ Volume(lines, linked) \in Nat /\ Volume(lines, linked \ files) \in Nat
      /\ Volume(lines, linked \ {f}) \in Nat
      /\ Volume(lines, linked \ {f}) <= Volume(lines, linked)
  <2> DEFINE A == linked \ {f}
             B == linked \ files
  <2>1. linked \in SUBSET linked /\ B \in SUBSET linked /\ A \in SUBSET linked
    OBVIOUS
  <2> HIDE DEF A, B
  <2>2. Volume(lines, linked) \in Nat /\ Volume(lines, B) \in Nat /\ Volume(lines, A) \in Nat
        /\ Volume(lines, A) <= Volume(lines, linked)
    BY <2>1, LinkedBounded, VolumeOfFewer, Sizes
  <2> QED  BY <2>2 DEF A, B
<1>8. CASE ~stuck \/ f \notin linked
  <2>1. linked' = linked \ {f} /\ linked' \ files' = linked \ files
    BY <1>1, <1>3, <1>8
  <2>2. Volume(lines, linked') <= Budget' + MaxBatchSize
    BY <1>4, <1>5, <1>6, <1>7, <2>1, Sizes
  <2>3. Volume(lines, linked' \ files') <= Slack'
    BY <1>4, <1>6, <1>7, <2>1
  <2>4. Volume(lines, linked' \ unstatted') <= total' + Slack'
    <3> DEFINE W == Volume(lines, linked \ {f})
    <3>1. linked' \ unstatted' = linked \ {f}
      BY <1>1, <1>3, <2>1
    <3>2. /\ W \in Nat /\ total \in Int /\ W <= total + Slack
          /\ Slack \in Nat /\ n * MaxBatchSize \in Nat /\ Slack' = Slack + n * MaxBatchSize
      BY <1>4, <1>6, <1>7
    <3>3. Volume(lines, linked' \ unstatted') = W /\ total' = total
      BY <1>1, <3>1
    <3> HIDE DEF W
    <3>4. W <= total + Slack'
      BY <3>2
    <3> QED  BY <3>3, <3>4
  <2>5. TrimInv'
    BY <1>1, <1>3, <1>6, <2>2, <2>3, <2>4 DEF TrimInv
  <2>6. writer' = "trim" /\ (\A g \in DOMAIN lines' : Len(lines'[g]) <= MaxBatchSize)
        /\ Len(batch') <= MaxBatchSize
    BY <1>1 DEF BudgetInv
  <2> QED  BY <1>4, <2>5, <2>6 DEF BudgetInv, Writing
<1>9. CASE stuck /\ f \in linked
  <2> DEFINE W == linked \ files'
  <2>1. linked' = linked /\ W \in SUBSET linked /\ f \in W /\ W \ {f} = linked \ files
        /\ linked \in SUBSET linked
    BY <1>1, <1>3, <1>9
  <2> HIDE DEF W
  <2>2. /\ Len(lines[f]) \in Nat /\ Len(lines[f]) <= MaxBatchSize
        /\ Volume(lines, W) = Volume(lines, linked \ files) + Len(lines[f])
    BY <2>1, VolumeOfOne
  <2>3. Volume(lines, linked) = Volume(lines, linked \ {f}) + Len(lines[f])
    BY <1>9, <2>1, VolumeOfOne
  <2>4. Slack' = Slack + MaxBatchSize
    BY <1>4, <1>5, <1>9
  <2>5. Volume(lines, linked) <= Budget' + MaxBatchSize
    BY <1>4, <1>5, <1>6, <1>7, Sizes
  <2>6. Volume(lines, W) <= Slack'
    BY <1>4, <1>6, <1>7, <2>2, <2>4, Sizes
  <2>7. Volume(lines, linked) <= total + Slack'
    <3> DEFINE V == Volume(lines, linked)
               X == Volume(lines, linked \ {f})
               L == Len(lines[f])
    <3>1. /\ V \in Nat /\ X \in Nat /\ L \in Nat /\ total \in Int /\ X <= total + Slack
          /\ L <= MaxBatchSize /\ V = X + L /\ Slack \in Nat /\ Slack' = Slack + MaxBatchSize
      BY <1>4, <1>6, <1>7, <2>2, <2>3, <2>4
    <3> HIDE DEF V, X, L
    <3>2. V <= total + Slack'
      BY <3>1, Sizes
    <3> QED  BY <3>2 DEF V
  <2>8. linked' \ files' = W /\ linked' \ unstatted' = linked
    BY <1>1, <1>3, <2>1 DEF W
  <2>9. TrimInv'
    BY <1>1, <1>3, <1>6, <2>1, <2>5, <2>6, <2>7, <2>8 DEF TrimInv
  <2>10. writer' = "trim" /\ (\A g \in DOMAIN lines' : Len(lines'[g]) <= MaxBatchSize)
         /\ Len(batch') <= MaxBatchSize
    BY <1>1 DEF BudgetInv
  <2> QED  BY <1>4, <2>9, <2>10 DEF BudgetInv, Writing
<1> QED  BY <1>8, <1>9

LEMMA BudgetEvictEnds ==
  ASSUME DiskInv, BudgetInv, EvictEnds
  PROVE  BudgetInv'
<1>1. /\ writer = "trim" /\ writer' \in {"select", "done"} /\ unstatted = {}
      /\ ~(total > MaxDiskLines) \/ files = {}
      /\ UNCHANGED <<batch, unwritten, lines, linked, crashes, faults>>
  BY DEF EvictEnds, EvictStops, AfterFlush, AboveBudget, faultVars, endVars
<1>2. TrimInv
  BY <1>1 DEF BudgetInv
<1>3. /\ Volume(lines, linked) <= total + Slack /\ total \in Int
      /\ files = {} => Volume(lines, linked) <= Slack
  <2>1. linked \ unstatted = linked /\ (files = {} => linked \ files = linked)
    BY <1>1
  <2> QED  BY <1>1, <1>2, <2>1 DEF TrimInv
<1>4. Volume(lines, linked) \in Nat
  <2>1. linked \in SUBSET linked
    OBVIOUS
  <2> QED  BY <2>1, LinkedBounded
<1>5. Budget \in Nat /\ Slack \in Nat /\ MaxDiskLines + Slack <= Budget /\ Budget' = Budget
  BY <1>1, BudgetTypes DEF Budget
<1>6. Volume(lines, linked) <= Budget
  BY <1>1, <1>3, <1>4, <1>5, Sizes
<1>7. batch = <<>> /\ Len(batch) < MaxBatchSize
  BY <1>1, Sizes, EmptySeq DEF DiskInv, WriterInv
<1> QED  BY <1>1, <1>5, <1>6, <1>7 DEF BudgetInv, Writing

\* Files that leave the directory and faults of the reader.
LEMMA BudgetShrinks ==
  ASSUME DiskInv, BudgetInv, NEW n \in Nat, linked' \in SUBSET linked, faults' = faults + n,
         UNCHANGED <<lines, batch, unwritten, writer, crashes, files, unstatted, total>>
  PROVE  BudgetInv'
<1> DEFINE l == Len(lines)
<1>1. ASSUME NEW S
      PROVE  /\ Volume(lines, linked' \ S) \in Nat /\ Volume(lines, linked \ S) \in Nat
             /\ Volume(lines, linked' \ S) <= Volume(lines, linked \ S)
  <2> DEFINE A == linked' \ S
             B == linked \ S
  <2>1. A \in SUBSET linked /\ B \in SUBSET linked /\ A \in SUBSET B
    OBVIOUS
  <2> HIDE DEF A, B
  <2>2. Volume(lines, A) \in Nat /\ Volume(lines, B) \in Nat /\ Volume(lines, A) <= Volume(lines, B)
    BY <2>1, LinkedBounded, Sizes, VolumeOfFewer
  <2> QED  BY <2>2 DEF A, B
<1>2. /\ Volume(lines, linked') \in Nat /\ Volume(lines, linked) \in Nat
      /\ Volume(lines, linked') <= Volume(lines, linked)
  <2>1. linked' \ {} = linked' /\ linked \ {} = linked
    OBVIOUS
  <2> QED  BY <1>1, <2>1
<1>3. /\ Budget \in Nat /\ Budget' = Budget + (0 + n) * MaxBatchSize /\ Slack \in Nat
      /\ Slack' = Slack + n * MaxBatchSize /\ n * MaxBatchSize \in Nat
      /\ crashes' \in Nat /\ faults' \in Nat
  <2>1. crashes' = crashes + 0
    BY DEF BudgetInv
  <2> QED  BY <2>1, BudgetGrows
<1>4. 0 + n = n
  OBVIOUS
<1>5. Budget' \in Nat /\ Budget <= Budget' /\ Slack' \in Nat /\ Slack <= Slack'
  BY <1>3, <1>4
<1>6. writer = "write" => Volume(lines, linked' \ {l}) <= Budget'
  <2>1. Volume(lines, linked' \ {l}) <= Volume(lines, linked \ {l})
        /\ Volume(lines, linked' \ {l}) \in Nat /\ Volume(lines, linked \ {l}) \in Nat
    BY <1>1
  <2> QED  BY <1>3, <1>5, <2>1 DEF BudgetInv
<1>7. writer = "evict" => Volume(lines, linked') <= Budget' + MaxBatchSize
  BY <1>2, <1>3, <1>5, Sizes DEF BudgetInv
<1>8. writer \notin Writing => Volume(lines, linked') <= Budget'
  BY <1>2, <1>3, <1>5 DEF BudgetInv
<1>9. writer \in {"trim", "unlink"} => TrimInv'
  <2> SUFFICES ASSUME writer \in {"trim", "unlink"} PROVE TrimInv'
    OBVIOUS
  <2>1. TrimInv
    BY DEF BudgetInv
  <2>2. Volume(lines, linked') <= Budget' + MaxBatchSize
    BY <1>2, <1>3, <1>5, <2>1, Sizes DEF TrimInv
  <2>3. Volume(lines, linked' \ files) <= Slack'
    <3>1. Volume(lines, linked' \ files) <= Volume(lines, linked \ files)
          /\ Volume(lines, linked' \ files) \in Nat /\ Volume(lines, linked \ files) \in Nat
      BY <1>1
    <3> QED  BY <1>3, <1>5, <2>1, <3>1 DEF TrimInv
  <2>4. writer = "trim" => Volume(lines, linked' \ unstatted) <= total + Slack'
    <3>1. /\ Volume(lines, linked' \ unstatted) \in Nat /\ Volume(lines, linked \ unstatted) \in Nat
          /\ Volume(lines, linked' \ unstatted) <= Volume(lines, linked \ unstatted)
      BY <1>1
    <3> QED  BY <1>3, <1>5, <2>1, <3>1 DEF TrimInv
  <2> DEFINE f == Min(files)
  <2>5. writer = "unlink" =>
          unstatted = {} /\ files # {} /\ Volume(lines, linked' \ {f}) <= total + Slack'
    <3>1. /\ Volume(lines, linked' \ {f}) \in Nat /\ Volume(lines, linked \ {f}) \in Nat
          /\ Volume(lines, linked' \ {f}) <= Volume(lines, linked \ {f})
      BY <1>1
    <3> QED  BY <1>3, <1>5, <2>1, <3>1 DEF TrimInv
  <2> DEFINE g == Min(files')
  <2>6. g = f
    OBVIOUS
  <2> HIDE DEF f, g
  <2>7. writer = "unlink" =>
          unstatted = {} /\ files # {} /\ Volume(lines, linked' \ {g}) <= total + Slack'
    BY <2>5, <2>6
  <2> QED  BY <2>1, <2>2, <2>3, <2>4, <2>7 DEF TrimInv, g
<1> QED  BY <1>3, <1>6, <1>7, <1>8, <1>9 DEF BudgetInv

\* While a batch is written and what exceeds the budget evicted, one batch more is allowed.
LEMMA BudgetOf ==
  ASSUME DiskInv, BudgetInv
  PROVE  /\ Volume(lines, linked) <=
              Budget + (IF writer \in Writing THEN MaxBatchSize ELSE 0)
         /\ Volume(lines, linked) \in Nat /\ Budget \in Nat
<1>1. Volume(lines, linked) \in Nat /\ Budget \in Nat
  BY LinkedBounded, BudgetTypes
<1>2. CASE writer = "write"
  BY <1>1, <1>2, WrittenVolume DEF Writing
<1>3. CASE writer = "evict"
  BY <1>1, <1>3 DEF BudgetInv, Writing
<1>4. CASE writer \in {"trim", "unlink"}
  BY <1>1, <1>4 DEF BudgetInv, TrimInv, Writing
<1>5. CASE writer \notin Writing
  BY <1>1, <1>5 DEF BudgetInv
<1> QED  BY <1>1, <1>2, <1>3, <1>4, <1>5 DEF Writing

LEMMA BudgetCrash ==
  ASSUME DiskInv, BudgetInv, CrashAndRestart
  PROVE  BudgetInv'
<1>1. /\ crashes' = crashes + 1 /\ batch' = <<>> /\ writer' = "select"
      /\ UNCHANGED <<lines, linked, faults>>
  BY DEF CrashAndRestart, Restart, Lose, diskVars
<1>2. Budget' = Budget + MaxBatchSize /\ crashes' \in Nat /\ faults' \in Nat
  <2>1. faults' = faults + 0 /\ (1 + 0) * MaxBatchSize = MaxBatchSize
    BY <1>1, Sizes DEF BudgetInv
  <2> QED  BY <1>1, <2>1, BudgetGrows
<1>3. Volume(lines, linked) <= Budget'
  BY <1>2, BudgetOf, Sizes
<1>4. Len(batch') < MaxBatchSize /\ Len(batch') <= MaxBatchSize
  BY <1>1, Sizes, EmptySeq
<1> QED  BY <1>1, <1>2, <1>3, <1>4 DEF BudgetInv, Writing

-----------------------------------------------------------------------------
LEMMA BudgetInit == Init => BudgetInv
<1> SUFFICES ASSUME Init PROVE BudgetInv
  OBVIOUS
<1>1. /\ batch = <<>> /\ writer = "select" /\ lines = <<>> /\ linked = {}
      /\ crashes = 0 /\ faults = 0
  BY DEF Init
<1>2. Len(<<>>) = 0 /\ DOMAIN <<>> = {}
  BY EmptySeq
<1>3. Budget \in Nat
  <2>1. (crashes + faults) * MaxBatchSize \in Nat
    BY <1>1, Sizes, Times
  <2> QED  BY <2>1, Sizes DEF Budget
<1>4. Volume(lines, linked) <= Budget
  <2>1. Volume(lines, linked) = 0
    BY <1>1, PairsOfNone DEF Volume
  <2> QED  BY <1>3, <2>1
<1>5. Len(batch) < MaxBatchSize /\ Len(batch) <= MaxBatchSize
  BY <1>1, <1>2, Sizes
<1> QED  BY <1>1, <1>2, <1>4, <1>5 DEF BudgetInv, Writing

LEMMA BudgetTakes ==
  ASSUME DiskInv, BudgetInv, WriterReceives
  PROVE  BudgetInv'
<1>1. /\ writer = "select" /\ batch' = Append(batch, Head(in))
      /\ writer' = IF Len(batch) + 1 >= MaxBatchSize THEN "flush" ELSE "select"
      /\ in \in Seq(Nat) /\ in # <<>> /\ batch \in Seq(Nat)
      /\ UNCHANGED <<lines, linked, crashes, faults>>
  BY DEF WriterReceives, WriterTakes, DiskInv, Types, faultVars, diskVars, endVars
<1>2. Len(batch') = Len(batch) + 1 /\ Len(batch) \in Nat
  BY <1>1, HeadTailProperties, AppendProperties, LenProperties
<1>3. Len(batch) < MaxBatchSize
  BY <1>1 DEF BudgetInv
<1>4. Len(batch') <= MaxBatchSize /\ (writer' = "select" => Len(batch') < MaxBatchSize)
  BY <1>1, <1>2, <1>3, Sizes
<1> QED  BY <1>1, <1>4, BudgetTurns DEF Writing

LEMMA BudgetStep == DiskInv /\ BudgetInv /\ [Next]_vars => BudgetInv'
<1> SUFFICES ASSUME DiskInv, BudgetInv, [Next]_vars PROVE BudgetInv'
  OBVIOUS
<1> USE DEF faultVars, addVars, writerVars, evictVars, diskVars, readerVars, fileVars, outVars, endVars
<1>1. ASSUME NEW a \in Adders, AddChecked(a) \/ AddSend(a) \/ AddFails(a) PROVE BudgetInv'
  BY <1>1, BudgetSame DEF AddChecked, AddSend, AddFails
<1>2. CASE WriterReceives
  BY <1>2, BudgetTakes
<1>3. CASE WriterTicks
  BY <1>3, BudgetTurns DEF WriterTicks, BudgetInv, Writing
<1>4. CASE WriterSeesClose
  BY <1>4, BudgetTurns DEF WriterSeesClose, BudgetInv, Writing
<1>5. CASE Create
  BY <1>5, BudgetCreate
<1>6. CASE CreateFails
  <2>1. /\ writer = "flush" /\ writer' \in {"select", "done"} /\ batch' = <<>>
        /\ UNCHANGED <<lines, linked, crashes, faults>>
    BY <1>6 DEF CreateFails, AfterFlush, Lose
  <2>2. Len(batch') <= MaxBatchSize /\ Len(batch') < MaxBatchSize
    BY <2>1, Sizes, EmptySeq
  <2> QED  BY <2>1, <2>2, BudgetTurns DEF Writing
<1>7. ASSUME NEW n \in 1..MaxBatchSize, Write(n) PROVE BudgetInv'
  <2>1. n \in 1..Len(unwritten)
    BY <1>7 DEF Write
  <2> QED  BY <1>7, <2>1, BudgetWrite
<1>8. CASE WriteEnds
  BY <1>8, BudgetWriteEnds
<1>9. CASE Evicts
  BY <1>9, BudgetEvictLists, BudgetEvictSeesNothing, BudgetEvictStats, BudgetEvictSubtracts,
     BudgetEvictUnlinks, BudgetEvictEnds DEF Evicts
<1>10. CASE ReaderLists \/ ReaderOpens \/ ReaderScans \/ ReaderEnds
  BY <1>10, BudgetSame DEF ReaderLists, ReaderOpens, ReaderScans, ReaderEnds, AtEndOfFile
<1>11. CASE ReaderRemoves
  <2>1. linked' \in SUBSET linked /\ faults' = faults + 0
    BY <1>11 DEF ReaderRemoves, RemoveFile, Lose, BudgetInv
  <2>2. UNCHANGED <<lines, batch, unwritten, writer, crashes, files, unstatted, total>>
    BY <1>11 DEF ReaderRemoves, RemoveFile, Lose
  <2> QED  BY <2>1, <2>2, BudgetShrinks
<1>12. CASE ReaderQuits \/ ReaderCannotOpen \/ ReaderFails \/ ReaderKeeps
  <2>1. PICK n \in {0, 1} : faults' = faults + n
    BY <1>12 DEF ReaderQuits, ReaderCannotOpen, ReaderFails, ReaderKeeps, Faults
  <2>2. linked' \in SUBSET linked
    BY <1>12 DEF ReaderQuits, ReaderCannotOpen, ReaderFails, ReaderKeeps
  <2>3. UNCHANGED <<lines, batch, unwritten, writer, crashes, files, unstatted, total>>
    BY <1>12 DEF ReaderQuits, ReaderCannotOpen, ReaderFails, ReaderKeeps
  <2> QED  BY <2>1, <2>2, <2>3, BudgetShrinks
<1>13. CASE CloseIn \/ CloseBatches \/ ReceiveBatch
  BY <1>13, BudgetSame DEF CloseIn, CloseBatches, CloseAfter, ReceiveBatch
<1>14. CASE CrashAndRestart
  BY <1>14, BudgetCrash
<1>15. CASE UNCHANGED vars
  BY <1>15, BudgetSame DEF vars
<1> QED
  BY <1>1, <1>2, <1>3, <1>4, <1>5, <1>6, <1>7, <1>8, <1>9, <1>10, <1>11, <1>12, <1>13,
     <1>14, <1>15
  DEF Next, WriterStep, ReaderStep

\* disk_buffer.go, evictIfNeeded: the files exceed MaxDiskBytes only from the creation of
\* a file to the end of the eviction after it, by that batch at most, and by one batch for
\* each crash and each failed call of package os, for every budget and batch size and
\* however stale the sizes are.
THEOREM DiskBudgetHolds == Spec => []DiskBudget
<1>1. DiskInv /\ BudgetInv => DiskBudget
  <2> SUFFICES ASSUME DiskInv, BudgetInv PROVE DiskBudget
    OBVIOUS
  <2>1. linked \in SUBSET linked
    OBVIOUS
  <2>2. Bounded(lines, linked, MaxBatchSize)
    BY <2>1, LinkedBounded
  <2>3. Size(linked) = Volume(lines, linked)
    BY <2>2, Sizes, SizeCounts DEF Volume
  <2> QED  BY <2>3, BudgetOf DEF DiskBudget, Budget, Writing
<1> QED  BY <1>1, BudgetInit, BudgetStep, DiskInvariant, PTL DEF Spec
=============================================================================
