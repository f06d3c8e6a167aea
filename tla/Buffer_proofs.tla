--------------------------- MODULE Buffer_proofs ---------------------------
(***************************************************************************)
(* Proofs about Buffer, for every capacity, batch size and set of callers. *)
(***************************************************************************)
EXTENDS Buffer, SequenceTheorems, FiniteSetTheorems, TLAPS

-----------------------------------------------------------------------------
(* Elements of sequences. *)

\* Append adds one element to what a channel or slice holds.
LEMMA RangeOfAppend ==
  ASSUME NEW S, NEW s \in Seq(S), NEW e \in S
  PROVE  Range(Append(s, e)) = Range(s) \cup {e}
<1> DEFINE u == <<e>>
<1>1. u \in Seq(S) /\ Range(u) = {e}
  BY DEF Range
<1>2. Append(s, e) = s \o u
  BY AppendIsConcat
<1> HIDE DEF u
<1> QED  BY <1>1, <1>2, RangeConcatenation

\* Receiving takes the head and leaves the tail.
LEMMA RangeOfTail ==
  ASSUME NEW S, NEW s \in Seq(S), s # <<>>
  PROVE  Range(s) = {Head(s)} \cup Range(Tail(s))
<1>1. Tail(s) \in Seq(S) /\ 1 \in 1..Len(s) /\ Len(s) \in 1..Len(s) /\ Head(s) = s[1]
  BY HeadTailProperties, EmptySeq
<1> DEFINE u == <<s[1]>>
<1>2. s = u \o Tail(s)
  <2>1. SubSeq(s, 1, Len(s)) = <<s[1]>> \o SubSeq(s, 1 + 1, Len(s))
    BY <1>1, SubSeqRecursiveFirst
  <2> QED  BY <2>1, SubSeqFull, TailIsSubSeq
<1>3. u \in Seq(S) /\ Range(u) = {s[1]}
  <2>1. s[1] \in S
    BY <1>1, ElementOfSeq
  <2> QED  BY ONLY <2>1 DEF Range
<1> HIDE DEF u
<1> DEFINE v == Tail(s)
<1>4. Range(u \o v) = Range(u) \cup Range(v)
  <2>1. u \in Seq(S) /\ v \in Seq(S)
    BY <1>1, <1>3
  <2> HIDE DEF v
  <2> QED  BY ONLY <2>1, RangeConcatenation
<1> QED  BY <1>1, <1>2, <1>3, <1>4

-----------------------------------------------------------------------------
(* Type correctness.  The slice stays within MaxBatchSize because a worker at  *)
(* its select always has room for one more entry.                             *)

TypeInv == TypeOK /\ (worker = "select" => Len(batch) < MaxBatchSize)

LEMMA TypeInit == Init => TypeInv
<1> SUFFICES ASSUME Init PROVE TypeInv
  OBVIOUS
<1>1. batches \in Seq(Seq(Nat)) /\ Len(batches) = 0
  BY EmptySeq DEF Init
<1>2. /\ buffer \in Seq(Nat) /\ Len(buffer) = 0
      /\ batch \in Seq(Nat) /\ Len(batch) = 0
      /\ delivered \in Seq(Nat)
  BY DEF Init
<1>3. /\ droppedEntries \in Nat
      /\ accepted \in Nat /\ accepted <= MaxEntries
  BY BufferAssumption DEF Init
<1>4. Len(buffer) <= BufferSize /\ Len(batch) < MaxBatchSize /\ Len(batches) <= BatchCap
  BY <1>1, <1>2, BufferAssumption
<1>5. dropped \subseteq Nat
  BY DEF Init
<1>6. /\ closed \in BOOLEAN
      /\ batchesClosed \in BOOLEAN
      /\ worker \in {"select", "flush", "lastFlush", "done"}
      /\ adding \in [Adders -> {"idle", "checked"}]
      /\ result \in [Adders -> Results]
      /\ closing \in [Closers -> {"idle", "waiting", "returned"}]
  BY DEF Init, Results
<1> QED  BY <1>1, <1>2, <1>3, <1>4, <1>5, <1>6, BufferAssumption DEF TypeInv, TypeOK

LEMMA TypeStep == TypeInv /\ [Next]_vars => TypeInv'
<1> SUFFICES ASSUME TypeInv, [Next]_vars PROVE TypeInv'
  OBVIOUS
<1> USE BufferAssumption DEF TypeInv, TypeOK, Results, procVars, callVars
<1>1. ASSUME NEW a \in Adders, AddRefused(a) PROVE TypeInv'
  BY <1>1 DEF AddRefused
<1>2. ASSUME NEW a \in Adders, AddChecked(a) PROVE TypeInv'
  BY <1>2 DEF AddChecked
<1>3. ASSUME NEW a \in Adders, AddSend(a) PROVE TypeInv'
  BY <1>3 DEF AddSend, AddReturns
<1>4. ASSUME NEW a \in Adders, AddFull(a) PROVE TypeInv'
  BY <1>4 DEF AddFull, AddReturns
<1>5. ASSUME NEW a \in Adders, AddPanics(a) PROVE TypeInv'
  BY <1>5 DEF AddPanics, AddReturns
<1>6. CASE Receive
  <2>1. /\ Head(buffer) \in Nat
        /\ Tail(buffer) \in Seq(Nat)
        /\ Len(Tail(buffer)) = Len(buffer) - 1
    BY <1>6, HeadTailProperties DEF Receive
  <2>2. /\ Append(batch, Head(buffer)) \in Seq(Nat)
        /\ Len(Append(batch, Head(buffer))) = Len(batch) + 1
    BY <2>1
  <2>3. /\ worker' \in {"select", "flush"}
        /\ worker' = "select" => Len(batch) + 1 < MaxBatchSize
    BY <1>6, <2>1 DEF Receive
  <2> QED  BY <1>6, <2>1, <2>2, <2>3 DEF Receive
<1>7. CASE ReceiveClosed
  BY <1>7 DEF ReceiveClosed
<1>8. CASE Tick
  BY <1>8 DEF Tick
<1>9. CASE FlushSend
  <2>1. /\ <<>> \in Seq(Nat)
        /\ Len(<<>>) = 0
    BY EmptySeq
  <2>2. batches' \in Seq(Seq(Nat)) /\ Len(batches') <= BatchCap
    <3>1. CASE batch = <<>>
      BY <1>9, <3>1 DEF FlushSend
    <3>2. CASE batch # <<>>
      <4>1. batches \in Seq(Seq(Nat)) /\ batch \in Seq(Nat)
        OBVIOUS
      <4>2. /\ Append(batches, batch) \in Seq(Seq(Nat))
            /\ Len(Append(batches, batch)) = Len(batches) + 1
        BY ONLY <4>1, AppendProperties
      <4>3. batches' = Append(batches, batch) /\ Len(batches) < BatchCap
        BY <1>9, <3>2 DEF FlushSend
      <4>4. Len(batches) \in Nat
        BY ONLY <4>1, LenProperties
      <4> QED  BY ONLY <4>2, <4>3, <4>4, BufferAssumption
    <3> QED  BY <3>1, <3>2
  <2> QED  BY <1>9, <2>1, <2>2 DEF FlushSend, AfterFlush
<1>10. CASE FlushDrop
  <2>1. batch \in Seq(Nat)
    OBVIOUS
  <2>2. Range(batch) \in SUBSET Nat
    BY ONLY <2>1, RangeOfSeq, Zenon
  <2>3. dropped' \subseteq Nat
    BY <1>10, <2>2 DEF FlushDrop
  <2>4. <<>> \in Seq(Nat) /\ Len(<<>>) = 0
    BY EmptySeq
  <2>5. droppedEntries' \in Nat
    BY <1>10 DEF FlushDrop
  <2> QED  BY <1>10, <2>3, <2>4, <2>5 DEF FlushDrop, AfterFlush
<1>11. ASSUME NEW c \in Closers, CloseBuffer(c) PROVE TypeInv'
  BY <1>11 DEF CloseBuffer
<1>12. ASSUME NEW c \in Closers, CloseAgain(c) PROVE TypeInv'
  BY <1>12 DEF CloseAgain
<1>13. ASSUME NEW c \in Closers, CloseBatches(c) PROVE TypeInv'
  BY <1>13 DEF CloseBatches
<1>14. CASE ReceiveBatch
  <2>1. /\ Head(batches) \in Seq(Nat)
        /\ Tail(batches) \in Seq(Seq(Nat))
        /\ Len(Tail(batches)) = Len(batches) - 1
    BY <1>14, HeadTailProperties DEF ReceiveBatch
  <2>2. delivered \o Head(batches) \in Seq(Nat)
    BY <2>1, ConcatProperties
  <2> QED  BY <1>14, <2>1, <2>2 DEF ReceiveBatch
<1>15. CASE UNCHANGED vars
  BY <1>15 DEF vars
<1> QED
  BY <1>1, <1>2, <1>3, <1>4, <1>5, <1>6, <1>7, <1>8, <1>9, <1>10, <1>11, <1>12,
     <1>13, <1>14, <1>15 DEF Next, AddStep, WorkerStep, CloseStep

LEMMA TypeInvariant == Spec => []TypeInv
BY TypeInit, TypeStep, PTL DEF Spec

\* Every variable of the buffer keeps its type, no channel exceeds its capacity and
\* batchProcessor's slice never exceeds MaxBatchSize.
THEOREM TypeCorrect == Spec => []TypeOK
<1>1. TypeInv => TypeOK
  BY DEF TypeInv
<1> QED  BY <1>1, TypeInvariant, PTL

-----------------------------------------------------------------------------
(* Increasing sequences, and the entries of a sequence of batches. *)

\* Appending an entry younger than all others keeps a sequence increasing.
LEMMA IncreasingAppend ==
  ASSUME NEW s \in Seq(Nat), NEW e \in Nat, Increasing(s),
         \A x \in Range(s) : x < e
  PROVE  Increasing(Append(s, e))
<1> DEFINE t == Append(s, e)
<1>1. /\ Len(s) \in Nat
      /\ DOMAIN s = 1..Len(s)
      /\ DOMAIN t = 1..Len(s) + 1
      /\ \A i \in 1..Len(s) : t[i] = s[i] /\ s[i] \in Range(s)
      /\ t[Len(s) + 1] = e
  BY AppendProperties, LenProperties DEF Range
<1> HIDE DEF t
<1>2. ASSUME NEW i \in DOMAIN t, NEW j \in DOMAIN t, i < j PROVE t[i] < t[j]
  <2>1. i \in 1..Len(s)
    BY <1>1, <1>2
  <2>2. CASE j = Len(s) + 1
    BY <1>1, <2>1, <2>2
  <2>3. CASE j # Len(s) + 1
    BY <1>1, <1>2, <2>1, <2>3 DEF Increasing
  <2> QED  BY <2>2, <2>3
<1> QED  BY <1>2 DEF Increasing, t

\* The tail of an increasing sequence is increasing and follows its head.
LEMMA IncreasingTail ==
  ASSUME NEW s \in Seq(Nat), s # <<>>, Increasing(s)
  PROVE  /\ Increasing(Tail(s))
         /\ \A x \in Range(Tail(s)) : Head(s) < x
<1> DEFINE t == Tail(s)
<1>1. /\ Len(s) \in Nat /\ Len(s) > 0
      /\ DOMAIN s = 1..Len(s)
      /\ DOMAIN t = 1..Len(s) - 1
      /\ \A i \in 1..Len(s) - 1 : t[i] = s[i + 1]
      /\ Head(s) = s[1]
  BY HeadTailProperties, LenProperties, EmptySeq
<1> HIDE DEF t
<1>2. \A i \in DOMAIN t : i + 1 \in DOMAIN s /\ t[i] = s[i + 1] /\ 1 < i + 1
  BY <1>1
<1>3. Increasing(t)
  BY <1>1, <1>2 DEF Increasing
<1>4. ASSUME NEW x \in Range(t) PROVE Head(s) < x
  <2>1. PICK i \in DOMAIN t : x = t[i]
    BY DEF Range
  <2>2. 1 \in DOMAIN s /\ i + 1 \in DOMAIN s /\ 1 < i + 1 /\ t[i] = s[i + 1]
    BY <1>1, <1>2
  <2>3. s[1] < s[i + 1]
    BY <2>2 DEF Increasing
  <2> QED  BY <1>1, <2>1, <2>2, <2>3
<1> QED  BY <1>3, <1>4 DEF t

\* Two increasing sequences, the second younger than the first, concatenate.
LEMMA IncreasingConcat ==
  ASSUME NEW s \in Seq(Nat), NEW t \in Seq(Nat), Increasing(s), Increasing(t),
         \A x \in Range(s), y \in Range(t) : x < y
  PROVE  Increasing(s \o t)
<1> DEFINE u == s \o t
<1>1. /\ Len(s) \in Nat /\ Len(t) \in Nat
      /\ DOMAIN s = 1..Len(s) /\ DOMAIN t = 1..Len(t)
      /\ DOMAIN u = 1..Len(s) + Len(t)
      /\ \A i \in 1..Len(s) + Len(t) :
           u[i] = IF i <= Len(s) THEN s[i] ELSE t[i - Len(s)]
  BY ConcatProperties, LenProperties
<1>2. /\ \A i \in DOMAIN s : s[i] \in Range(s)
      /\ \A i \in DOMAIN t : t[i] \in Range(t)
  BY DEF Range
<1> HIDE DEF u
<1>3. ASSUME NEW i \in DOMAIN u, NEW j \in DOMAIN u, i < j PROVE u[i] < u[j]
  <2>1. CASE j <= Len(s)
    <3>1. i \in DOMAIN s /\ j \in DOMAIN s /\ u[i] = s[i] /\ u[j] = s[j]
      BY <1>1, <1>3, <2>1
    <3> QED  BY <1>3, <3>1 DEF Increasing
  <2>2. CASE i > Len(s)
    <3>1. /\ i - Len(s) \in DOMAIN t /\ j - Len(s) \in DOMAIN t
          /\ u[i] = t[i - Len(s)] /\ u[j] = t[j - Len(s)]
          /\ i - Len(s) < j - Len(s)
      BY <1>1, <1>3, <2>2
    <3> QED  BY <3>1 DEF Increasing
  <2>3. CASE i <= Len(s) /\ Len(s) < j
    <3>1. /\ i \in DOMAIN s /\ j - Len(s) \in DOMAIN t
          /\ u[i] = s[i] /\ u[j] = t[j - Len(s)]
      BY <1>1, <2>3
    <3> QED  BY <1>2, <3>1
  <2>4. i \in Int /\ j \in Int /\ Len(s) \in Int
    BY <1>1
  <2> QED  BY <1>3, <2>1, <2>2, <2>3, <2>4
<1> QED  BY <1>3 DEF Increasing, u

\* Sending a batch adds its entries to the queue, receiving one takes them out.
LEMMA EntriesAppend ==
  ASSUME NEW S, NEW bs \in Seq(Seq(S)), NEW b \in Seq(S)
  PROVE  Entries(Append(bs, b)) = Entries(bs) \cup Range(b)
<1> DEFINE cs == Append(bs, b)
<1>1. /\ Len(bs) \in Nat
      /\ DOMAIN bs = 1..Len(bs)
      /\ DOMAIN cs = 1..Len(bs) + 1
      /\ \A k \in 1..Len(bs) : cs[k] = bs[k]
      /\ cs[Len(bs) + 1] = b
  BY AppendProperties, LenProperties
<1>2. 1..Len(bs) + 1 = 1..Len(bs) \cup {Len(bs) + 1}
  BY ONLY <1>1
<1> HIDE DEF cs
<1>3. \A e : (\E k \in DOMAIN cs : e \in Range(cs[k]))
               <=> (\E k \in DOMAIN bs : e \in Range(bs[k])) \/ e \in Range(b)
  BY <1>1, <1>2
<1>4. \A e : e \in Entries(cs) <=> e \in Entries(bs) \/ e \in Range(b)
  BY <1>3 DEF Entries
<1> QED  BY <1>4 DEF cs

LEMMA EntriesTail ==
  ASSUME NEW S, NEW bs \in Seq(Seq(S)), bs # <<>>
  PROVE  Entries(bs) = Range(Head(bs)) \cup Entries(Tail(bs))
<1> DEFINE cs == Tail(bs)
<1>1. /\ Len(bs) \in Nat /\ Len(bs) > 0
      /\ DOMAIN bs = 1..Len(bs)
      /\ DOMAIN cs = 1..Len(bs) - 1
      /\ \A k \in 1..Len(bs) - 1 : cs[k] = bs[k + 1]
      /\ Head(bs) = bs[1]
  BY HeadTailProperties, LenProperties, EmptySeq
<1> HIDE DEF cs
<1>2. ASSUME NEW e, NEW k \in DOMAIN bs, e \in Range(bs[k])
      PROVE  e \in Range(Head(bs)) \/ \E l \in DOMAIN cs : e \in Range(cs[l])
  <2>1. CASE k = 1
    BY <1>1, <1>2, <2>1
  <2>2. CASE k # 1
    <3>1. k - 1 \in DOMAIN cs /\ cs[k - 1] = bs[k]
      BY <1>1, <2>2
    <3> QED  BY <1>2, <3>1
  <2> QED  BY <2>1, <2>2
<1>3. ASSUME NEW e, NEW l \in DOMAIN cs, e \in Range(cs[l])
      PROVE  \E k \in DOMAIN bs : e \in Range(bs[k])
  <2>1. l + 1 \in DOMAIN bs /\ cs[l] = bs[l + 1]
    BY <1>1
  <2> QED  BY <1>3, <2>1
<1>4. 1 \in DOMAIN bs /\ Head(bs) = bs[1]
  BY <1>1
<1>5. \A e : e \in Entries(bs) <=> e \in Range(Head(bs)) \/ e \in Entries(cs)
  BY <1>2, <1>3, <1>4 DEF Entries
<1> QED  BY <1>5 DEF cs

-----------------------------------------------------------------------------
(* Order and conservation.  The four places where an entry can be are strictly *)
(* ordered among themselves: delivered before queued before batch before       *)
(* buffer, and the queued batches in the order of the queue.  Together with    *)
(* NoSilentLoss (every entry of 1..accepted is somewhere, and nothing else     *)
(* is) this is inductive.                                                     *)

Precedes(S, T) == \A x \in S, y \in T : x < y

BatchesOrdered ==
  /\ \A k \in DOMAIN batches : Increasing(batches[k])
  /\ \A k, l \in DOMAIN batches : k < l => Precedes(Range(batches[k]), Range(batches[l]))

StagesOrdered ==
  /\ Precedes(Range(delivered), Pending)
  /\ Precedes(Queued, Range(batch) \cup Range(buffer))
  /\ Precedes(Range(batch), Range(buffer))

FlowInv ==
  /\ NoSilentLoss
  /\ Increasing(delivered)
  /\ Increasing(batch)
  /\ Increasing(buffer)
  /\ BatchesOrdered
  /\ StagesOrdered

LEMMA FlowInit == Init => FlowInv
<1> SUFFICES ASSUME Init PROVE FlowInv
  OBVIOUS
<1>1. /\ DOMAIN buffer = {} /\ DOMAIN batch = {}
      /\ DOMAIN batches = {} /\ DOMAIN delivered = {}
  BY DEF Init
<1>2. /\ Range(buffer) = {} /\ Range(batch) = {} /\ Range(delivered) = {}
      /\ Queued = {} /\ Pending = {}
  BY <1>1 DEF Range, Queued, Entries, Pending
<1>3. 1..accepted = {} /\ dropped = {}
  BY DEF Init
<1> QED
  BY <1>1, <1>2, <1>3
     DEF FlowInv, NoSilentLoss, Increasing, BatchesOrdered, StagesOrdered, Precedes

\* Add puts an entry younger than all others at the end of b.buffer.
LEMMA FlowAddSend ==
  ASSUME TypeOK, FlowInv, NEW a \in Adders, AddSend(a)
  PROVE  FlowInv'
<1>1. /\ buffer \in Seq(Nat) /\ accepted \in Nat /\ accepted + 1 \in Nat
      /\ buffer' = Append(buffer, accepted + 1)
      /\ accepted' = accepted + 1
      /\ UNCHANGED <<batch, batches, delivered, dropped>>
  BY DEF TypeOK, AddSend, procVars
<1>2. Range(buffer') = Range(buffer) \cup {accepted + 1}
  BY <1>1, RangeOfAppend
<1>3. Queued' = Queued /\ Range(batch') = Range(batch) /\ Range(delivered') = Range(delivered)
  BY <1>1 DEF Queued
<1>4. Pending' = Pending \cup {accepted + 1}
  BY <1>2, <1>3 DEF Pending
<1>5. 1..accepted' = 1..accepted \cup {accepted + 1}
  BY <1>1
<1>6. Range(delivered) \cup Pending \subseteq 1..accepted
  BY DEF FlowInv, NoSilentLoss
<1>7. \A x \in Range(delivered) \cup Pending : x < accepted + 1
  BY <1>1, <1>6
<1>8. NoSilentLoss'
  BY <1>1, <1>3, <1>4, <1>5 DEF FlowInv, NoSilentLoss
<1>9. Increasing(buffer)'
  <2>1. \A x \in Range(buffer) : x < accepted + 1
    BY <1>7 DEF Pending
  <2> QED  BY <1>1, <2>1, IncreasingAppend DEF FlowInv
<1>10. Increasing(delivered)' /\ Increasing(batch)' /\ BatchesOrdered'
  BY <1>1 DEF FlowInv, BatchesOrdered
<1>11. StagesOrdered'
  BY <1>2, <1>3, <1>4, <1>7 DEF FlowInv, StagesOrdered, Precedes, Pending
<1> QED  BY <1>8, <1>9, <1>10, <1>11 DEF FlowInv

\* batchProcessor moves the oldest entry of b.buffer to the end of its slice.
LEMMA FlowReceive ==
  ASSUME TypeOK, FlowInv, Receive
  PROVE  FlowInv'
<1> DEFINE e == Head(buffer)
<1>1. /\ buffer \in Seq(Nat) /\ buffer # <<>> /\ batch \in Seq(Nat)
      /\ buffer' = Tail(buffer)
      /\ batch' = Append(batch, e)
      /\ UNCHANGED <<accepted, batches, delivered, dropped>>
  BY DEF TypeOK, Receive
<1>2. e \in Nat
  BY <1>1, HeadTailProperties
<1>3. Range(buffer) = {e} \cup Range(buffer')
  BY <1>1, RangeOfTail
<1>4. Range(batch') = Range(batch) \cup {e}
  BY <1>1, <1>2, RangeOfAppend
<1>5. Increasing(buffer)' /\ \A x \in Range(buffer') : e < x
  BY <1>1, IncreasingTail DEF FlowInv
<1>6. \A x \in Range(batch) : x < e
  BY <1>3 DEF FlowInv, StagesOrdered, Precedes
<1>7. Increasing(batch)'
  BY <1>1, <1>2, <1>6, IncreasingAppend DEF FlowInv
<1> HIDE DEF e
<1>8. Queued' = Queued /\ Range(delivered') = Range(delivered)
  BY <1>1 DEF Queued
<1>9. Pending' = Pending
  BY <1>3, <1>4, <1>8 DEF Pending
<1>10. NoSilentLoss'
  BY <1>1, <1>8, <1>9 DEF FlowInv, NoSilentLoss
<1>11. Increasing(delivered)' /\ BatchesOrdered'
  BY <1>1 DEF FlowInv, BatchesOrdered
<1>12. StagesOrdered'
  <2>1. Range(batch') \cup Range(buffer') = Range(batch) \cup Range(buffer)
    BY <1>3, <1>4
  <2>2. Precedes(Range(batch'), Range(buffer'))
    BY <1>3, <1>4, <1>5 DEF FlowInv, StagesOrdered, Precedes
  <2> QED  BY <1>8, <1>9, <2>1, <2>2 DEF FlowInv, StagesOrdered
<1> QED  BY <1>5, <1>7, <1>10, <1>11, <1>12 DEF FlowInv

\* A flush appends the slice to b.batches and empties it.
LEMMA FlowFlushSend ==
  ASSUME TypeOK, FlowInv, FlushSend, batch # <<>>
  PROVE  FlowInv'
<1>1. /\ batches \in Seq(Seq(Nat)) /\ batch \in Seq(Nat)
      /\ batches' = Append(batches, batch)
      /\ batch' = <<>>
      /\ UNCHANGED <<accepted, buffer, delivered, dropped>>
  BY DEF TypeOK, FlushSend, AfterFlush
<1>2. Queued' = Queued \cup Range(batch)
  BY <1>1, EntriesAppend DEF Queued
<1>3. Range(batch') = {} /\ DOMAIN batch' = {}
  BY <1>1 DEF Range
<1>4. Range(buffer') = Range(buffer) /\ Range(delivered') = Range(delivered)
  BY <1>1
<1>5. Pending' = Pending
  BY <1>2, <1>3, <1>4 DEF Pending
<1>6. NoSilentLoss'
  BY <1>1, <1>4, <1>5 DEF FlowInv, NoSilentLoss
<1>7. Increasing(delivered)' /\ Increasing(batch)' /\ Increasing(buffer)'
  BY <1>1, <1>3 DEF FlowInv, Increasing
<1>8. BatchesOrdered'
  <2> DEFINE cs == Append(batches, batch)
  <2>1. /\ Len(batches) \in Nat
        /\ DOMAIN batches = 1..Len(batches)
        /\ DOMAIN cs = 1..Len(batches) + 1
        /\ \A k \in 1..Len(batches) : cs[k] = batches[k]
        /\ cs[Len(batches) + 1] = batch
    BY <1>1, AppendProperties, LenProperties
  <2> HIDE DEF cs
  <2>2. \A k \in DOMAIN cs :
          \/ k \in DOMAIN batches /\ cs[k] = batches[k]
          \/ k = Len(batches) + 1 /\ cs[k] = batch
    BY <2>1
  <2>3. \A k \in DOMAIN cs : Increasing(cs[k])
    BY <2>2 DEF FlowInv, BatchesOrdered
  <2>4. \A k \in DOMAIN batches : Precedes(Range(batches[k]), Range(batch))
    BY DEF FlowInv, StagesOrdered, Precedes, Queued, Entries
  <2>5. ASSUME NEW k \in DOMAIN cs, NEW l \in DOMAIN cs, k < l
        PROVE  Precedes(Range(cs[k]), Range(cs[l]))
    <3>1. k \in DOMAIN batches /\ cs[k] = batches[k]
      BY <2>1, <2>5
    <3>2. CASE l \in DOMAIN batches
      BY <2>1, <2>5, <3>1, <3>2 DEF FlowInv, BatchesOrdered
    <3>3. CASE l \notin DOMAIN batches
      BY <2>2, <2>4, <3>1, <3>3
    <3> QED  BY <3>2, <3>3
  <2> QED  BY <1>1, <2>3, <2>5 DEF BatchesOrdered, cs
<1>9. StagesOrdered'
  BY <1>2, <1>3, <1>4, <1>5 DEF FlowInv, StagesOrdered, Precedes
<1> QED  BY <1>6, <1>7, <1>8, <1>9 DEF FlowInv

\* A flush that finds b.batches full moves the slice's entries to dropped.
LEMMA FlowFlushDrop ==
  ASSUME TypeOK, FlowInv, FlushDrop
  PROVE  FlowInv'
<1>1. /\ batch' = <<>>
      /\ dropped' = dropped \cup Range(batch)
      /\ UNCHANGED <<accepted, buffer, batches, delivered>>
  BY DEF FlushDrop, AfterFlush
<1>2. Range(batch') = {} /\ DOMAIN batch' = {}
  BY <1>1 DEF Range
<1>3. /\ Queued' = Queued
      /\ Range(buffer') = Range(buffer) /\ Range(delivered') = Range(delivered)
  BY <1>1 DEF Queued
<1>4. Pending' \cup Range(batch) = Pending /\ Pending' \subseteq Pending
  BY <1>2, <1>3 DEF Pending
<1>5. NoSilentLoss'
  <2>1. dropped' \cup Pending' = dropped \cup Pending
    BY <1>1, <1>4
  <2> QED  BY <1>1, <1>3, <2>1 DEF FlowInv, NoSilentLoss
<1>6. Increasing(delivered)' /\ Increasing(batch)' /\ Increasing(buffer)' /\ BatchesOrdered'
  BY <1>1, <1>2 DEF FlowInv, Increasing, BatchesOrdered
<1>7. StagesOrdered'
  BY <1>2, <1>3, <1>4 DEF FlowInv, StagesOrdered, Precedes
<1> QED  BY <1>5, <1>6, <1>7 DEF FlowInv

\* The consumer takes the oldest batch.
LEMMA FlowReceiveBatch ==
  ASSUME TypeOK, FlowInv, ReceiveBatch
  PROVE  FlowInv'
<1> DEFINE b == Head(batches)
<1>1. /\ batches \in Seq(Seq(Nat)) /\ batches # <<>> /\ delivered \in Seq(Nat)
      /\ batches' = Tail(batches)
      /\ delivered' = delivered \o b
      /\ UNCHANGED <<accepted, buffer, batch, dropped>>
  BY DEF TypeOK, ReceiveBatch
<1>2. /\ b \in Seq(Nat)
      /\ Len(batches) \in Nat /\ Len(batches) > 0
      /\ DOMAIN batches = 1..Len(batches)
      /\ DOMAIN batches' = 1..Len(batches) - 1
      /\ \A k \in 1..Len(batches) - 1 : batches'[k] = batches[k + 1]
      /\ b = batches[1]
  BY <1>1, HeadTailProperties, LenProperties, EmptySeq
<1>3. Queued = Range(b) \cup Queued'
  BY <1>1, EntriesTail DEF Queued
<1>4. Range(delivered') = Range(delivered) \cup Range(b)
  BY <1>1, <1>2, RangeConcatenation
<1> HIDE DEF b
<1>5. \A k \in DOMAIN batches' : k + 1 \in DOMAIN batches /\ batches'[k] = batches[k + 1]
  BY <1>2
<1>6. 1 \in DOMAIN batches /\ b = batches[1]
  BY <1>2
<1>7. BatchesOrdered'
  <2>1. \A k \in DOMAIN batches' : Increasing(batches'[k])
    BY <1>5 DEF FlowInv, BatchesOrdered
  <2>2. ASSUME NEW k \in DOMAIN batches', NEW l \in DOMAIN batches', k < l
        PROVE  Precedes(Range(batches'[k]), Range(batches'[l]))
    <3>1. k + 1 < l + 1
      BY <1>2, <2>2
    <3> QED  BY <1>5, <3>1 DEF FlowInv, BatchesOrdered
  <2> QED  BY <2>1, <2>2 DEF BatchesOrdered
<1>8. \A k \in DOMAIN batches' : Precedes(Range(b), Range(batches'[k]))
  <2>1. \A k \in DOMAIN batches' : 1 < k + 1
    BY <1>2
  <2> QED  BY <1>5, <1>6, <2>1 DEF FlowInv, BatchesOrdered
<1>9. Precedes(Range(b), Queued')
  BY <1>8 DEF Precedes, Queued, Entries
<1>10. Range(buffer') = Range(buffer) /\ Range(batch') = Range(batch)
  BY <1>1
<1>11. Pending = Range(b) \cup Pending'
  BY <1>3, <1>10 DEF Pending
<1>12. NoSilentLoss'
  <2>1. Range(delivered') \cup Pending' = Range(delivered) \cup Pending
    BY <1>4, <1>11
  <2> QED  BY <1>1, <2>1 DEF FlowInv, NoSilentLoss
<1>13. Increasing(b)
  BY <1>6 DEF FlowInv, BatchesOrdered
<1>14. \A x \in Range(delivered), y \in Range(b) : x < y
  BY <1>11 DEF FlowInv, StagesOrdered, Precedes
<1>15. Increasing(delivered)'
  BY <1>1, <1>2, <1>13, <1>14, IncreasingConcat DEF FlowInv
<1>16. Increasing(batch)' /\ Increasing(buffer)'
  BY <1>1 DEF FlowInv
<1>17. Precedes(Range(b), Range(batch) \cup Range(buffer))
  BY <1>3 DEF FlowInv, StagesOrdered, Precedes
<1>18. StagesOrdered'
  <2>1. Precedes(Range(b), Pending')
    BY <1>9, <1>10, <1>17 DEF Precedes, Pending
  <2>2. Precedes(Range(delivered), Pending')
    BY <1>11 DEF FlowInv, StagesOrdered, Precedes
  <2>3. Precedes(Range(delivered)', Pending')
    BY <1>4, <2>1, <2>2 DEF Precedes
  <2>4. Precedes(Queued', Range(batch') \cup Range(buffer'))
    BY <1>3, <1>10 DEF FlowInv, StagesOrdered, Precedes
  <2> QED  BY <1>10, <2>3, <2>4 DEF FlowInv, StagesOrdered
<1> QED  BY <1>7, <1>12, <1>15, <1>16, <1>18 DEF FlowInv

LEMMA FlowUnchanged ==
  ASSUME FlowInv, UNCHANGED <<accepted, buffer, batch, batches, delivered, dropped>>
  PROVE  FlowInv'
BY DEF FlowInv, NoSilentLoss, Increasing, BatchesOrdered, StagesOrdered, Pending,
       Queued, Entries, Precedes, Range

LEMMA FlowStep == TypeOK /\ FlowInv /\ [Next]_vars => FlowInv'
<1> SUFFICES ASSUME TypeOK, FlowInv, [Next]_vars PROVE FlowInv'
  OBVIOUS
<1> DEFINE flow == <<accepted, buffer, batch, batches, delivered, dropped>>
<1>1. ASSUME NEW a \in Adders, AddStep(a) PROVE FlowInv'
  <2>1. CASE AddSend(a)
    BY <2>1, FlowAddSend
  <2>2. CASE AddRefused(a) \/ AddChecked(a) \/ AddFull(a) \/ AddPanics(a)
    <3>1. UNCHANGED flow
      BY <2>2 DEF AddRefused, AddChecked, AddFull, AddPanics, procVars
    <3> QED  BY <3>1, FlowUnchanged
  <2> QED  BY <1>1, <2>1, <2>2 DEF AddStep
<1>2. CASE WorkerStep
  <2>1. CASE Receive
    BY <2>1, FlowReceive
  <2>2. CASE ReceiveClosed \/ Tick
    <3>1. UNCHANGED flow
      BY <2>2 DEF ReceiveClosed, Tick
    <3> QED  BY <3>1, FlowUnchanged
  <2>3. CASE FlushSend /\ batch # <<>>
    BY <2>3, FlowFlushSend
  <2>4. CASE FlushSend /\ batch = <<>>
    <3>1. UNCHANGED flow
      BY <2>4 DEF FlushSend, AfterFlush
    <3> QED  BY <3>1, FlowUnchanged
  <2>5. CASE FlushDrop
    BY <2>5, FlowFlushDrop
  <2> QED  BY <1>2, <2>1, <2>2, <2>3, <2>4, <2>5 DEF WorkerStep
<1>3. ASSUME NEW c \in Closers, CloseStep(c) PROVE FlowInv'
  <2>1. UNCHANGED flow
    BY <1>3 DEF CloseStep, CloseBuffer, CloseAgain, CloseBatches, procVars
  <2> QED  BY <2>1, FlowUnchanged
<1>4. CASE ReceiveBatch
  BY <1>4, FlowReceiveBatch
<1>5. CASE UNCHANGED vars
  <2>1. UNCHANGED flow
    BY <1>5 DEF vars
  <2> QED  BY <2>1, FlowUnchanged
<1> QED  BY <1>1, <1>2, <1>3, <1>4, <1>5 DEF Next

LEMMA FlowInvariant == Spec => [](TypeOK /\ FlowInv)
<1>1. TypeInv => TypeOK
  BY DEF TypeInv
<1> QED  BY <1>1, TypeInvariant, FlowInit, FlowStep, PTL DEF Spec

\* The consumer receives accepted entries in the order in which Add accepted them,
\* and none of them twice.
THEOREM DeliveryIsOrdered == Spec => []DeliveredInOrder
<1>1. FlowInv => DeliveredInOrder
  BY DEF FlowInv, DeliveredInOrder
<1> QED  BY <1>1, FlowInvariant, PTL

\* No entry that Add accepted leaves the buffer except by delivery or in a batch
\* that flush dropped.
THEOREM NothingIsLostSilently == Spec => []NoSilentLoss
<1>1. FlowInv => NoSilentLoss
  BY DEF FlowInv
<1> QED  BY <1>1, FlowInvariant, PTL

-----------------------------------------------------------------------------
(* Refinement: each step of the buffer is a step of LossyFifo or leaves its    *)
(* state as it was.                                                            *)

abstract == <<closed, accepted, Pending, Range(delivered), dropped>>

\* In terms of the buffer's own variables: what LossyFifo's steps are here.
FifoDeliver(S) ==
  /\ \A s \in S, p \in Pending \ S : s < p
  /\ Pending' = Pending \ S
  /\ Range(delivered)' = Range(delivered) \cup S
  /\ UNCHANGED <<closed, accepted, dropped>>

FifoLose(S) ==
  /\ \A p \in Pending \ S : (\A s \in S : p < s) \/ (\A s \in S : s < p)
  /\ Pending' = Pending \ S
  /\ dropped' = dropped \cup S
  /\ UNCHANGED <<closed, accepted>>
  /\ Range(delivered)' = Range(delivered)

LEMMA FifoStutter ==
  ASSUME UNCHANGED <<closed, accepted, buffer, batch, batches, delivered, dropped>>
  PROVE  UNCHANGED abstract
BY DEF abstract, Pending, Queued, Entries, Range

LEMMA StagesDisjoint ==
  ASSUME TypeOK, FlowInv
  PROVE  Range(batch) \cap (Queued \cup Range(buffer)) = {}
<1>1. Range(batch) \subseteq Nat
  <2>1. batch \in Seq(Nat)
    BY DEF TypeOK
  <2>2. Range(batch) \in SUBSET Nat
    BY ONLY <2>1, RangeOfSeq, Zenon
  <2> QED  BY <2>2
<1>2. \A x \in Range(batch) : x \notin Queued /\ x \notin Range(buffer)
  BY <1>1 DEF FlowInv, StagesOrdered, Precedes
<1> QED  BY <1>2

LEMMA BufferStepRefines ==
  ASSUME TypeOK, FlowInv, [Next]_vars
  PROVE  \/ /\ ~closed
            /\ accepted < MaxEntries
            /\ accepted' = accepted + 1
            /\ Pending' = Pending \cup {accepted + 1}
            /\ UNCHANGED <<closed, dropped>>
            /\ Range(delivered)' = Range(delivered)
         \/ /\ closed' = TRUE
            /\ UNCHANGED <<accepted, Pending, dropped>>
            /\ Range(delivered)' = Range(delivered)
         \/ \E S \in SUBSET Pending : FifoDeliver(S) \/ FifoLose(S)
         \/ UNCHANGED abstract
<1>1. ASSUME NEW a \in Adders, AddSend(a)
      PROVE  /\ ~closed /\ accepted < MaxEntries
             /\ accepted' = accepted + 1
             /\ Pending' = Pending \cup {accepted + 1}
             /\ UNCHANGED <<closed, dropped>>
             /\ Range(delivered)' = Range(delivered)
  <2>1. /\ buffer \in Seq(Nat) /\ accepted \in Nat
        /\ buffer' = Append(buffer, accepted + 1)
        /\ UNCHANGED <<closed, batch, batches, delivered, dropped>>
        /\ ~closed /\ accepted < MaxEntries /\ accepted' = accepted + 1
    BY <1>1 DEF TypeOK, AddSend, procVars
  <2>2. Range(buffer') = Range(buffer) \cup {accepted + 1}
    BY <2>1, RangeOfAppend
  <2>3. /\ Queued' = Queued /\ Range(batch') = Range(batch)
        /\ Range(delivered') = Range(delivered)
    BY <2>1 DEF Queued
  <2> QED  BY <2>1, <2>2, <2>3 DEF Pending
<1>2. ASSUME NEW a \in Adders,
             AddRefused(a) \/ AddChecked(a) \/ AddFull(a) \/ AddPanics(a)
      PROVE  UNCHANGED abstract
  <2>1. UNCHANGED <<closed, accepted, buffer, batch, batches, delivered, dropped>>
    BY <1>2 DEF AddRefused, AddChecked, AddFull, AddPanics, procVars
  <2> QED  BY <2>1, FifoStutter
<1>3. CASE Receive
  <2>1. /\ buffer \in Seq(Nat) /\ buffer # <<>> /\ batch \in Seq(Nat)
        /\ buffer' = Tail(buffer)
        /\ batch' = Append(batch, Head(buffer))
        /\ UNCHANGED <<closed, accepted, batches, delivered, dropped>>
    BY <1>3 DEF TypeOK, Receive
  <2>2. Range(batch') = Range(batch) \cup {Head(buffer)}
    BY <2>1, HeadTailProperties, RangeOfAppend
  <2>3. Range(buffer) = {Head(buffer)} \cup Range(buffer')
    BY <2>1, RangeOfTail
  <2>4. Queued' = Queued /\ Range(delivered') = Range(delivered)
    BY <2>1 DEF Queued
  <2>5. Pending' = Pending
    BY <2>2, <2>3, <2>4 DEF Pending
  <2> QED  BY <2>1, <2>4, <2>5 DEF abstract
<1>4. CASE ReceiveClosed \/ Tick \/ (FlushSend /\ batch = <<>>)
  <2>1. UNCHANGED <<closed, accepted, buffer, batch, batches, delivered, dropped>>
    BY <1>4 DEF ReceiveClosed, Tick, FlushSend, AfterFlush
  <2> QED  BY <2>1, FifoStutter
<1>5. CASE FlushSend /\ batch # <<>>
  <2>1. /\ batches \in Seq(Seq(Nat)) /\ batch \in Seq(Nat)
        /\ batches' = Append(batches, batch)
        /\ batch' = <<>>
        /\ UNCHANGED <<closed, accepted, buffer, delivered, dropped>>
    BY <1>5 DEF TypeOK, FlushSend, AfterFlush
  <2>2. Queued' = Queued \cup Range(batch)
    BY <2>1, EntriesAppend DEF Queued
  <2>3. Range(batch') = {}
    BY <2>1 DEF Range
  <2>4. Range(buffer') = Range(buffer) /\ Range(delivered') = Range(delivered)
    BY <2>1
  <2>5. Pending' = Pending
    BY <2>2, <2>3, <2>4 DEF Pending
  <2> QED  BY <2>1, <2>4, <2>5 DEF abstract
<1>6. CASE FlushDrop
  <2>1. /\ batch' = <<>>
        /\ dropped' = dropped \cup Range(batch)
        /\ UNCHANGED <<closed, accepted, buffer, batches, delivered>>
    BY <1>6 DEF FlushDrop, AfterFlush
  <2>2. Range(batch') = {}
    BY <2>1 DEF Range
  <2>3. /\ Queued' = Queued
        /\ Range(buffer') = Range(buffer) /\ Range(delivered') = Range(delivered)
    BY <2>1 DEF Queued
  <2>4. Pending' = Pending \ Range(batch)
    BY <2>2, <2>3, StagesDisjoint DEF Pending
  <2>5. \A p \in Pending \ Range(batch) :
          (\A x \in Range(batch) : p < x) \/ (\A x \in Range(batch) : x < p)
    BY DEF FlowInv, StagesOrdered, Precedes, Pending
  <2>6. Range(batch) \in SUBSET Pending
    BY DEF Pending
  <2>7. FifoLose(Range(batch))
    BY <2>1, <2>3, <2>4, <2>5 DEF FifoLose
  <2> QED  BY <2>6, <2>7
<1>7. ASSUME NEW c \in Closers, CloseStep(c)
      PROVE  /\ closed' = TRUE \/ closed' = closed
             /\ UNCHANGED <<accepted, Pending, dropped>>
             /\ Range(delivered)' = Range(delivered)
  <2>1. /\ UNCHANGED <<accepted, buffer, batch, batches, delivered, dropped>>
        /\ closed' = TRUE \/ closed' = closed
    BY <1>7 DEF CloseStep, CloseBuffer, CloseAgain, CloseBatches, procVars
  <2> QED  BY <2>1 DEF Pending, Queued, Entries, Range
<1>8. CASE ReceiveBatch
  <2> DEFINE b == Head(batches)
  <2>1. /\ batches \in Seq(Seq(Nat)) /\ batches # <<>> /\ delivered \in Seq(Nat)
        /\ batches' = Tail(batches)
        /\ delivered' = delivered \o b
        /\ UNCHANGED <<closed, accepted, buffer, batch, dropped>>
    BY <1>8 DEF TypeOK, ReceiveBatch
  <2>2. b \in Seq(Nat)
    BY <2>1, HeadTailProperties
  <2>3. Queued = Range(b) \cup Queued'
    BY <2>1, EntriesTail DEF Queued
  <2>4. Range(delivered') = Range(delivered) \cup Range(b)
    BY <2>1, <2>2, RangeConcatenation
  <2> HIDE DEF b
  <2>5. Range(buffer') = Range(buffer) /\ Range(batch') = Range(batch)
    BY <2>1
  <2>6. FlowInv' /\ FlowInv
    BY <1>8, FlowReceiveBatch
  <2>7. Precedes(Range(b), Pending')
    <3>1. Range(b) \subseteq Range(delivered')
      BY <2>4
    <3> QED  BY <2>6, <3>1 DEF FlowInv, StagesOrdered, Precedes
  <2>8. Range(b) \subseteq Nat
    <3>1. Range(b) \in SUBSET Nat
      BY <2>2, RangeOfSeq, Zenon
    <3> QED  BY <3>1
  <2>9. Pending = Range(b) \cup Pending'
    BY <2>3, <2>5 DEF Pending
  <2>10. Range(b) \cap Pending' = {}
    BY <2>7, <2>8 DEF Precedes
  <2>11. Pending' = Pending \ Range(b)
    BY <2>9, <2>10
  <2>12. FifoDeliver(Range(b))
    BY <2>1, <2>4, <2>7, <2>11 DEF FifoDeliver, Precedes
  <2> QED  BY <2>9, <2>12
<1>9. CASE UNCHANGED vars
  <2>1. UNCHANGED <<closed, accepted, buffer, batch, batches, delivered, dropped>>
    BY <1>9 DEF vars
  <2> QED  BY <2>1, FifoStutter
<1>10. ASSUME NEW c \in Closers, CloseStep(c), closed' = closed
       PROVE  UNCHANGED abstract
  BY <1>7, <1>10 DEF abstract
<1> QED
  BY <1>1, <1>2, <1>3, <1>4, <1>5, <1>6, <1>7, <1>8, <1>9, <1>10
     DEF Next, AddStep, WorkerStep

\* The buffer implements a lossy FIFO queue: whatever the sizes of its channels and
\* batches, its consumer cannot tell it from one.
THEOREM BufferImplementsLossyFifo == Spec => ImplementsLossyFifo
<1>1. Init => Fifo!Init
  <2> SUFFICES ASSUME Init PROVE Fifo!Init
    OBVIOUS
  <2>1. /\ DOMAIN buffer = {} /\ DOMAIN batch = {}
        /\ DOMAIN batches = {} /\ DOMAIN delivered = {}
    BY DEF Init
  <2>2. Range(delivered) = {} /\ Pending = {}
    BY <2>1 DEF Range, Queued, Entries, Pending
  <2> QED  BY <2>2 DEF Init, Fifo!Init
<1>2. TypeOK /\ FlowInv /\ [Next]_vars => [Fifo!Next]_(Fifo!vars)
  <2> SUFFICES ASSUME TypeOK, FlowInv, [Next]_vars PROVE [Fifo!Next]_(Fifo!vars)
    OBVIOUS
  <2>1. CASE \E S \in SUBSET Pending : FifoDeliver(S) \/ FifoLose(S)
    <3>1. PICK S \in SUBSET Pending : FifoDeliver(S) \/ FifoLose(S)
      BY <2>1
    <3>2. FifoDeliver(S) => Fifo!Deliver(S)
      BY DEF FifoDeliver, Fifo!Deliver
    <3>3. FifoLose(S) => Fifo!Lose(S)
      BY DEF FifoLose, Fifo!Lose
    <3> QED  BY <3>1, <3>2, <3>3 DEF Fifo!Next
  <2>2. CASE UNCHANGED abstract
    BY <2>2 DEF abstract, Fifo!vars
  <2>3. CASE /\ ~closed /\ accepted < MaxEntries
             /\ accepted' = accepted + 1
             /\ Pending' = Pending \cup {accepted + 1}
             /\ UNCHANGED <<closed, dropped>>
             /\ Range(delivered)' = Range(delivered)
    <3>1. Fifo!Accept
      BY <2>3 DEF Fifo!Accept
    <3> QED  BY <3>1 DEF Fifo!Next
  <2>4. CASE /\ closed' = TRUE
             /\ UNCHANGED <<accepted, Pending, dropped>>
             /\ Range(delivered)' = Range(delivered)
    <3>1. Fifo!Shut
      BY <2>4 DEF Fifo!Shut
    <3> QED  BY <3>1 DEF Fifo!Next
  <2> QED  BY BufferStepRefines, <2>1, <2>2, <2>3, <2>4
<1> QED  BY <1>1, <1>2, FlowInvariant, PTL DEF Spec, ImplementsLossyFifo, Fifo!Spec

-----------------------------------------------------------------------------
(* Close.  Once b.buffer is closed nothing enters it, so what batchProcessor    *)
(* found empty stays empty.                                                    *)

DrainInv ==
  /\ batchesClosed => worker = "done"
  /\ worker \in {"lastFlush", "done"} => closed /\ buffer = <<>>
  /\ worker = "done" => batch = <<>>

LEMMA DrainStep == TypeOK /\ DrainInv /\ [Next]_vars => DrainInv'
<1> SUFFICES ASSUME TypeOK, DrainInv, [Next]_vars PROVE DrainInv'
  OBVIOUS
<1>1. ASSUME NEW a \in Adders, AddStep(a) PROVE DrainInv'
  BY <1>1 DEF AddStep, AddRefused, AddChecked, AddSend, AddFull, AddPanics, procVars,
              DrainInv
<1>2. CASE WorkerStep
  BY <1>2 DEF WorkerStep, Receive, ReceiveClosed, Tick, FlushSend, FlushDrop,
              AfterFlush, DrainInv, TypeOK
<1>3. ASSUME NEW c \in Closers, CloseStep(c) PROVE DrainInv'
  BY <1>3 DEF CloseStep, CloseBuffer, CloseAgain, CloseBatches, procVars, DrainInv
<1>4. CASE ReceiveBatch
  BY <1>4 DEF ReceiveBatch, DrainInv
<1>5. CASE UNCHANGED vars
  BY <1>5 DEF vars, DrainInv
<1> QED  BY <1>1, <1>2, <1>3, <1>4, <1>5 DEF Next

\* When b.batches is closed batchProcessor has returned and has left no entry behind:
\* it never sends on the closed channel.
THEOREM CloseDrains == Spec => []ClosedMeansDrained
<1>1. Init => DrainInv
  BY DEF Init, DrainInv
<1>2. TypeOK /\ DrainInv => ClosedMeansDrained
  BY DEF DrainInv, ClosedMeansDrained
<1> QED  BY <1>1, <1>2, DrainStep, TypeCorrect, PTL DEF Spec

-----------------------------------------------------------------------------
(* The metric.  What was dropped is nowhere else, and a dropped batch, whose    *)
(* entries are in order, holds as many entries as it is long.                   *)

CountInv ==
  /\ dropped \cap (Range(delivered) \cup Pending) = {}
  /\ droppedEntries = Cardinality(dropped)

LEMMA IncreasingCardinality ==
  ASSUME NEW s \in Seq(Nat), Increasing(s)
  PROVE  IsFiniteSet(Range(s)) /\ Cardinality(Range(s)) = Len(s)
<1>1. Len(s) \in Nat /\ DOMAIN s = 1..Len(s) /\ s \in [1..Len(s) -> Range(s)]
  BY LenProperties DEF Range
<1>2. \A i, j \in 1..Len(s) : i # j => s[i] # s[j]
  <2> SUFFICES ASSUME NEW i \in 1..Len(s), NEW j \in 1..Len(s), i # j PROVE s[i] # s[j]
    OBVIOUS
  <2>1. s[i] \in Nat /\ s[j] \in Nat
    BY ElementOfSeq
  <2>2. CASE i < j
    BY <1>1, <2>1, <2>2 DEF Increasing
  <2>3. CASE j < i
    BY <1>1, <2>1, <2>3 DEF Increasing
  <2> QED  BY <1>1, <2>2, <2>3
<1>3. s \in Bijection(1..Len(s), Range(s))
  BY <1>1, <1>2 DEF Bijection, Injection, Surjection, IsInjective, Range
<1>4. IsFiniteSet(1..Len(s)) /\ Cardinality(1..Len(s)) = Len(s)
  BY <1>1, FS_Interval
<1> QED  BY <1>3, <1>4, FS_Bijection DEF ExistsBijection

\* Nothing else than flush touches the metric.
LEMMA OnlyFlushDrops == Next /\ ~FlushDrop => UNCHANGED <<dropped, droppedEntries>>
BY DEF Next, AddStep, AddRefused, AddChecked, AddSend, AddFull, AddPanics, WorkerStep, Receive,
       ReceiveClosed, Tick, FlushSend, CloseStep, CloseBuffer, CloseAgain, CloseBatches,
       ReceiveBatch, procVars

LEMMA CountInit == Init => CountInv
<1>1. Cardinality({}) = 0
  BY FS_EmptySet
<1> QED  BY <1>1 DEF Init, CountInv

LEMMA CountStep == TypeOK /\ FlowInv /\ CountInv /\ [Next]_vars => CountInv'
<1> SUFFICES ASSUME TypeOK, FlowInv, CountInv, [Next]_vars PROVE CountInv'
  OBVIOUS
<1>1. dropped \subseteq 1..accepted /\ Pending \subseteq 1..accepted /\ accepted \in Nat
  BY DEF FlowInv, NoSilentLoss, TypeOK
<1>2. Range(delivered) \cap Pending = {}
  <2>1. \A x \in Pending : x \in Nat
    BY <1>1
  <2> QED  BY <2>1 DEF FlowInv, StagesOrdered, Precedes
<1>3. dropped' \cap (Range(delivered)' \cup Pending') = {}
  <2>1. CASE accepted' = accepted + 1 /\ Pending' = Pending \cup {accepted + 1}
             /\ dropped' = dropped /\ Range(delivered)' = Range(delivered)
    <3>1. accepted + 1 \notin dropped
      BY <1>1
    <3> QED  BY <2>1, <3>1 DEF CountInv
  <2>2. ASSUME NEW S \in SUBSET Pending, FifoDeliver(S)
        PROVE  dropped' \cap (Range(delivered)' \cup Pending') = {}
    BY <2>2 DEF FifoDeliver, CountInv
  <2>3. ASSUME NEW S \in SUBSET Pending, FifoLose(S)
        PROVE  dropped' \cap (Range(delivered)' \cup Pending') = {}
    BY <1>2, <2>3 DEF FifoLose, CountInv
  <2>4. CASE /\ UNCHANGED <<Pending, dropped>>
             /\ Range(delivered)' = Range(delivered)
    BY <2>4 DEF CountInv
  <2> QED  BY <2>1, <2>2, <2>3, <2>4, BufferStepRefines DEF abstract
<1>4. droppedEntries' = Cardinality(dropped')
  <2>1. CASE FlushDrop
    <3>1. droppedEntries' = droppedEntries + Len(batch) /\ dropped' = dropped \cup Range(batch)
      BY <2>1 DEF FlushDrop
    <3>2. IsFiniteSet(Range(batch)) /\ Cardinality(Range(batch)) = Len(batch)
      BY IncreasingCardinality DEF TypeOK, FlowInv
    <3>3. IsFiniteSet(dropped)
      <4>1. IsFiniteSet(1..accepted)
        BY <1>1, FS_Interval
      <4> QED  BY <1>1, <4>1, FS_Subset
    <3>4. dropped \cap Range(batch) = {}
      BY DEF CountInv, Pending
    <3>5. Cardinality(dropped \cup Range(batch)) =
            Cardinality(dropped) + Cardinality(Range(batch)) - Cardinality(dropped \cap Range(batch))
      BY <3>2, <3>3, FS_Union
    <3>6. Cardinality(dropped \cap Range(batch)) = 0
      BY <3>4, FS_EmptySet
    <3>7. Cardinality(dropped) \in Nat /\ Len(batch) \in Nat
      BY <3>2, <3>3, FS_CardinalityType
    <3> QED  BY <3>1, <3>2, <3>5, <3>6, <3>7 DEF CountInv
  <2>2. CASE Next /\ ~FlushDrop
    BY <2>2, OnlyFlushDrops DEF CountInv
  <2>3. CASE UNCHANGED vars
    BY <2>3 DEF vars, CountInv
  <2> QED  BY <2>1, <2>2, <2>3
<1> QED  BY <1>3, <1>4 DEF CountInv

\* The metric is the number of entries that were accepted and are neither delivered nor
\* inside: no drop is missed and none is counted twice.
THEOREM DropsAreCountedHolds == Spec => []DropsAreCounted
<1>1. FlowInv /\ CountInv => DropsAreCounted
  <2> SUFFICES ASSUME FlowInv, CountInv PROVE DropsAreCounted
    OBVIOUS
  <2>1. 1..accepted \ (Range(delivered) \cup Pending) = dropped
    BY DEF FlowInv, NoSilentLoss, CountInv
  <2> QED  BY <2>1 DEF DropsAreCounted, CountInv
<1>2. Init => TypeInv /\ FlowInv /\ CountInv
  BY TypeInit, FlowInit, CountInit
<1>3. (TypeInv /\ FlowInv /\ CountInv) /\ [Next]_vars => (TypeInv /\ FlowInv /\ CountInv)'
  BY TypeStep, FlowStep, CountStep DEF TypeInv
<1> QED  BY <1>1, <1>2, <1>3, PTL DEF Spec
=============================================================================
