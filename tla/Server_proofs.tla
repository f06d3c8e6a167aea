--------------------------- MODULE Server_proofs ---------------------------
(***************************************************************************)
(* Proofs about the processor and about the server that runs it.  Those of  *)
(* the first half are about Processor alone, for any callers of Start and   *)
(* Stop and any number of starts: ServerAssumption is cited only where the  *)
(* server is.  What is proved about Buffer holds for the buffer inside.     *)
(***************************************************************************)
EXTENDS Server, SequenceTheorems, FiniteSetTheorems, TLAPS

BP == INSTANCE Buffer_proofs WITH Closers <- Callers

-----------------------------------------------------------------------------
(* Elements of sequences. *)

\* Receiving takes the head and leaves the tail.
LEMMA RangeOfTail ==
  ASSUME NEW S, NEW s \in Seq(S), s # <<>>
  PROVE  Range(s) = {Head(s)} \cup Range(Tail(s))
<1>1. Tail(s) \in Seq(S) /\ 1 \in 1..Len(s) /\ Len(s) \in 1..Len(s) /\ Head(s) = s[1]
  BY HeadTailProperties, EmptySeq
<1> DEFINE u == <<s[1]>>
<1>2. s = u \o Tail(s)
  <2>1. SubSeq(s, 1, Len(s)) = <<s[1]>> \o SubSeq(s, 1 + 1, Len(s))
    BY <1>1, SubSeqRecursiveFirst
  <2> QED  BY <2>1, SubSeqFull, TailIsSubSeq
<1>3. u \in Seq(S) /\ Range(u) = {s[1]}
  <2>1. s[1] \in S
    BY <1>1, ElementOfSeq
  <2> QED  BY ONLY <2>1 DEF Range
<1> HIDE DEF u
<1> DEFINE v == Tail(s)
<1>4. Range(u \o v) = Range(u) \cup Range(v)
  <2>1. u \in Seq(S) /\ v \in Seq(S)
    BY <1>1, <1>3
  <2> HIDE DEF v
  <2> QED  BY ONLY <2>1, RangeConcatenation
<1> QED  BY <1>1, <1>2, <1>3, <1>4

-----------------------------------------------------------------------------
(* The inductive invariant of the processor. *)

\* What Buffer's proofs keep.
BufferInv == BP!TypeInv /\ BP!FlowInv /\ BP!DrainInv

\* What the engine takes for seen has an example, and every example is in its two caches
\* or was lost from them.
DedupInv ==
  /\ \A c \in known : \E m \in Examples : Template[content[m]] = Template[c]
  /\ \A t \in mined : \E m \in Examples : Template[content[m]] = t
  /\ \A m \in Examples :
       /\ content[m] \in known \cup forgotten
       /\ content[m] \in Bare \/ Template[content[m]] \in mined \cup evicted
  /\ EachIsRepresented
  /\ SecondExampleHasReason

Signalled(k) == call[k] \in {"wait", "buffer"}

\* One caller at most is past the stop signal, only he closes the buffer, and from
\* the end of his wait only late loops are active.
StopInv ==
  /\ \A k \in Callers : Signalled(k) => stopClosed /\ ~routerClosed
  /\ \A j, k \in Callers : Signalled(j) /\ Signalled(k) => j = k
  /\ \A k \in Callers : closing[k] # "idle" => call[k] = "buffer" \/ routerClosed
  /\ \A k \in Callers : closing[k] = "returned" => batchesClosed
  /\ closed => \E k \in Callers : closing[k] # "idle"
  /\ routerClosed => stopClosed /\ batchesClosed
  /\ \A k \in Callers : call[k] = "buffer" => \A l \in Loops \ late : ~Active(l)
  /\ routerClosed => \A l \in Loops \ late : ~Active(l)

ProcessorInv == BufferInv /\ TypeOK /\ DedupInv /\ StopInv

-----------------------------------------------------------------------------
(* The buffer inside the processor. *)

\* The two instances of Buffer are the same.
LEMMA SameSteps ==
  /\ \A a \in Adders : B!AddStep(a) => BP!AddStep(a)
  /\ B!WorkerStep => BP!WorkerStep
  /\ \A k \in Callers : B!CloseStep(k) => BP!CloseStep(k)
  /\ B!ReceiveBatch => BP!ReceiveBatch
<1>1. ASSUME NEW a \in Adders, B!AddStep(a) PROVE BP!AddStep(a)
  <2>1. B!AddRefused(a) => BP!AddRefused(a)
    BY DEF B!AddRefused, B!procVars, BP!AddRefused, BP!procVars
  <2>2. B!AddChecked(a) => BP!AddChecked(a)
    BY DEF B!AddChecked, B!procVars, BP!AddChecked, BP!procVars
  <2>3. B!AddSend(a) => BP!AddSend(a)
    BY DEF B!AddSend, B!AddReturns, B!procVars, BP!AddSend, BP!AddReturns, BP!procVars
  <2>4. B!AddFull(a) => BP!AddFull(a)
    BY DEF B!AddFull, B!AddReturns, B!procVars, BP!AddFull, BP!AddReturns, BP!procVars
  <2>5. B!AddPanics(a) => BP!AddPanics(a)
    BY DEF B!AddPanics, B!AddReturns, B!procVars, BP!AddPanics, BP!AddReturns, BP!procVars
  <2> QED  BY <1>1, <2>1, <2>2, <2>3, <2>4, <2>5 DEF B!AddStep, BP!AddStep
<1>2. ASSUME B!WorkerStep PROVE BP!WorkerStep
  BY <1>2
  DEF B!WorkerStep, B!Receive, B!ReceiveClosed, B!Tick, B!FlushSend, B!FlushDrop, B!AfterFlush,
      B!callVars, BP!WorkerStep, BP!Receive, BP!ReceiveClosed, BP!Tick, BP!FlushSend,
      BP!FlushDrop, BP!AfterFlush, BP!callVars, B!Range, BP!Range
<1>3. ASSUME NEW k \in Callers, B!CloseStep(k) PROVE BP!CloseStep(k)
  BY <1>3
  DEF B!CloseStep, B!CloseBuffer, B!CloseAgain, B!CloseBatches, B!callVars, B!procVars,
      BP!CloseStep, BP!CloseBuffer, BP!CloseAgain, BP!CloseBatches, BP!callVars, BP!procVars
<1>4. ASSUME B!ReceiveBatch PROVE BP!ReceiveBatch
  BY <1>4 DEF B!ReceiveBatch, B!callVars, BP!ReceiveBatch, BP!callVars
<1> QED  BY <1>1, <1>2, <1>3, <1>4

\* A step of the processor is one of its buffer, or leaves the buffer alone.
LEMMA BufferSteps ==
  ASSUME Next
  PROVE  B!Next \/ UNCHANGED bufferVars
<1>1. ASSUME NEW k \in Callers, StopStep(k) PROVE B!CloseStep(k) \/ UNCHANGED bufferVars
  BY <1>1 DEF StopStep, StopSignals, StopWaits, StopClosesBuffer, StopClosesRouter
<1>2. ASSUME NEW l \in Loops, LoopStep(l) PROVE B!ReceiveBatch \/ UNCHANGED bufferVars
  BY <1>2 DEF LoopStep, LoopExits, TakeBatch, ProcessEntry, BatchProcessed, RouteReturns
<1>3. ASSUME NEW k \in Callers, NEW l \in Loops, StartBegins(k, l) \/ StartReturns(k, l)
      PROVE  UNCHANGED bufferVars
  BY <1>3 DEF StartBegins, StartReturns
<1> QED
  BY <1>1, <1>2, <1>3 DEF Next, AddEntry, BatchProcessor, Cancel, StopBegins, Expire, B!Next

LEMMA BufferInit == Init => BufferInv
<1> SUFFICES ASSUME Init PROVE BufferInv
  OBVIOUS
<1>1. BP!Init
  BY DEF Init, B!Init, BP!Init
<1>2. BP!TypeInv
  BY <1>1, BP!TypeInit, ProcessorAssumption
<1>3. BP!FlowInv
  BY <1>1, BP!FlowInit, ProcessorAssumption
<1>4. BP!DrainInv
  BY <1>1 DEF BP!Init, BP!DrainInv
<1> QED  BY <1>2, <1>3, <1>4 DEF BufferInv

LEMMA BufferStep == BufferInv /\ [Next]_vars => BufferInv'
<1> SUFFICES ASSUME BufferInv, [Next]_vars PROVE BufferInv'
  OBVIOUS
<1>1. [BP!Next]_(BP!vars)
  <2>1. B!Next \/ UNCHANGED bufferVars
    BY BufferSteps DEF vars
  <2>2. B!Next => BP!Next
    BY SameSteps DEF B!Next, BP!Next
  <2> QED  BY <2>1, <2>2 DEF bufferVars, BP!vars
<1>2. BP!TypeInv'
  BY <1>1, BP!TypeStep, ProcessorAssumption DEF BufferInv
<1>3. BP!TypeOK /\ BP!FlowInv /\ BP!DrainInv
  BY DEF BufferInv, BP!TypeInv
<1>4. BP!FlowInv'
  BY ONLY <1>1, <1>3, BP!FlowStep, ProcessorAssumption
<1>5. BP!DrainInv'
  BY ONLY <1>1, <1>3, BP!DrainStep, ProcessorAssumption
<1> QED  BY <1>2, <1>4, <1>5 DEF BufferInv

\* What the proofs below need of the buffer.
LEMMA BufferFacts ==
  ASSUME BufferInv
  PROVE  /\ accepted \in Nat /\ accepted <= MaxEntries
         /\ delivered \in Seq(Nat) /\ batches \in Seq(Seq(Nat))
         /\ closing \in [Callers -> {"idle", "waiting", "returned"}]
         /\ 1..accepted = Range(delivered) \cup dropped \cup Range(buffer) \cup Range(batch) \cup B!Queued
         /\ batchesClosed => closed /\ Range(buffer) = {} /\ Range(batch) = {}
<1>1. BP!TypeOK /\ BP!NoSilentLoss /\ BP!DrainInv
  BY DEF BufferInv, BP!TypeInv, BP!FlowInv
<1>2. B!Queued = BP!Queued
  BY DEF B!Queued, BP!Queued, B!Entries, BP!Entries, B!Range, BP!Range
<1>3. 1..accepted = Range(delivered) \cup dropped \cup Range(buffer) \cup Range(batch) \cup B!Queued
  BY <1>1, <1>2 DEF BP!NoSilentLoss, BP!Pending, BP!Range, Range
<1>4. batchesClosed => closed /\ buffer = <<>> /\ batch = <<>>
  BY <1>1 DEF BP!DrainInv
<1>5. Range(<<>>) = {}
  <2>1. DOMAIN <<>> = {}
    OBVIOUS
  <2> QED  BY <2>1 DEF Range
<1> QED  BY <1>1, <1>3, <1>4, <1>5 DEF BP!TypeOK

\* The consumer gets a batch of accepted entries.
LEMMA BatchTaken ==
  ASSUME BufferInv, B!ReceiveBatch
  PROVE  /\ Head(batches) \in Seq(1..MaxEntries)
         /\ Range(delivered') = Range(delivered) \cup Range(Head(batches))
         /\ UNCHANGED <<closed, batchesClosed, closing>>
<1>1. /\ batches # <<>> /\ delivered' = delivered \o Head(batches)
      /\ UNCHANGED <<closed, batchesClosed, closing>>
  BY DEF B!ReceiveBatch
<1>2. /\ batches \in Seq(Seq(Nat)) /\ delivered \in Seq(Nat)
      /\ accepted \in Nat /\ accepted <= MaxEntries /\ MaxEntries \in Nat
      /\ B!Queued \subseteq 1..accepted
  BY BufferFacts, ProcessorAssumption
<1>3. Head(batches) \in Seq(Nat) /\ Head(batches) = batches[1] /\ 1 \in DOMAIN batches
  <2>1. Len(batches) \in Nat /\ Len(batches) > 0 /\ DOMAIN batches = 1..Len(batches)
    BY <1>1, <1>2, EmptySeq, LenProperties
  <2> QED  BY <1>1, <1>2, <2>1, HeadTailProperties
<1>4. Range(Head(batches)) \subseteq B!Queued
  BY <1>3 DEF B!Queued, B!Entries, B!Range, Range
<1>5. Range(Head(batches)) \subseteq 1..MaxEntries
  <2>1. 1..accepted \subseteq 1..MaxEntries
    BY <1>2
  <2> QED  BY <1>2, <1>4, <2>1
<1>6. Head(batches) \in Seq(1..MaxEntries)
  <2>1. Head(batches) \in Seq(Range(Head(batches)))
    BY <1>3, SeqOfRange
  <2> QED  BY <1>5, <2>1, SeqMonotonic
<1>7. Range(delivered \o Head(batches)) = Range(delivered) \cup Range(Head(batches))
  BY <1>2, <1>3, RangeConcatenation
<1> QED  BY <1>1, <1>6, <1>7

-----------------------------------------------------------------------------
(* The steps of the buffer, as the processor sees them. *)

LEMMA AddEntryEffect ==
  ASSUME NEW a \in Adders, AddEntry(a)
  PROVE  /\ UNCHANGED <<lifeVars, workVars, loop, fixed>>
         /\ UNCHANGED <<closed, batchesClosed, closing, delivered, batches, dropped>>
BY DEF AddEntry, B!AddStep, B!AddRefused, B!AddChecked, B!AddSend, B!AddFull, B!AddPanics,
       B!AddReturns, B!procVars

LEMMA BatchProcessorEffect ==
  ASSUME BatchProcessor
  PROVE  /\ UNCHANGED <<lifeVars, workVars, loop, fixed>>
         /\ UNCHANGED <<closed, batchesClosed, closing, delivered, accepted>>
BY DEF BatchProcessor, B!WorkerStep, B!Receive, B!ReceiveClosed, B!Tick, B!FlushSend,
       B!FlushDrop, B!callVars

LEMMA CloseEffect ==
  ASSUME NEW k \in Callers, StopClosesBuffer(k)
  PROVE  /\ call[k] = "buffer" /\ UNCHANGED <<lifeVars, workVars, loop, fixed>>
         /\ UNCHANGED <<delivered, batches, accepted, dropped>>
         /\ \/ /\ ~closed /\ closed' /\ UNCHANGED batchesClosed
               /\ closing' = [closing EXCEPT ![k] = "waiting"]
            \/ /\ closing[k] = "idle" /\ closed /\ UNCHANGED <<closed, batchesClosed>>
               /\ closing' = [closing EXCEPT ![k] = "returned"]
            \/ /\ closing[k] = "waiting" /\ batchesClosed' /\ UNCHANGED closed
               /\ closing' = [closing EXCEPT ![k] = "returned"]
BY DEF StopClosesBuffer, B!CloseStep, B!CloseBuffer, B!CloseAgain, B!CloseBatches, B!procVars

-----------------------------------------------------------------------------
(* Type correctness of the processor. *)

LEMMA ProcessorTypeInit == Init => TypeOK
<1> SUFFICES ASSUME Init PROVE TypeOK
  OBVIOUS
<1>1. <<>> \in Seq(1..MaxEntries) /\ Len(<<>>) = 0 /\ 0 <= 3 * ContextLines
  BY EmptySeq, ProcessorAssumption
<1> QED  BY <1>1 DEF Init, TypeOK

\* What processEntry returns for an entry, which is in it as itself unless it is not
\* severe and its template is known.
LEMMA EmitsPieces ==
  ASSUME TypeOK, NEW n \in 1..MaxEntries
  PROVE  /\ Emits(n) \subseteq Pieces
         /\ Piece(n, n, "itself") \in Emits(n) <=>
              n \in Severe \/ content[n] \in Bare \/ Template[content[n]] \notin mined
         /\ \A m : m # n => Piece(m, m, "itself") \notin Emits(n)
<1>1. Recent \subseteq 1..MaxEntries
  <2>1. window \in Seq(1..MaxEntries) /\ DOMAIN window = 1..Len(window)
    BY DEF TypeOK
  <2>2. \A i \in DOMAIN window : window[i] \in 1..MaxEntries
    BY ONLY <2>1, ElementOfSeq
  <2> QED  BY <2>2 DEF Recent
<1>2. \A m \in 1..MaxEntries, role \in {"before", "trigger", "itself"} : Piece(m, n, role) \in Pieces
  BY DEF Piece, Pieces
<1>3. Emits(n) \subseteq Pieces
  <2>1. GetContext(n) \subseteq Pieces
    BY <1>1, <1>2 DEF GetContext
  <2> QED  BY <1>2, <2>1 DEF Emits
<1>4. ASSUME NEW m PROVE Piece(m, m, "itself") \notin GetContext(n)
  <2>1. \A k, role : role # "itself" => Piece(m, m, "itself") # Piece(k, n, role)
    BY DEF Piece
  <2> QED  BY <2>1 DEF GetContext
<1>5. ASSUME NEW m, m # n PROVE Piece(m, m, "itself") # Piece(n, n, "itself")
  BY <1>5 DEF Piece
<1> QED  BY <1>3, <1>4, <1>5 DEF Emits

LEMMA WindowSlides ==
  ASSUME TypeOK, NEW n \in 1..MaxEntries
  PROVE  Slide(n) \in Seq(1..MaxEntries) /\ Len(Slide(n)) <= 3 * ContextLines
<1> DEFINE w == Append(window, n)
           size == 3 * ContextLines
<1>1. /\ window \in Seq(1..MaxEntries) /\ Len(window) <= size /\ Len(window) \in Nat
      /\ size \in Nat
  BY ProcessorAssumption, LenProperties DEF TypeOK
<1>2. w \in Seq(1..MaxEntries) /\ Len(w) = Len(window) + 1 /\ w # <<>>
  BY <1>1, AppendProperties, EmptySeq
<1> HIDE DEF w, size
<1>3. Tail(w) \in Seq(1..MaxEntries) /\ Len(Tail(w)) = Len(w) - 1
  <2>1. PICK S : S = 1..MaxEntries
    OBVIOUS
  <2>2. w \in Seq(S) /\ w # <<>>
    BY <1>2, <2>1
  <2>3. Tail(w) \in Seq(S) /\ Len(Tail(w)) = Len(w) - 1
    BY ONLY <2>2, HeadTailProperties
  <2> QED  BY <2>1, <2>3
<1>4. Slide(n) = IF Len(window) < size THEN w ELSE Tail(w)
  BY DEF Slide, w, size
<1>5. Slide(n) \in Seq(1..MaxEntries) /\ Len(Slide(n)) <= size
  <2>1. CASE Len(window) < size
    <3>1. Slide(n) = w /\ Len(w) <= size
      BY <1>1, <1>2, <1>4, <2>1
    <3> QED  BY <1>2, <3>1
  <2>2. CASE ~(Len(window) < size)
    <3>1. Slide(n) = Tail(w) /\ Len(Tail(w)) <= size
      BY <1>1, <1>2, <1>3, <1>4, <2>2
    <3> QED  BY <1>3, <3>1
  <2> QED  BY <2>1, <2>2
<1> QED  BY <1>5 DEF size

\* The entry that ProcessEntry takes from the batch.
LEMMA EntryTaken ==
  ASSUME TypeOK, NEW l \in Loops, ProcessEntry(l)
  PROVE  /\ loop[l] = "process" /\ Head(rest[l]) \in 1..MaxEntries
         /\ Tail(rest[l]) \in Seq(1..MaxEntries) /\ l \in DOMAIN out /\ l \in DOMAIN rest
         /\ rest' = [rest EXCEPT ![l] = Tail(rest[l])]
         /\ Range(rest[l]) = {Head(rest[l])} \cup Range(Tail(rest[l]))
         /\ UNCHANGED <<delivered, loop, submitted, content, lifeVars, late>>
<1>1. /\ rest[l] \in Seq(1..MaxEntries) /\ rest[l] # <<>> /\ loop[l] = "process"
      /\ rest' = [rest EXCEPT ![l] = Tail(rest[l])] /\ l \in DOMAIN out /\ l \in DOMAIN rest
      /\ UNCHANGED <<delivered, loop, submitted, content, lifeVars, late>>
  BY DEF ProcessEntry, TypeOK, bufferVars, fixed
<1>2. Head(rest[l]) \in 1..MaxEntries /\ Tail(rest[l]) \in Seq(1..MaxEntries)
  BY ONLY <1>1, HeadTailProperties
<1> QED  BY <1>1, <1>2, RangeOfTail

LEMMA ProcessorTypeStep == BufferInv /\ TypeOK /\ [Next]_vars => TypeOK'
<1> SUFFICES ASSUME BufferInv, TypeOK, [Next]_vars PROVE TypeOK'
  OBVIOUS
<1> USE DEF lifeVars, workVars, engineVars, fixed
<1>1. ASSUME NEW a \in Adders, AddEntry(a) PROVE TypeOK'
  BY <1>1, AddEntryEffect DEF TypeOK
<1>2. CASE BatchProcessor
  BY <1>2, BatchProcessorEffect DEF TypeOK
<1>3. CASE Cancel
  BY <1>3 DEF Cancel, TypeOK
<1>4. ASSUME NEW k \in Callers, StopBegins(k) PROVE TypeOK'
  BY <1>4 DEF StopBegins, TypeOK
<1>5. ASSUME NEW k \in Callers, StopSignals(k) PROVE TypeOK'
  BY <1>5 DEF StopSignals, TypeOK
<1>6. ASSUME NEW k \in Callers, StopWaits(k) PROVE TypeOK'
  BY <1>6 DEF StopWaits, TypeOK
<1>7. ASSUME NEW k \in Callers, StopClosesBuffer(k) PROVE TypeOK'
  <2>1. UNCHANGED <<lifeVars, workVars, loop, fixed>>
    BY <1>7 DEF StopClosesBuffer
  <2> QED  BY <2>1 DEF TypeOK
<1>8. ASSUME NEW k \in Callers, StopClosesRouter(k) PROVE TypeOK'
  BY <1>8 DEF StopClosesRouter, TypeOK
<1>9. ASSUME NEW k \in Callers, NEW l \in Loops, StartBegins(k, l) PROVE TypeOK'
  BY <1>9 DEF StartBegins, TypeOK
<1>10. ASSUME NEW k \in Callers, NEW l \in Loops, StartReturns(k, l) PROVE TypeOK'
  BY <1>10 DEF StartReturns, TypeOK
<1>11. ASSUME NEW l \in Loops, LoopExits(l) PROVE TypeOK'
  BY <1>11 DEF LoopExits, TypeOK
<1>12. ASSUME NEW l \in Loops, TakeBatch(l) PROVE TypeOK'
  <2>1. Head(batches) \in Seq(1..MaxEntries)
    BY <1>12, BatchTaken DEF TakeBatch
  <2> QED  BY <1>12, <2>1 DEF TakeBatch, TypeOK
<1>13. ASSUME NEW l \in Loops, ProcessEntry(l) PROVE TypeOK'
  <2> DEFINE n == Head(rest[l])
  <2>1. /\ n \in 1..MaxEntries /\ loop[l] = "process" /\ Tail(rest[l]) \in Seq(1..MaxEntries)
        /\ rest' = [rest EXCEPT ![l] = Tail(rest[l])]
        /\ UNCHANGED <<loop, submitted, content, running, stopClosed, ctxDone, call, routerClosed,
                       late>>
    BY <1>13, EntryTaken
  <2>2. \/ UNCHANGED <<out, known, window, forgotten>>
        \/ /\ out' = [out EXCEPT ![l] = @ \cup Emits(n)]
           /\ known' = known \cup {content[n]} /\ window' = Slide(n) /\ forgotten' = forgotten
    BY <1>13 DEF ProcessEntry, Remember, engineVars
  <2> HIDE DEF n
  <2>3. content[n] \in Contents
    BY <2>1 DEF TypeOK
  <2>4. /\ known' \subseteq Contents /\ forgotten' \subseteq Contents
        /\ window' \in Seq(1..MaxEntries) /\ Len(window') <= 3 * ContextLines
    <3>1. Slide(n) \in Seq(1..MaxEntries) /\ Len(Slide(n)) <= 3 * ContextLines
      BY <2>1, WindowSlides
    <3> QED  BY <2>2, <2>3, <3>1 DEF TypeOK
  <2>5. Emits(n) \subseteq Pieces
    BY <2>1, EmitsPieces
  <2>6. /\ out' \in [Loops -> SUBSET Pieces]
        /\ \A j \in Loops : out'[j] # {} => loop'[j] = "process"
    BY <2>1, <2>2, <2>5 DEF TypeOK
  <2>7. /\ rest' \in [Loops -> Seq(1..MaxEntries)]
        /\ \A j \in Loops : rest'[j] # <<>> => loop'[j] = "process"
    BY <2>1 DEF TypeOK
  <2> QED  BY <2>1, <2>4, <2>6, <2>7 DEF TypeOK
<1>14. ASSUME NEW l \in Loops, BatchProcessed(l) PROVE TypeOK'
  <2>1. PICK to \in {"select", "route"} : loop' = [loop EXCEPT ![l] = to]
    BY <1>14 DEF BatchProcessed
  <2>2. /\ loop[l] = "process" /\ rest[l] = <<>> /\ submitted' = submitted \cup out[l]
        /\ out' = [out EXCEPT ![l] = {}]
        /\ UNCHANGED <<rest, known, forgotten, window, lifeVars, fixed>>
    BY <1>14 DEF BatchProcessed, engineVars
  <2>3. /\ out' \in [Loops -> SUBSET Pieces] /\ submitted' \subseteq Pieces
        /\ loop' \in [Loops -> {"none", "starting", "select", "process", "route", "done"}]
    BY <2>1, <2>2 DEF TypeOK
  <2>4. \A j \in Loops : rest'[j] # <<>> \/ out'[j] # {} => loop'[j] = "process"
    BY <2>1, <2>2 DEF TypeOK
  <2> QED  BY <2>2, <2>3, <2>4 DEF TypeOK
<1>15. ASSUME NEW l \in Loops, NEW ok \in BOOLEAN, RouteReturns(l, ok) PROVE TypeOK'
  BY <1>15 DEF RouteReturns, TypeOK
<1>17. ASSUME NEW c \in Contents, Expire(c) PROVE TypeOK'
  BY <1>17 DEF Expire, TypeOK
<1>16. CASE UNCHANGED vars
  BY <1>16 DEF vars, TypeOK
<1> QED
  BY <1>1, <1>2, <1>3, <1>4, <1>5, <1>6, <1>7, <1>8, <1>9, <1>10, <1>11, <1>12, <1>13,
     <1>14, <1>15, <1>16, <1>17 DEF Next, StopStep, LoopStep

\* The processor keeps its shape, and a loop holds entries only while it works on them.
THEOREM TypeCorrect == Spec => []TypeOK
<1>1. Init => BufferInv /\ TypeOK
  BY BufferInit, ProcessorTypeInit
<1>2. BufferInv /\ TypeOK /\ [Next]_vars => (BufferInv /\ TypeOK)'
  BY BufferStep, ProcessorTypeStep
<1> QED  BY <1>1, <1>2, PTL DEF Spec

-----------------------------------------------------------------------------
(* Deduplication. *)

LEMMA EmptyRange == Range(<<>>) = {}
<1>1. DOMAIN <<>> = {}
  OBVIOUS
<1> QED  BY <1>1 DEF Range

\* A step that takes no entry off a loop and keeps what is or will be handed to Route.
LEMMA DedupKept ==
  ASSUME DedupInv, UNCHANGED <<engineVars, content>>, Output' = Output,
         Processed' \subseteq Processed
  PROVE  DedupInv'
<1>1. Examples' = Examples
  BY DEF Examples
<1> QED
  BY <1>1 DEF DedupInv, engineVars, EachIsRepresented, SecondExampleHasReason, Alike

LEMMA OutsideDedup ==
  ASSUME DedupInv, UNCHANGED <<workVars, content, delivered>>
  PROVE  DedupInv'
<1>1. Output' = Output /\ Processed' = Processed
  BY DEF workVars, Output, Processed, InBatch
<1> QED  BY <1>1, DedupKept DEF workVars

LEMMA DedupInit == Init => DedupInv
<1> SUFFICES ASSUME Init PROVE DedupInv
  OBVIOUS
<1>1. Examples = {}
  BY DEF Init, Output, Examples
<1>2. Processed = {}
  <2>1. Range(delivered) = {}
    BY EmptyRange DEF Init, B!Init
  <2> QED  BY <2>1 DEF Processed
<1> QED  BY <1>1, <1>2 DEF Init, DedupInv, EachIsRepresented, SecondExampleHasReason

\* A batch is taken by a loop that has none.
LEMMA DedupTake ==
  ASSUME BufferInv, TypeOK, DedupInv, NEW l \in Loops, TakeBatch(l)
  PROVE  DedupInv'
<1>1. /\ loop[l] = "select" /\ rest' = [rest EXCEPT ![l] = Head(batches)]
      /\ UNCHANGED <<out, engineVars, submitted, content>> /\ B!ReceiveBatch
  BY DEF TakeBatch, fixed
<1>2. /\ rest[l] = <<>> /\ l \in DOMAIN rest
      /\ \A j \in Loops \ {l} : rest'[j] = rest[j]
      /\ rest'[l] = Head(batches)
  BY <1>1 DEF TypeOK
<1>3. Range(delivered') = Range(delivered) \cup Range(Head(batches))
  BY <1>1, BatchTaken
<1>4. Processed' \subseteq Processed
  <2> SUFFICES ASSUME NEW n \in Processed' PROVE n \in Processed
    OBVIOUS
  <2>1. n \in Range(delivered') /\ \A j \in Loops : n \notin Range(rest'[j])
    BY DEF Processed, InBatch
  <2>2. \A j \in Loops : n \notin Range(rest[j])
    BY <1>2, <2>1, EmptyRange
  <2>3. n \in Range(delivered)
    BY <1>2, <1>3, <2>1
  <2> QED  BY <2>2, <2>3 DEF Processed, InBatch
<1>5. Output' = Output
  BY <1>1 DEF Output
<1> QED  BY <1>1, <1>4, <1>5, DedupKept

\* A rule drops the entry, or its fingerprint is known; or the engine remembers it, and
\* it is an example unless its template had one.
LEMMA DedupEntry ==
  ASSUME TypeOK, DedupInv, NEW l \in Loops, ProcessEntry(l)
  PROVE  DedupInv'
<1> DEFINE n == Head(rest[l])
           c == content[n]
<1>1. /\ n \in 1..MaxEntries /\ l \in DOMAIN out /\ l \in DOMAIN rest
      /\ rest' = [rest EXCEPT ![l] = Tail(rest[l])]
      /\ Range(rest[l]) = {n} \cup Range(Tail(rest[l]))
      /\ UNCHANGED <<delivered, submitted, content>>
  BY EntryTaken
<1>2. \/ c \in Ignored \cup known /\ UNCHANGED <<out, engineVars>>
      \/ c \notin Ignored \cup known /\ out' = [out EXCEPT ![l] = out[l] \cup Emits(n)] /\ Remember(n)
  BY DEF ProcessEntry
<1> HIDE DEF n
<1>3. Processed' \subseteq Processed \cup {n}
  <2> SUFFICES ASSUME NEW m \in Processed', m # n PROVE m \in Processed
    OBVIOUS
  <2>1. m \in Range(delivered) /\ \A j \in Loops : m \notin Range(rest'[j])
    BY <1>1 DEF Processed, InBatch
  <2>2. \A j \in Loops : m \notin Range(rest[j])
    BY <1>1, <2>1
  <2> QED  BY <2>1, <2>2 DEF Processed, InBatch
<1>4. c \in Contents /\ DOMAIN Template = Contents
  BY <1>1, ProcessorAssumption DEF TypeOK
<1>5. CASE c \in Ignored \cup known /\ UNCHANGED <<out, engineVars>>
  <2>1. Examples' = Examples
    BY <1>1, <1>5 DEF Examples, Output
  <2>2. EachIsRepresented'
    <3>1. c \in known => \E m \in Examples : Template[content[m]] = Template[c]
      BY DEF DedupInv
    <3> QED  BY <1>1, <1>3, <1>5, <2>1, <3>1 DEF DedupInv, EachIsRepresented, Alike
  <2> QED
    BY <1>1, <1>5, <2>1, <2>2 DEF DedupInv, SecondExampleHasReason, Alike, engineVars
<1>6. CASE c \notin Ignored \cup known /\ out' = [out EXCEPT ![l] = out[l] \cup Emits(n)] /\ Remember(n)
  <2>1. Output' = Output \cup Emits(n)
    <3>1. /\ \A j \in Loops \ {l} : out'[j] = out[j]
          /\ out'[l] = out[l] \cup Emits(n)
      BY <1>1, <1>6 DEF TypeOK
    <3> QED  BY <1>1, <3>1 DEF Output
  <2>2. Examples' = IF n \in Severe \/ c \in Bare \/ Template[c] \notin mined
                    THEN Examples \cup {n} ELSE Examples
    <3>1. /\ Piece(n, n, "itself") \in Emits(n) <=>
               n \in Severe \/ c \in Bare \/ Template[c] \notin mined
          /\ \A m : m # n => Piece(m, m, "itself") \notin Emits(n)
      BY <1>1, EmitsPieces
    <3> QED  BY <1>1, <2>1, <3>1 DEF Examples
  <2>3. PICK lost \in SUBSET mined :
          /\ evicted' = evicted \cup lost
          /\ mined' = (mined \ lost) \cup (IF c \in Bare \/ Template[c] \in mined
                                           THEN {} ELSE {Template[c]})
    BY <1>6 DEF Remember
  <2>4. known' = known \cup {c} /\ forgotten' = forgotten /\ c \notin known
    BY <1>6 DEF Remember
  <2>5. \E m \in Examples' : Template[content[m]] = Template[c]
    <3>1. Template[c] \in mined => \E m \in Examples : Template[content[m]] = Template[c]
      BY DEF DedupInv
    <3> QED  BY <2>2, <3>1
  <2>6. /\ \A k \in known' : \E m \in Examples' : Template[content'[m]] = Template[k]
        /\ \A t \in mined' : \E m \in Examples' : Template[content'[m]] = t
    BY <1>1, <2>2, <2>3, <2>4, <2>5 DEF DedupInv
  <2>7. \A m \in Examples' :
          /\ content'[m] \in known' \cup forgotten'
          /\ content'[m] \in Bare \/ Template[content'[m]] \in mined' \cup evicted'
    BY <1>1, <2>2, <2>3, <2>4 DEF DedupInv
  <2>8. EachIsRepresented'
    BY <1>1, <1>3, <2>2, <2>5 DEF DedupInv, EachIsRepresented, Alike
  <2>9. SecondExampleHasReason'
    <3>1. ASSUME NEW m \in Examples, m # n, Alike(m, n), n \in Examples', n \notin Examples
          PROVE  /\ n \in Severe \/ content[m] \in Bare \/ Template[content[m]] \in evicted
                 /\ content[m] = c => content[m] \in forgotten
      <4>1. /\ content[m] \in known \cup forgotten
            /\ content[m] \in Bare \/ Template[content[m]] \in mined \cup evicted
        BY DEF DedupInv
      <4>2. n \in Severe \/ c \in Bare \/ Template[c] \notin mined
        BY <2>2, <3>1
      <4>3. m \in 1..MaxEntries /\ content[m] \in Contents
        BY DEF Examples, TypeOK
      <4>4. c \in Bare => content[m] = c
        BY <1>4, <3>1, <4>3, ProcessorAssumption DEF Alike
      <4> QED  BY <2>4, <3>1, <4>1, <4>2, <4>4 DEF Alike
    <3>2. ASSUME NEW m \in Examples', NEW k \in Examples', m # k, Alike(m, k)
          PROVE  /\ m \in Severe \/ k \in Severe \/ content[m] \in Bare
                    \/ Template[content[m]] \in evicted
                 /\ content[m] = content[k] => content[m] \in forgotten
      <4>1. CASE m \in Examples /\ k \in Examples
        BY <3>2, <4>1 DEF DedupInv, SecondExampleHasReason
      <4>2. CASE k = n /\ n \notin Examples
        BY <2>2, <3>1, <3>2, <4>2
      <4>3. CASE m = n /\ n \notin Examples
        <5>1. k \in Examples /\ Alike(k, n) /\ k # n
          BY <2>2, <3>2, <4>3 DEF Alike
        <5>2. /\ n \in Severe \/ content[k] \in Bare \/ Template[content[k]] \in evicted
              /\ content[k] = c => content[k] \in forgotten
          BY <3>1, <3>2, <4>3, <5>1
        <5>3. content[k] \in Bare => content[k] = c
          <6>1. Template[content[k]] = Template[c]
            BY <5>1 DEF Alike
          <6> QED  BY <1>4, <6>1, ProcessorAssumption
        <5> QED  BY <4>3, <5>1, <5>2, <5>3 DEF Alike
      <4> QED  BY <2>2, <4>1, <4>2, <4>3
    <3>3. evicted \subseteq evicted' /\ forgotten' = forgotten
      BY <2>3, <2>4
    <3> QED  BY <1>1, <3>2, <3>3 DEF SecondExampleHasReason, Alike
  <2> QED  BY <2>6, <2>7, <2>8, <2>9 DEF DedupInv
<1> QED  BY <1>2, <1>5, <1>6

LEMMA DedupStep == BufferInv /\ TypeOK /\ DedupInv /\ [Next]_vars => DedupInv'
<1> SUFFICES ASSUME BufferInv, TypeOK, DedupInv, [Next]_vars PROVE DedupInv'
  OBVIOUS
<1> USE DEF fixed
<1>1. ASSUME NEW a \in Adders, AddEntry(a) PROVE DedupInv'
  BY <1>1, AddEntryEffect, OutsideDedup
<1>2. CASE BatchProcessor
  BY <1>2, BatchProcessorEffect, OutsideDedup
<1>3. CASE Cancel
  BY <1>3, OutsideDedup DEF Cancel, bufferVars
<1>4. ASSUME NEW k \in Callers, StopBegins(k) PROVE DedupInv'
  BY <1>4, OutsideDedup DEF StopBegins, bufferVars
<1>5. ASSUME NEW k \in Callers, StopStep(k) PROVE DedupInv'
  <2>1. CASE StopClosesBuffer(k)
    BY <2>1, CloseEffect, OutsideDedup
  <2>2. CASE StopSignals(k)
    BY <2>2, OutsideDedup DEF StopSignals, bufferVars
  <2>3. CASE StopWaits(k)
    BY <2>3, OutsideDedup DEF StopWaits, bufferVars
  <2>4. CASE StopClosesRouter(k)
    BY <2>4, OutsideDedup DEF StopClosesRouter, bufferVars
  <2> QED  BY <1>5, <2>1, <2>2, <2>3, <2>4 DEF StopStep
<1>6. ASSUME NEW k \in Callers, NEW l \in Loops, StartBegins(k, l) \/ StartReturns(k, l)
      PROVE  DedupInv'
  BY <1>6, OutsideDedup DEF StartBegins, StartReturns, bufferVars
<1>7. ASSUME NEW l \in Loops, LoopExits(l) PROVE DedupInv'
  BY <1>7, OutsideDedup DEF LoopExits, bufferVars
<1>8. ASSUME NEW l \in Loops, TakeBatch(l) PROVE DedupInv'
  BY <1>8, DedupTake
<1>9. ASSUME NEW l \in Loops, ProcessEntry(l) PROVE DedupInv'
  BY <1>9, DedupEntry
<1>10. ASSUME NEW l \in Loops, BatchProcessed(l) PROVE DedupInv'
  <2>1. /\ submitted' = submitted \cup out[l] /\ out' = [out EXCEPT ![l] = {}]
        /\ UNCHANGED <<rest, engineVars, content, delivered>>
    BY <1>10 DEF BatchProcessed, bufferVars
  <2>2. out'[l] = {} /\ \A j \in Loops \ {l} : out'[j] = out[j]
    BY <2>1 DEF TypeOK
  <2>3. Output' = Output /\ Processed' = Processed
    BY <2>1, <2>2 DEF Output, Processed, InBatch
  <2> QED  BY <2>1, <2>3, DedupKept
<1>11. ASSUME NEW l \in Loops, NEW ok \in BOOLEAN, RouteReturns(l, ok) PROVE DedupInv'
  BY <1>11, OutsideDedup DEF RouteReturns, bufferVars
<1>12. CASE UNCHANGED vars
  BY <1>12, OutsideDedup DEF vars, bufferVars
<1>13. ASSUME NEW c \in Contents, Expire(c) PROVE DedupInv'
  <2>1. /\ known' = known \ {c} /\ forgotten' = forgotten \cup {c}
        /\ UNCHANGED <<rest, out, submitted, mined, evicted, content, delivered>>
    BY <1>13 DEF Expire, bufferVars
  <2>2. Examples' = Examples /\ Processed' = Processed
    BY <2>1 DEF Examples, Output, Processed, InBatch
  <2> QED
    BY <2>1, <2>2 DEF DedupInv, EachIsRepresented, SecondExampleHasReason, Alike
<1> QED
  BY <1>1, <1>2, <1>3, <1>4, <1>5, <1>6, <1>7, <1>8, <1>9, <1>10, <1>11, <1>12, <1>13
  DEF Next, LoopStep

LEMMA ProcessorDedupInv == Spec => []DedupInv
<1>1. Init => BufferInv /\ TypeOK /\ DedupInv
  BY BufferInit, ProcessorTypeInit, DedupInit
<1>2. BufferInv /\ TypeOK /\ DedupInv /\ [Next]_vars => (BufferInv /\ TypeOK /\ DedupInv)'
  BY BufferStep, ProcessorTypeStep, DedupStep
<1> QED  BY <1>1, <1>2, PTL DEF Spec

\* No entry is suppressed but for one of its template that Route is or will be called
\* with: for any loops and batches, through expiry of fingerprints and eviction of templates.
THEOREM EachIsRepresentedHolds == Spec => []EachIsRepresented
<1>1. DedupInv => EachIsRepresented
  BY DEF DedupInv
<1> QED  BY <1>1, ProcessorDedupInv, PTL

\* A template gets a second example, and a message a second output of its own, only for a
\* severe entry, a message without tokens, an eviction or an expiry.
THEOREM SecondExampleHasReasonHolds == Spec => []SecondExampleHasReason
<1>1. DedupInv => SecondExampleHasReason
  BY DEF DedupInv
<1> QED  BY <1>1, ProcessorDedupInv, PTL

-----------------------------------------------------------------------------
(* Stop. *)

\* A step that is not Stop's and launches no loop.
LEMMA StopKept ==
  ASSUME StopInv, UNCHANGED <<call, stopClosed, routerClosed, late>>,
         UNCHANGED <<closed, batchesClosed, closing>>,
         \A l \in Loops : Active(l)' => Active(l)
  PROVE  StopInv'
BY DEF StopInv, Signalled

\* A caller who is not at the buffer has it closed by someone else, or not at all.
LEMMA OnlyCloser ==
  ASSUME StopInv, NEW k \in Callers, call[k] = "buffer"
  PROVE  /\ ~routerClosed
         /\ \A j \in Callers \ {k} : closing[j] = "idle" /\ ~Signalled(j)
BY DEF StopInv, Signalled

LEMMA StopInit == Init => StopInv
BY DEF Init, B!Init, StopInv, Signalled

LEMMA StopBeginsStep ==
  ASSUME TypeOK, StopInv, NEW k \in Callers, StopBegins(k)
  PROVE  StopInv'
<1>1. /\ call[k] = "idle" /\ call' = [call EXCEPT ![k] = "signal"]
      /\ UNCHANGED <<stopClosed, routerClosed, late, loop>>
      /\ UNCHANGED <<closed, batchesClosed, closing>>
  BY DEF StopBegins, bufferVars, fixed
<1>2. \A j \in Callers : /\ Signalled(j)' => Signalled(j)
                         /\ call'[j] = "buffer" <=> call[j] = "buffer"
  BY <1>1 DEF TypeOK, Signalled
<1> QED  BY <1>1, <1>2 DEF StopInv, Active

\* The first to close stopChan is the only one past it.
LEMMA StopSignalsStep ==
  ASSUME TypeOK, StopInv, NEW k \in Callers, StopSignals(k)
  PROVE  StopInv'
<1>1. /\ call[k] = "signal" /\ stopClosed'
      /\ call' = [call EXCEPT ![k] = IF stopClosed THEN "panicked" ELSE "wait"]
      /\ UNCHANGED <<routerClosed, late, loop>>
      /\ UNCHANGED <<closed, batchesClosed, closing>>
  BY DEF StopSignals, bufferVars, fixed
<1>2. /\ \A j \in Callers \ {k} : call'[j] = call[j]
      /\ call'[k] = IF stopClosed THEN "panicked" ELSE "wait"
  BY <1>1 DEF TypeOK
<1>3. ~stopClosed => ~routerClosed /\ \A j \in Callers : ~Signalled(j)
  BY DEF StopInv
<1>4. \A j \in Callers : Signalled(j)' => ~routerClosed'
  BY <1>1, <1>2, <1>3 DEF StopInv, Signalled
<1>5. \A i, j \in Callers : Signalled(i)' /\ Signalled(j)' => i = j
  BY <1>1, <1>2, <1>3 DEF StopInv, Signalled
<1>6. \A j \in Callers : call'[j] = "buffer" <=> call[j] = "buffer"
  BY <1>1, <1>2
<1> QED  BY <1>1, <1>4, <1>5, <1>6 DEF StopInv, Active

LEMMA StopWaitsStep ==
  ASSUME TypeOK, StopInv, NEW k \in Callers, StopWaits(k)
  PROVE  StopInv'
<1>1. /\ call[k] = "wait" /\ \A l \in Loops : ~Active(l)
      /\ call' = [call EXCEPT ![k] = "buffer"]
      /\ UNCHANGED <<stopClosed, routerClosed, late, loop>>
      /\ UNCHANGED <<closed, batchesClosed, closing>>
  BY DEF StopWaits, bufferVars, fixed
<1>2. /\ \A j \in Callers \ {k} : call'[j] = call[j]
      /\ call'[k] = "buffer"
  BY <1>1 DEF TypeOK
<1>3. \A j \in Callers : /\ Signalled(j)' <=> Signalled(j)
                         /\ call[j] = "buffer" => call'[j] = "buffer"
  BY <1>1, <1>2 DEF Signalled
<1>4. \A l \in Loops : ~Active(l)'
  BY <1>1 DEF Active
<1> QED  BY <1>1, <1>3, <1>4 DEF StopInv

LEMMA StopClosesBufferStep ==
  ASSUME BufferInv, StopInv, NEW k \in Callers, StopClosesBuffer(k)
  PROVE  StopInv'
<1>1. /\ call[k] = "buffer"
      /\ UNCHANGED <<call, stopClosed, routerClosed, late, loop>>
  BY CloseEffect DEF lifeVars, fixed
<1>2. closing \in [Callers -> {"idle", "waiting", "returned"}]
  BY BufferFacts
<1>3. ~routerClosed /\ \A j \in Callers \ {k} : closing[j] = "idle" /\ ~Signalled(j)
  BY <1>1, OnlyCloser
<1>4. \E to \in {"waiting", "returned"} : closing' = [closing EXCEPT ![k] = to]
  BY CloseEffect
<1>5. /\ closing'[k] # "idle"
      /\ \A j \in Callers \ {k} : closing'[j] = "idle"
  BY <1>2, <1>3, <1>4
<1>6. closing'[k] = "returned" => batchesClosed'
  <2>1. CASE closing' = [closing EXCEPT ![k] = "waiting"]
    BY <1>2, <2>1
  <2>2. CASE closing[k] = "idle" /\ closed
    BY <1>3, <2>2 DEF StopInv
  <2>3. CASE batchesClosed'
    BY <2>3
  <2> QED  BY <2>1, <2>2, <2>3, CloseEffect
<1>7. \A j \in Callers : Signalled(j)' <=> Signalled(j)
  BY <1>1 DEF Signalled
<1> QED  BY <1>1, <1>3, <1>5, <1>6, <1>7 DEF StopInv, Active

LEMMA StopClosesRouterStep ==
  ASSUME TypeOK, StopInv, NEW k \in Callers, StopClosesRouter(k)
  PROVE  StopInv'
<1>1. /\ call[k] = "buffer" /\ closing[k] = "returned" /\ routerClosed'
      /\ call' = [call EXCEPT ![k] = "idle"]
      /\ UNCHANGED <<stopClosed, late, loop>>
      /\ UNCHANGED <<closed, batchesClosed, closing>>
  BY DEF StopClosesRouter, bufferVars, fixed
<1>2. \A j \in Callers : ~Signalled(j)'
  BY <1>1, OnlyCloser DEF TypeOK, Signalled
<1>3. stopClosed /\ batchesClosed /\ \A l \in Loops \ late : ~Active(l)
  BY <1>1 DEF StopInv, Signalled
<1> QED  BY <1>1, <1>2, <1>3 DEF StopInv, Signalled, Active

\* A loop launched after the stop signal is late.
LEMMA StartReturnsStep ==
  ASSUME TypeOK, StopInv, NEW k \in Callers, NEW l \in Loops, StartReturns(k, l)
  PROVE  StopInv'
<1>1. /\ call[k] = "starting" /\ call' = [call EXCEPT ![k] = "idle"]
      /\ loop' = [loop EXCEPT ![l] = "select"]
      /\ late' = IF stopClosed THEN late \cup {l} ELSE late
      /\ UNCHANGED <<stopClosed, routerClosed>>
      /\ UNCHANGED <<closed, batchesClosed, closing>>
  BY DEF StartReturns, bufferVars
<1>2. \A j \in Callers : /\ Signalled(j)' <=> Signalled(j)
                         /\ call'[j] = "buffer" <=> call[j] = "buffer"
  BY <1>1 DEF TypeOK, Signalled
<1>3. \A j \in Loops \ {l} : Active(j)' <=> Active(j)
  BY <1>1 DEF TypeOK, Active
<1>4. CASE stopClosed
  BY <1>1, <1>2, <1>3, <1>4 DEF StopInv
<1>5. CASE ~stopClosed
  <2>1. ~routerClosed /\ \A j \in Callers : ~Signalled(j)
    BY <1>5 DEF StopInv
  <2>2. \A j \in Callers : call[j] # "buffer"
    BY <2>1 DEF Signalled
  <2> QED  BY <1>1, <1>2, <2>1, <2>2 DEF StopInv
<1> QED  BY <1>4, <1>5

LEMMA StopInvStep == BufferInv /\ TypeOK /\ StopInv /\ [Next]_vars => StopInv'
<1> SUFFICES ASSUME BufferInv, TypeOK, StopInv, [Next]_vars PROVE StopInv'
  OBVIOUS
<1> USE DEF fixed, lifeVars
<1>1. ASSUME NEW a \in Adders, AddEntry(a) PROVE StopInv'
  BY <1>1, AddEntryEffect, StopKept DEF Active
<1>2. CASE BatchProcessor
  BY <1>2, BatchProcessorEffect, StopKept DEF Active
<1>3. CASE Cancel
  BY <1>3, StopKept DEF Cancel, bufferVars, Active
<1>4. ASSUME NEW k \in Callers, StopBegins(k) PROVE StopInv'
  BY <1>4, StopBeginsStep
<1>5. ASSUME NEW k \in Callers, StopStep(k) PROVE StopInv'
  BY <1>5, StopSignalsStep, StopWaitsStep, StopClosesBufferStep, StopClosesRouterStep
  DEF StopStep
<1>6. ASSUME NEW k \in Callers, NEW l \in Loops, StartBegins(k, l) PROVE StopInv'
  <2>1. /\ call[k] = "idle" /\ call' = [call EXCEPT ![k] = "starting"]
        /\ loop' = [loop EXCEPT ![l] = "starting"]
        /\ UNCHANGED <<stopClosed, routerClosed, late>>
        /\ UNCHANGED <<closed, batchesClosed, closing>>
    BY <1>6 DEF StartBegins, bufferVars
  <2>2. \A j \in Callers : /\ Signalled(j)' <=> Signalled(j)
                           /\ call'[j] = "buffer" <=> call[j] = "buffer"
    BY <2>1 DEF TypeOK, Signalled
  <2>3. \A j \in Loops : Active(j)' => Active(j)
    BY <2>1 DEF TypeOK, Active
  <2> QED  BY <2>1, <2>2, <2>3 DEF StopInv
<1>7. ASSUME NEW k \in Callers, NEW l \in Loops, StartReturns(k, l) PROVE StopInv'
  BY <1>7, StartReturnsStep
<1>8. ASSUME NEW l \in Loops, LoopStep(l) PROVE StopInv'
  <2>1. UNCHANGED <<call, stopClosed, routerClosed, late>>
    BY <1>8 DEF LoopStep, LoopExits, TakeBatch, ProcessEntry, BatchProcessed, RouteReturns
  <2>2. UNCHANGED <<closed, batchesClosed, closing>>
    BY <1>8, BatchTaken
    DEF LoopStep, LoopExits, TakeBatch, ProcessEntry, BatchProcessed, RouteReturns, bufferVars
  <2>3. loop[l] \in {"select", "process", "route"} /\ \A j \in Loops \ {l} : loop'[j] = loop[j]
    BY <1>8 DEF LoopStep, LoopExits, TakeBatch, ProcessEntry, BatchProcessed, RouteReturns, TypeOK
  <2> QED  BY <2>1, <2>2, <2>3, StopKept DEF Active
<1>9. CASE UNCHANGED vars
  BY <1>9, StopKept DEF vars, bufferVars, Active
<1>10. ASSUME NEW c \in Contents, Expire(c) PROVE StopInv'
  BY <1>10, StopKept DEF Expire, bufferVars, Active
<1> QED
  BY <1>1, <1>2, <1>3, <1>4, <1>5, <1>6, <1>7, <1>8, <1>9, <1>10 DEF Next

LEMMA ProcessorInvStep == ProcessorInv /\ [Next]_vars => ProcessorInv'
BY BufferStep, ProcessorTypeStep, DedupStep, StopInvStep DEF ProcessorInv

LEMMA ProcessorInvInit == Init => ProcessorInv
BY BufferInit, ProcessorTypeInit, DedupInit, StopInit DEF ProcessorInv

\* Without a late loop nothing is half done once the router is closed.
LEMMA StopSettles == ProcessorInv => StopSettlesAllButQueued
<1> SUFFICES ASSUME ProcessorInv, routerClosed
             PROVE  /\ \A l \in Loops \ late : ~Active(l)
                    /\ late = {} => 1..accepted = Processed \cup dropped \cup B!Queued
  BY DEF StopSettlesAllButQueued
<1>1. /\ batchesClosed /\ \A l \in Loops \ late : ~Active(l)
      /\ BufferInv /\ TypeOK
  BY DEF ProcessorInv, StopInv
<1>2. ASSUME late = {} PROVE Processed = Range(delivered)
  <2>1. \A l \in Loops : rest[l] = <<>>
    BY <1>1, <1>2 DEF TypeOK, Active
  <2> QED  BY <2>1, EmptyRange DEF Processed, InBatch
<1>3. 1..accepted = Range(delivered) \cup dropped \cup B!Queued
  BY <1>1, BufferFacts
<1> QED  BY <1>1, <1>2, <1>3

\* When Stop has closed the router, no loop uses it but one launched after the stop
\* signal, and without one every accepted entry was processed, or counted as dropped, or
\* sits in a batch that b.batches still holds: for any callers of Start and Stop.
THEOREM StopSettlesAllButQueuedHolds == Spec => []StopSettlesAllButQueued
BY ProcessorInvInit, ProcessorInvStep, StopSettles, PTL DEF Spec

\* The processor drives its buffer as Buffer says it may be driven: every step of the
\* processor is a step of Buffer or leaves the buffer alone.
THEOREM ProcessorDrivesBuffer == Spec => B!Spec
<1>1. Init => B!Init
  BY DEF Init
<1>2. [Next]_vars => [B!Next]_(B!vars)
  BY BufferSteps DEF vars, bufferVars, B!vars
<1> QED  BY <1>1, <1>2, PTL DEF Spec, B!Spec

\* Inside the processor, too, the buffer is a lossy FIFO queue: the loops, however many
\* there are and wherever Stop finds them, get its entries oldest first, and what it drops
\* are runs of neighbours.
THEOREM ProcessorFedByFifo == Spec => BP!ImplementsLossyFifo
<1>1. Init => BP!Init
  BY DEF Init, B!Init, BP!Init
<1>2. [Next]_vars => [BP!Next]_(BP!vars)
  <2>1. B!Next => BP!Next
    BY SameSteps DEF B!Next, BP!Next
  <2> QED  BY <2>1, BufferSteps DEF vars, bufferVars, BP!vars
<1>3. Spec => BP!Spec
  BY <1>1, <1>2, PTL DEF Spec, BP!Spec
<1>4. BP!Spec => BP!ImplementsLossyFifo
  BY BP!BufferImplementsLossyFifo, ProcessorAssumption
<1> QED  BY <1>3, <1>4, PTL

-----------------------------------------------------------------------------
(* The server.  Main alone calls Start and Stop, and starts one loop. *)

LEMMA OneMain == Main \in Callers /\ 1 \in Loops /\ Loops = {1}
BY ServerAssumption DEF Loops

\* A step of the server is one of the processor, or leaves it alone.
LEMMA ServerSteps == [ServerNext]_serverVars => [Next]_vars
<1> SUFFICES ASSUME [ServerNext]_serverVars PROVE Next \/ UNCHANGED vars
  OBVIOUS
<1>1. ASSUME NEW r \in Requests, NEW body \in Bodies, RequestArrives(r, body)
      PROVE  UNCHANGED vars
  BY <1>1 DEF RequestArrives, processorVars
<1>2. ASSUME NEW r \in Requests, Handler(r) PROVE Next \/ UNCHANGED vars
  BY <1>2 DEF Handler, HandlerAdds, HandlerAnswers, Next, Requests, processorVars
<1>3. CASE Background
  BY <1>3, OneMain DEF Background, Next
<1>4. CASE MainStep
  <2>1. MainStarts => Next
    BY OneMain DEF MainStarts, Next
  <2>2. MainStops => Next
    BY OneMain DEF MainStops, Next
  <2>3. MainListens \/ ShutdownBegins \/ ShutdownReturns => UNCHANGED vars
    BY DEF MainListens, ShutdownBegins, ShutdownReturns, MainReturns, processorVars
  <2> QED  BY <1>4, <2>1, <2>2, <2>3 DEF MainStep
<1>5. CASE ServerFails \/ ShutdownTimesOut
  BY <1>5 DEF ServerFails, ShutdownTimesOut, MainReturns, processorVars
<1>6. CASE SignalArrives
  BY <1>6 DEF SignalArrives, Next
<1>7. CASE UNCHANGED serverVars
  BY <1>7 DEF serverVars, processorVars
<1> QED  BY <1>1, <1>2, <1>3, <1>4, <1>5, <1>6, <1>7 DEF ServerNext

\* What is proved of the processor for any callers holds in the server.
THEOREM ServerRunsProcessor == ServerSpec => Spec
<1>1. ServerInit => Init
  BY DEF ServerInit
<1> QED  BY <1>1, ServerSteps, PTL DEF ServerSpec, Spec

-----------------------------------------------------------------------------
(* The inductive invariant of the server. *)

\* The counters are about the entries that the buffer accepted from the request.
AnswerInv ==
  \A r \in Requests :
    /\ mine[r] \subseteq 1..accepted
    /\ processed[r] = Cardinality(mine[r])
    /\ handler[r] \in {"success", "partial"} =>
         /\ processed[r] + errors[r] = logs[r]
         /\ handler[r] = "success" <=> errors[r] = 0

\* Nobody stops the processor before the server listens, and main goes on to Shutdown
\* only when Stop has closed the router.
MainInv ==
  /\ main = "starting" => ~stopClosed
  /\ late = {}
  /\ main \in {"stopped", "waiting"} \/ exit = "ok" => routerClosed
  /\ exit = "ok" => main = "exited" /\ \A r \in Requests : handler[r] # "adding"

ServerInv == ProcessorInv /\ ServerTypeOK /\ AnswerInv /\ MainInv

-----------------------------------------------------------------------------
(* Steps of the server. *)

\* One call of AddEntry: it passes the check, accepts the entry, or ends without.
LEMMA AddOutcome ==
  ASSUME BufferInv, NEW r \in Adders, AddEntry(r)
  PROVE  /\ \A q \in Adders \ {r} : adding'[q] = adding[q]
         /\ \/ adding'[r] = "checked" /\ accepted' = accepted
            \/ /\ adding'[r] = "idle" /\ result'[r] = "ok"
               /\ ~closed /\ accepted < MaxEntries /\ accepted' = accepted + 1
            \/ /\ adding'[r] = "idle" /\ result'[r] \in {"full", "closed", "panic"}
               /\ accepted' = accepted
<1>1. /\ adding \in [Adders -> {"idle", "checked"}]
      /\ result \in [Adders -> BP!Results]
  BY DEF BufferInv, BP!TypeInv, BP!TypeOK
<1> QED
  BY <1>1 DEF AddEntry, B!AddStep, B!AddRefused, B!AddChecked, B!AddSend, B!AddFull,
              B!AddPanics, B!AddReturns

\* Nothing else accepts an entry.
LEMMA NotAdding ==
  ASSUME NEW k \in Callers, NEW l \in Loops,
         \/ BatchProcessor \/ LoopStep(l) \/ Cancel \/ \E c \in Contents : Expire(c)
         \/ StartBegins(k, l) \/ StartReturns(k, l) \/ StopBegins(k) \/ StopStep(k)
  PROVE  UNCHANGED <<accepted, adding>>
<1>1. CASE BatchProcessor
  BY <1>1 DEF BatchProcessor, B!WorkerStep, B!Receive, B!ReceiveClosed, B!Tick, B!FlushSend,
              B!FlushDrop, B!callVars
<1>2. CASE LoopStep(l)
  BY <1>2 DEF LoopStep, LoopExits, TakeBatch, ProcessEntry, BatchProcessed, RouteReturns,
              B!ReceiveBatch, B!callVars, bufferVars
<1>3. CASE \/ Cancel \/ StartBegins(k, l) \/ StartReturns(k, l) \/ StopBegins(k)
           \/ \E c \in Contents : Expire(c)
  BY <1>3 DEF Cancel, Expire, StartBegins, StartReturns, StopBegins, bufferVars
<1>4. CASE StopStep(k)
  BY <1>4 DEF StopStep, StopSignals, StopWaits, StopClosesRouter, StopClosesBuffer,
              B!CloseStep, B!CloseBuffer, B!CloseAgain, B!CloseBatches, B!callVars, bufferVars
<1> QED  BY <1>1, <1>2, <1>3, <1>4

\* The steps that are not a handler's leave the requests and the buffer's intake alone.
LEMMA RequestsKept ==
  ASSUME \/ Background \/ MainStep \/ ServerFails \/ SignalArrives \/ ShutdownTimesOut
         \/ UNCHANGED serverVars
  PROVE  UNCHANGED <<requestVars, accepted, adding>>
<1>1. CASE Background
  BY <1>1, OneMain, NotAdding DEF Background
<1>2. CASE MainStarts \/ MainStops
  BY <1>2, OneMain, NotAdding DEF MainStarts, MainStops
<1>3. CASE SignalArrives
  BY <1>3, OneMain, NotAdding DEF SignalArrives
<1>4. CASE UNCHANGED processorVars /\ UNCHANGED requestVars
  BY <1>4 DEF processorVars, vars, bufferVars
<1>5. MainListens \/ ShutdownBegins \/ ShutdownReturns \/ ServerFails \/ ShutdownTimesOut
        => UNCHANGED processorVars /\ UNCHANGED requestVars
  BY DEF MainListens, ShutdownBegins, ShutdownReturns, ServerFails, ShutdownTimesOut, MainReturns
<1> QED  BY <1>1, <1>2, <1>3, <1>4, <1>5 DEF MainStep, serverVars

\* What a handler makes of a call of AddEntry.
LEMMA HandlerAddsEffect ==
  ASSUME BufferInv, ServerTypeOK, NEW r \in Requests, HandlerAdds(r)
  PROVE  /\ handler[r] = "adding" /\ processed[r] + errors[r] < logs[r]
         /\ UNCHANGED <<mainVars, logs>> /\ accepted' \in {accepted, accepted + 1}
         /\ accepted' # accepted => accepted < MaxEntries /\ ~closed
         /\ \A q \in Requests \ {r} :
              /\ processed'[q] = processed[q] /\ errors'[q] = errors[q]
              /\ mine'[q] = mine[q] /\ handler'[q] = handler[q] /\ adding'[q] = adding[q]
         /\ \/ /\ adding'[r] = "checked" /\ accepted' = accepted
               /\ processed'[r] = processed[r] /\ errors'[r] = errors[r]
               /\ mine'[r] = mine[r] /\ handler'[r] = "adding"
            \/ /\ adding'[r] = "idle" /\ accepted' = accepted + 1
               /\ processed'[r] = processed[r] + 1 /\ errors'[r] = errors[r]
               /\ mine'[r] = mine[r] \cup {accepted'} /\ handler'[r] = "adding"
            \/ /\ adding'[r] = "idle" /\ accepted' = accepted
               /\ processed'[r] = processed[r] /\ errors'[r] \in {errors[r], errors[r] + 1}
               /\ mine'[r] = mine[r] /\ handler'[r] \in {"adding", "failed"}
         /\ processed' = [processed EXCEPT ![r] = processed'[r]]
         /\ errors' = [errors EXCEPT ![r] = errors'[r]]
         /\ mine' = [mine EXCEPT ![r] = mine'[r]]
         /\ handler' = [handler EXCEPT ![r] = handler'[r]]
<1> USE DEF Requests
<1>1. /\ handler[r] = "adding" /\ processed[r] + errors[r] < logs[r]
      /\ AddEntry(r) /\ UNCHANGED <<mainVars, logs>>
      /\ adding'[r] = "checked" => UNCHANGED <<processed, errors, mine, handler>>
      /\ adding'[r] # "checked" => Account(r, result'[r])
  BY DEF HandlerAdds
<1>2. /\ processed \in [Requests -> 0..MaxLogs] /\ errors \in [Requests -> 0..MaxLogs]
      /\ mine \in [Requests -> SUBSET (1..MaxEntries)]
      /\ handler \in [Requests -> {"none", "adding", "rejected", "success", "partial", "failed"}]
  BY DEF ServerTypeOK
<1>3. \A q \in Requests \ {r} : adding'[q] = adding[q]
  BY <1>1, AddOutcome
<1>4. CASE adding'[r] = "checked"
  <2>1. accepted' = accepted
    BY <1>1, <1>4, AddOutcome
  <2> QED  BY <1>1, <1>2, <1>3, <1>4, <2>1
<1>5. CASE adding'[r] # "checked"
  <2>1. /\ processed' = [processed EXCEPT ![r] = IF result'[r] = "ok" THEN @ + 1 ELSE @]
        /\ errors' = [errors EXCEPT ![r] = IF result'[r] \in {"full", "closed"} THEN @ + 1 ELSE @]
        /\ mine' = [mine EXCEPT ![r] = IF result'[r] = "ok" THEN @ \cup {accepted'} ELSE @]
        /\ handler' = [handler EXCEPT ![r] = IF result'[r] = "panic" THEN "failed" ELSE @]
    BY <1>1, <1>5 DEF Account
  <2>2. /\ \A q \in Requests \ {r} : /\ processed'[q] = processed[q] /\ errors'[q] = errors[q]
                                     /\ mine'[q] = mine[q] /\ handler'[q] = handler[q]
        /\ processed'[r] = IF result'[r] = "ok" THEN processed[r] + 1 ELSE processed[r]
        /\ errors'[r] = IF result'[r] \in {"full", "closed"} THEN errors[r] + 1 ELSE errors[r]
        /\ mine'[r] = IF result'[r] = "ok" THEN mine[r] \cup {accepted'} ELSE mine[r]
        /\ handler'[r] = IF result'[r] = "panic" THEN "failed" ELSE "adding"
    BY <1>1, <1>2, <2>1
  <2>3. /\ processed' = [processed EXCEPT ![r] = processed'[r]]
        /\ errors' = [errors EXCEPT ![r] = errors'[r]]
        /\ mine' = [mine EXCEPT ![r] = mine'[r]]
        /\ handler' = [handler EXCEPT ![r] = handler'[r]]
    BY <1>2, <2>1, <2>2
  <2>4. \/ /\ adding'[r] = "idle" /\ result'[r] = "ok" /\ accepted' = accepted + 1
           /\ accepted < MaxEntries /\ ~closed
        \/ /\ adding'[r] = "idle" /\ result'[r] \in {"full", "closed", "panic"}
           /\ accepted' = accepted
    BY <1>1, <1>5, AddOutcome
  <2>5. CASE /\ adding'[r] = "idle" /\ result'[r] = "ok" /\ accepted' = accepted + 1
             /\ accepted < MaxEntries /\ ~closed
    BY <1>1, <1>3, <2>2, <2>3, <2>5
  <2>6. CASE /\ adding'[r] = "idle" /\ result'[r] \in {"full", "closed", "panic"}
             /\ accepted' = accepted
    BY <1>1, <1>3, <2>2, <2>3, <2>6
  <2> QED  BY <2>4, <2>5, <2>6
<1> QED  BY <1>4, <1>5

\* A request that arrives has a number of entries.
LEMMA ArrivalEffect ==
  ASSUME NEW r \in Requests, NEW body \in Bodies, RequestArrives(r, body)
  PROVE  /\ handler[r] = "none"
         /\ \E n \in 0..MaxLogs :
              /\ logs' = [logs EXCEPT ![r] = n]
              /\ handler' = [handler EXCEPT ![r] = IF n = 0 THEN "rejected" ELSE "adding"]
         /\ UNCHANGED <<processorVars, mainVars, processed, errors, mine>>
<1>1. Parse(body) \in 0..MaxLogs /\ 0 \in 0..MaxLogs
  BY ServerAssumption DEF Parse, Bodies
<1>2. PICK readable \in BOOLEAN :
        LET n == IF readable THEN Parse(body) ELSE 0
        IN /\ handler' = [handler EXCEPT ![r] = IF n = 0 THEN "rejected" ELSE "adding"]
           /\ logs' = [logs EXCEPT ![r] = n]
  BY DEF RequestArrives
<1>3. (IF readable THEN Parse(body) ELSE 0) \in 0..MaxLogs
  BY <1>1
<1> QED  BY <1>2, <1>3 DEF RequestArrives

LEMMA ServerTypeInit == ServerInit => ServerTypeOK
<1> SUFFICES ASSUME ServerInit PROVE ServerTypeOK
  OBVIOUS
<1>1. TypeOK
  BY ProcessorTypeInit DEF ServerInit
<1>2. 0 \in 0..MaxLogs /\ 0 + 0 <= 0
  BY ServerAssumption
<1>3. \A r \in Requests : adding[r] = "idle"
  BY DEF ServerInit, Init, B!Init, Requests
<1> QED  BY <1>1, <1>2, <1>3 DEF ServerInit, ServerTypeOK

LEMMA ServerTypeStep ==
  BufferInv /\ ServerTypeOK /\ TypeOK' /\ [ServerNext]_serverVars => ServerTypeOK'
<1> SUFFICES ASSUME BufferInv, ServerTypeOK, TypeOK', [ServerNext]_serverVars
             PROVE  ServerTypeOK'
  OBVIOUS
<1>1. ASSUME NEW r \in Requests, NEW body \in Bodies, RequestArrives(r, body)
      PROVE  ServerTypeOK'
  <2>1. PICK n \in 0..MaxLogs :
          /\ logs' = [logs EXCEPT ![r] = n]
          /\ handler' = [handler EXCEPT ![r] = IF n = 0 THEN "rejected" ELSE "adding"]
    BY <1>1, ArrivalEffect
  <2>2. handler[r] = "none" /\ UNCHANGED <<mainVars, processed, errors, mine, adding>>
    BY <1>1, ArrivalEffect DEF processorVars, vars, bufferVars
  <2>3. /\ logs' \in [Requests -> 0..MaxLogs]
        /\ handler' \in [Requests -> {"none", "adding", "rejected", "success", "partial", "failed"}]
    BY <2>1 DEF ServerTypeOK
  <2>4. adding[r] # "checked"
    BY <2>2 DEF ServerTypeOK
  <2>5. \A q \in Requests \ {r} : handler'[q] = handler[q] /\ logs'[q] = logs[q]
    BY <2>1 DEF ServerTypeOK
  <2>6. processed[r] + errors[r] <= logs'[r] /\ handler'[r] # "none"
    <3>1. processed[r] + errors[r] <= 0
      BY <2>2 DEF ServerTypeOK
    <3>2. processed[r] \in Nat /\ errors[r] \in Nat /\ logs'[r] = n /\ n \in Nat
      BY <2>1, ServerAssumption DEF ServerTypeOK
    <3>3. handler'[r] \in {"rejected", "adding"}
      BY <2>1 DEF ServerTypeOK
    <3> QED  BY <3>1, <3>2, <3>3
  <2>7. \A q \in Requests : processed'[q] + errors'[q] <= logs'[q]
    BY <2>2, <2>5, <2>6 DEF ServerTypeOK
  <2>8. \A q \in Requests : adding'[q] = "checked" =>
          handler'[q] = "adding" /\ processed'[q] + errors'[q] < logs'[q]
    BY <2>2, <2>4, <2>5 DEF ServerTypeOK
  <2>9. \A q \in Requests : handler'[q] = "none" => logs'[q] = 0
    BY <2>5, <2>6 DEF ServerTypeOK
  <2> QED  BY <2>2, <2>3, <2>7, <2>8, <2>9 DEF ServerTypeOK, mainVars
<1>2. ASSUME NEW r \in Requests, HandlerAdds(r) PROVE ServerTypeOK'
  <2>1. /\ processed[r] \in 0..MaxLogs /\ errors[r] \in 0..MaxLogs /\ logs[r] \in 0..MaxLogs
        /\ processed[r] + errors[r] < logs[r] /\ mine[r] \in SUBSET (1..MaxEntries)
        /\ UNCHANGED <<mainVars, logs>>
    BY <1>2, HandlerAddsEffect DEF ServerTypeOK
  <2>2. accepted \in Nat /\ accepted <= MaxEntries /\ MaxEntries \in Nat /\ MaxLogs \in Nat
    BY BufferFacts, ProcessorAssumption, ServerAssumption
  <2>3. /\ processed'[r] \in 0..MaxLogs /\ errors'[r] \in 0..MaxLogs
        /\ processed'[r] + errors'[r] <= logs'[r]
        /\ adding'[r] = "checked" => handler'[r] = "adding" /\ processed'[r] + errors'[r] < logs'[r]
    BY <1>2, <2>1, <2>2, HandlerAddsEffect
  <2>4. mine'[r] \in SUBSET (1..MaxEntries)
    BY <1>2, <2>1, <2>2, HandlerAddsEffect
  <2>5. handler'[r] \in {"none", "adding", "rejected", "success", "partial", "failed"}
    BY <1>2, HandlerAddsEffect
  <2>6. /\ processed' = [processed EXCEPT ![r] = processed'[r]]
        /\ errors' = [errors EXCEPT ![r] = errors'[r]]
        /\ mine' = [mine EXCEPT ![r] = mine'[r]]
        /\ handler' = [handler EXCEPT ![r] = handler'[r]]
    BY <1>2, HandlerAddsEffect
  <2>7. /\ processed' \in [Requests -> 0..MaxLogs] /\ errors' \in [Requests -> 0..MaxLogs]
        /\ mine' \in [Requests -> SUBSET (1..MaxEntries)]
        /\ handler' \in [Requests -> {"none", "adding", "rejected", "success", "partial", "failed"}]
    BY <2>3, <2>4, <2>5, <2>6 DEF ServerTypeOK
  <2>8. ASSUME NEW q \in Requests \ {r}
        PROVE  /\ processed'[q] = processed[q] /\ errors'[q] = errors[q] /\ logs'[q] = logs[q]
               /\ handler'[q] = handler[q] /\ adding'[q] = adding[q]
    BY <1>2, HandlerAddsEffect
  <2>9. \A q \in Requests : processed'[q] + errors'[q] <= logs'[q]
    BY <2>3, <2>8 DEF ServerTypeOK
  <2>10. \A q \in Requests : adding'[q] = "checked" =>
           handler'[q] = "adding" /\ processed'[q] + errors'[q] < logs'[q]
    BY <2>3, <2>8 DEF ServerTypeOK
  <2>11. handler'[r] # "none"
    BY <1>2, HandlerAddsEffect
  <2>12. \A q \in Requests : handler'[q] = "none" => logs'[q] = 0
    BY <2>8, <2>11 DEF ServerTypeOK
  <2> QED  BY <2>1, <2>7, <2>9, <2>10, <2>12 DEF ServerTypeOK, mainVars
<1>3. ASSUME NEW r \in Requests, HandlerAnswers(r) PROVE ServerTypeOK'
  <2>1. /\ handler[r] = "adding" /\ processed[r] + errors[r] >= logs[r]
        /\ handler' = [handler EXCEPT ![r] = IF errors[r] > 0 THEN "partial" ELSE "success"]
        /\ UNCHANGED <<mainVars, logs, processed, errors, mine, adding>>
    BY <1>3 DEF HandlerAnswers, processorVars, vars, bufferVars
  <2>2. adding[r] # "checked"
    BY <2>1, ServerAssumption DEF ServerTypeOK
  <2> QED  BY <2>1, <2>2 DEF ServerTypeOK, mainVars
<1>4. CASE \/ Background \/ MainStep \/ ServerFails \/ SignalArrives \/ ShutdownTimesOut
           \/ UNCHANGED serverVars
  <2>1. UNCHANGED <<handler, logs, processed, errors, mine, adding>>
    BY <1>4, RequestsKept DEF requestVars
  <2>2. /\ main' \in {"starting", "serving", "stopping", "stopped", "waiting", "exited"}
        /\ exit' \in {"none", "ok", "error"}
        /\ accepting' \in BOOLEAN
    BY <1>4
    DEF Background, MainStep, MainStarts, MainListens, MainStops, ShutdownBegins, ShutdownReturns,
        MainReturns, ServerFails, SignalArrives, ShutdownTimesOut, serverVars, mainVars, ServerTypeOK
  <2> QED  BY <2>1, <2>2 DEF ServerTypeOK
<1> QED  BY <1>1, <1>2, <1>3, <1>4 DEF ServerNext, Handler

\* What the answer says, step by step.
LEMMA AnswerStep ==
  BufferInv /\ ServerTypeOK /\ AnswerInv /\ [ServerNext]_serverVars => AnswerInv'
<1> SUFFICES ASSUME BufferInv, ServerTypeOK, AnswerInv, [ServerNext]_serverVars
             PROVE  AnswerInv'
  OBVIOUS
<1>1. ASSUME NEW r \in Requests, NEW body \in Bodies, RequestArrives(r, body)
      PROVE  AnswerInv'
  <2>1. PICK n \in 0..MaxLogs :
          /\ logs' = [logs EXCEPT ![r] = n]
          /\ handler' = [handler EXCEPT ![r] = IF n = 0 THEN "rejected" ELSE "adding"]
    BY <1>1, ArrivalEffect
  <2>2. UNCHANGED <<processed, errors, mine, accepted>>
    BY <1>1, ArrivalEffect DEF processorVars, vars, bufferVars
  <2>3. \A q \in Requests \ {r} : handler'[q] = handler[q] /\ logs'[q] = logs[q]
    BY <2>1 DEF ServerTypeOK
  <2>4. handler'[r] \in {"rejected", "adding"}
    BY <2>1 DEF ServerTypeOK
  <2> QED  BY <2>2, <2>3, <2>4 DEF AnswerInv
<1>2. ASSUME NEW r \in Requests, HandlerAdds(r) PROVE AnswerInv'
  <2>1. accepted \in Nat /\ accepted' \in {accepted, accepted + 1}
    BY <1>2, BufferFacts, HandlerAddsEffect
  <2>2. 1..accepted \subseteq 1..accepted'
    BY <2>1
  <2>3. ASSUME NEW q \in Requests \ {r}
        PROVE  /\ processed'[q] = processed[q] /\ errors'[q] = errors[q] /\ logs'[q] = logs[q]
               /\ handler'[q] = handler[q] /\ mine'[q] = mine[q]
    BY <1>2, HandlerAddsEffect
  <2>4. handler'[r] \in {"adding", "failed"}
    BY <1>2, HandlerAddsEffect
  <2>5. mine'[r] \subseteq 1..accepted' /\ processed'[r] = Cardinality(mine'[r])
    <3>1. mine[r] \subseteq 1..accepted /\ processed[r] = Cardinality(mine[r])
      BY DEF AnswerInv
    <3>2. IsFiniteSet(mine[r])
      <4>1. IsFiniteSet(1..accepted)
        BY <2>1, FS_Interval
      <4> QED  BY <3>1, <4>1, FS_Subset
    <3>3. CASE mine'[r] = mine[r] /\ processed'[r] = processed[r]
      BY <2>2, <3>1, <3>3
    <3>4. CASE /\ mine'[r] = mine[r] \cup {accepted'} /\ accepted' = accepted + 1
               /\ processed'[r] = processed[r] + 1
      <4>1. accepted' \notin mine[r]
        BY <2>1, <3>1, <3>4
      <4>2. Cardinality(mine[r] \cup {accepted'}) = Cardinality(mine[r]) + 1
        BY <3>2, <4>1, FS_AddElement
      <4>3. accepted' \in 1..accepted'
        BY <2>1, <3>4
      <4> QED  BY <2>2, <3>1, <3>4, <4>2, <4>3
    <3> QED  BY <1>2, <3>3, <3>4, HandlerAddsEffect
  <2>6. \A q \in Requests : mine'[q] \subseteq 1..accepted' /\ processed'[q] = Cardinality(mine'[q])
    BY <2>2, <2>3, <2>5 DEF AnswerInv
  <2>7. \A q \in Requests : handler'[q] \in {"success", "partial"} =>
          /\ processed'[q] + errors'[q] = logs'[q]
          /\ handler'[q] = "success" <=> errors'[q] = 0
    BY <2>3, <2>4 DEF AnswerInv
  <2> QED  BY <2>6, <2>7 DEF AnswerInv
<1>3. ASSUME NEW r \in Requests, HandlerAnswers(r) PROVE AnswerInv'
  <2>1. /\ processed[r] + errors[r] >= logs[r]
        /\ handler' = [handler EXCEPT ![r] = IF errors[r] > 0 THEN "partial" ELSE "success"]
        /\ UNCHANGED <<logs, processed, errors, mine, accepted>>
    BY <1>3 DEF HandlerAnswers, processorVars, vars, bufferVars
  <2>2. \A q \in Requests \ {r} : handler'[q] = handler[q]
    BY <2>1 DEF ServerTypeOK
  <2>3. handler'[r] = IF errors[r] > 0 THEN "partial" ELSE "success"
    BY <2>1 DEF ServerTypeOK
  <2>4. processed[r] + errors[r] = logs[r] /\ (errors[r] > 0 <=> errors[r] # 0)
    <3>1. /\ processed[r] \in 0..MaxLogs /\ errors[r] \in 0..MaxLogs /\ logs[r] \in 0..MaxLogs
          /\ processed[r] + errors[r] <= logs[r] /\ MaxLogs \in Nat
      BY ServerAssumption DEF ServerTypeOK
    <3> QED  BY <2>1, <3>1
  <2> QED  BY <2>1, <2>2, <2>3, <2>4 DEF AnswerInv
<1>4. CASE \/ Background \/ MainStep \/ ServerFails \/ SignalArrives \/ ShutdownTimesOut
           \/ UNCHANGED serverVars
  BY <1>4, RequestsKept DEF requestVars, AnswerInv
<1> QED  BY <1>1, <1>2, <1>3, <1>4 DEF ServerNext, Handler

LEMMA AnswerInit == ServerInit => AnswerInv
<1>1. Cardinality({}) = 0
  BY FS_EmptySet
<1> QED  BY <1>1 DEF ServerInit, AnswerInv

\* Handlers and the goroutines of the processor do not run main.
LEMMA MainKept ==
  ASSUME \/ \E r \in Requests : HandlerAdds(r) \/ HandlerAnswers(r)
         \/ \E r \in Requests, body \in Bodies : RequestArrives(r, body)
         \/ Background \/ UNCHANGED serverVars
  PROVE  UNCHANGED <<mainVars, stopClosed, routerClosed, late>>
<1>1. ASSUME NEW r \in Requests, HandlerAdds(r)
      PROVE  UNCHANGED <<mainVars, stopClosed, routerClosed, late>>
  BY <1>1, AddEntryEffect DEF HandlerAdds, lifeVars, fixed, Requests
<1>2. ASSUME NEW r \in Requests, HandlerAnswers(r)
      PROVE  UNCHANGED <<mainVars, stopClosed, routerClosed, late>>
  BY <1>2 DEF HandlerAnswers, processorVars, vars, lifeVars
<1>3. ASSUME NEW r \in Requests, NEW body \in Bodies, RequestArrives(r, body)
      PROVE  UNCHANGED <<mainVars, stopClosed, routerClosed, late>>
  BY <1>3 DEF RequestArrives, processorVars, vars, lifeVars
<1>4. CASE Background
  <2>1. CASE BatchProcessor
    BY <1>4, <2>1, BatchProcessorEffect DEF Background, lifeVars, fixed
  <2>2. CASE LoopStep(1)
    BY <1>4, <2>2 DEF Background, LoopStep, LoopExits, TakeBatch, ProcessEntry, BatchProcessed,
                      RouteReturns, lifeVars, fixed
  <2>3. ASSUME NEW c \in Contents, Expire(c)
        PROVE  UNCHANGED <<mainVars, stopClosed, routerClosed, late>>
    BY <1>4, <2>3 DEF Background, Expire, lifeVars, fixed
  <2> QED  BY <1>4, <2>1, <2>2, <2>3 DEF Background
<1>5. CASE UNCHANGED serverVars
  BY <1>5 DEF serverVars, processorVars, vars, lifeVars
<1> QED  BY <1>1, <1>2, <1>3, <1>4, <1>5

\* Stop ends for main when the router is closed.
LEMMA MainStopsEffect ==
  ASSUME TypeOK, MainStops
  PROVE  /\ main = "stopping" /\ main' \in {"stopping", "stopped"}
         /\ UNCHANGED <<exit, handler, late>>
         /\ routerClosed => routerClosed'
         /\ main' = "stopped" => routerClosed'
<1>1. /\ main = "stopping" /\ UNCHANGED <<exit, handler>>
      /\ StopBegins(Main) \/ StopStep(Main)
      /\ main' = IF call'[Main] = "idle" THEN "stopped" ELSE "stopping"
  BY DEF MainStops, requestVars
<1>2. call \in [Callers -> {"idle", "starting", "signal", "wait", "buffer", "panicked"}]
  BY DEF TypeOK
<1>3. /\ late' = late /\ (routerClosed => routerClosed')
      /\ call'[Main] = "idle" => routerClosed'
  <2>1. CASE StopBegins(Main)
    BY <1>2, <2>1, OneMain DEF StopBegins, fixed
  <2>2. CASE StopSignals(Main)
    BY <1>2, <2>2, OneMain DEF StopSignals, fixed
  <2>3. CASE StopWaits(Main)
    BY <1>2, <2>3, OneMain DEF StopWaits, fixed
  <2>4. CASE StopClosesBuffer(Main)
    BY <1>2, <2>4, OneMain DEF StopClosesBuffer, lifeVars, fixed
  <2>5. CASE StopClosesRouter(Main)
    BY <1>2, <2>5, OneMain DEF StopClosesRouter, fixed
  <2> QED  BY <1>1, <2>1, <2>2, <2>3, <2>4, <2>5 DEF StopStep
<1> QED  BY <1>1, <1>3

LEMMA MainInit == ServerInit => MainInv
BY DEF ServerInit, Init, MainInv

LEMMA MainStepInv ==
  TypeOK /\ ServerTypeOK /\ MainInv /\ [ServerNext]_serverVars => MainInv'
<1> SUFFICES ASSUME TypeOK, ServerTypeOK, MainInv, [ServerNext]_serverVars PROVE MainInv'
  OBVIOUS
<1>1. CASE \/ \E r \in Requests : Handler(r)
           \/ \E r \in Requests, body \in Bodies : Alive /\ RequestArrives(r, body)
           \/ Background
  <2>1. UNCHANGED <<mainVars, stopClosed, routerClosed, late>> /\ Alive
    BY <1>1, MainKept DEF Handler, Background
  <2>2. exit # "ok"
    BY <2>1 DEF MainInv, Alive
  <2> QED  BY <2>1, <2>2 DEF MainInv, mainVars
<1>2. CASE MainStarts
  <2>1. /\ main = "starting" /\ UNCHANGED <<main, exit, handler, stopClosed, routerClosed>>
    BY <1>2 DEF MainStarts, StartBegins, StartReturns, mainVars, requestVars
  <2>2. late' = late
    BY <1>2, <2>1 DEF MainStarts, StartBegins, StartReturns, fixed, MainInv
  <2> QED  BY <2>1, <2>2 DEF MainInv
<1>3. CASE MainStops
  <2>1. exit # "ok"
    BY <1>3, MainStopsEffect DEF MainInv
  <2> QED  BY <1>3, <2>1, MainStopsEffect DEF MainInv
<1>4. CASE MainListens \/ ServerFails
  <2>1. UNCHANGED <<stopClosed, routerClosed, late, handler>>
    BY <1>4 DEF MainListens, ServerFails, requestVars, processorVars, vars, lifeVars
  <2> QED  BY <1>4, <2>1 DEF MainListens, ServerFails, MainInv
<1>5. CASE SignalArrives
  BY <1>5 DEF SignalArrives, Cancel, requestVars, fixed, MainInv
<1>6. CASE ShutdownBegins \/ ShutdownReturns \/ ShutdownTimesOut
  <2>1. UNCHANGED <<stopClosed, routerClosed, late, handler>>
    BY <1>6 DEF ShutdownBegins, ShutdownReturns, ShutdownTimesOut, MainReturns, requestVars,
                processorVars, vars, lifeVars
  <2> QED  BY <1>6, <2>1 DEF ShutdownBegins, ShutdownReturns, ShutdownTimesOut, MainReturns, MainInv
<1>7. CASE UNCHANGED serverVars
  BY <1>7, MainKept DEF serverVars, mainVars, requestVars, MainInv
<1> QED  BY <1>1, <1>2, <1>3, <1>4, <1>5, <1>6, <1>7 DEF ServerNext, MainStep

LEMMA ServerInvInit == ServerInit => ServerInv
BY ProcessorInvInit, ServerTypeInit, AnswerInit, MainInit DEF ServerInit, ServerInv

LEMMA ServerInvStep == ServerInv /\ [ServerNext]_serverVars => ServerInv'
<1> SUFFICES ASSUME ServerInv, [ServerNext]_serverVars PROVE ServerInv'
  OBVIOUS
<1>1. ProcessorInv'
  BY ServerSteps, ProcessorInvStep DEF ServerInv
<1>2. BufferInv /\ TypeOK /\ TypeOK'
  BY <1>1 DEF ServerInv, ProcessorInv
<1>3. ServerTypeOK' /\ AnswerInv' /\ MainInv'
  BY <1>2, ServerTypeStep, AnswerStep, MainStepInv DEF ServerInv
<1> QED  BY <1>1, <1>3 DEF ServerInv

-----------------------------------------------------------------------------
(* The server's properties. *)

\* The server keeps its shape, and HandleIngest counts no entry twice.
THEOREM ServerTypeCorrect == ServerSpec => []ServerTypeOK
<1>1. ServerInv => ServerTypeOK
  BY DEF ServerInv
<1> QED  BY <1>1, ServerInvInit, ServerInvStep, PTL DEF ServerSpec

\* The answer tells the client how many of its entries the buffer accepted, for any
\* number of requests of any size, whatever else adds, batches and closes.
THEOREM AnswerIsAccurateHolds == ServerSpec => []AnswerIsAccurate
<1>1. ServerInv => AnswerIsAccurate
  <2> SUFFICES ASSUME ServerInv, NEW r \in Requests, handler[r] \in {"success", "partial"}
               PROVE  /\ processed[r] = Cardinality(mine[r])
                      /\ errors[r] = logs[r] - Cardinality(mine[r])
                      /\ handler[r] = "success" <=> Cardinality(mine[r]) = logs[r]
    BY DEF AnswerIsAccurate
  <2>1. /\ processed[r] = Cardinality(mine[r])
        /\ processed[r] + errors[r] = logs[r]
        /\ handler[r] = "success" <=> errors[r] = 0
    BY DEF ServerInv, AnswerInv
  <2>2. processed[r] \in Nat /\ errors[r] \in Nat /\ logs[r] \in Nat
    BY ServerAssumption DEF ServerInv, ServerTypeOK
  <2>3. errors[r] = logs[r] - processed[r] /\ (errors[r] = 0 <=> processed[r] = logs[r])
    BY <2>1, <2>2
  <2> QED  BY <2>1, <2>3
<1> QED  BY <1>1, ServerInvInit, ServerInvStep, PTL DEF ServerSpec

\* When runServer returns nil, every request has its answer and every accepted entry was
\* processed, or counted as dropped, or sits in a batch nobody will receive.
THEOREM CleanExitSettlesHolds == ServerSpec => []CleanExitSettles
<1>1. ServerInv => CleanExitSettles
  <2> SUFFICES ASSUME ServerInv, exit = "ok"
               PROVE  /\ \A r \in Requests : handler[r] # "adding"
                      /\ 1..accepted = Processed \cup dropped \cup B!Queued
    BY DEF CleanExitSettles
  <2>1. routerClosed /\ late = {} /\ \A r \in Requests : handler[r] # "adding"
    BY DEF ServerInv, MainInv
  <2>2. StopSettlesAllButQueued
    BY StopSettles DEF ServerInv
  <2> QED  BY <2>1, <2>2 DEF StopSettlesAllButQueued
<1> QED  BY <1>1, ServerInvInit, ServerInvStep, PTL DEF ServerSpec

\* Once Stop has returned to runServer, the buffer accepts no entry any more, although
\* the HTTP server still serves.
THEOREM NothingAcceptedAfterStopHolds == ServerSpec => NothingAcceptedAfterStop
<1>1. ServerInv /\ [ServerNext]_serverVars
        => [accepted' # accepted => main \notin {"stopped", "waiting"}]_serverVars
  <2> SUFFICES ASSUME ServerInv, [ServerNext]_serverVars, accepted' # accepted
               PROVE  main \notin {"stopped", "waiting"}
    OBVIOUS
  <2>1. PICK r \in Requests : HandlerAdds(r)
    <3>1. ASSUME NEW r \in Requests, NEW body \in Bodies PROVE ~RequestArrives(r, body)
      BY ArrivalEffect DEF processorVars, vars, bufferVars
    <3>2. ASSUME NEW r \in Requests PROVE ~HandlerAnswers(r)
      BY DEF HandlerAnswers, processorVars, vars, bufferVars
    <3> QED  BY <3>1, <3>2, RequestsKept DEF ServerNext, Handler
  <2>2. ~closed
    BY <2>1, HandlerAddsEffect DEF ServerInv, ProcessorInv
  <2>3. batchesClosed => closed
    BY BufferFacts DEF ServerInv, ProcessorInv
  <2>4. routerClosed => batchesClosed
    BY DEF ServerInv, ProcessorInv, StopInv
  <2>5. main \in {"stopped", "waiting"} => routerClosed
    BY DEF ServerInv, MainInv
  <2> QED  BY <2>2, <2>3, <2>4, <2>5
<1> QED  BY <1>1, ServerInvInit, ServerInvStep, PTL DEF ServerSpec, NothingAcceptedAfterStop
=============================================================================
