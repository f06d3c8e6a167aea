------------------------------- MODULE Buffer -------------------------------
(***************************************************************************)
(* The in-memory ingestion buffer (pkg/ingestion/buffer.go): HTTP handlers *)
(* Add entries to a bounded channel, one batchProcessor goroutine groups   *)
(* them into batches on a second bounded channel, a consumer receives the  *)
(* batches, and Close shuts the whole thing down.                          *)
(*                                                                         *)
(* An entry is the number under which it entered b.buffer; what it says is *)
(* of no interest here.                                                    *)
(***************************************************************************)
EXTENDS Naturals, Sequences, FiniteSets, Functions

CONSTANTS
  Adders,        \* goroutines that call Add (one per request in progress)
  Closers,       \* goroutines that call Close
  BufferSize,    \* config.BufferSize: capacity of b.buffer
  MaxBatchSize,  \* config.MaxBatchSize
  BatchCap,      \* capacity of b.batches (100 in NewBuffer)
  MaxEntries     \* bound: entries accepted in one behaviour

ASSUME BufferAssumption ==
  /\ BufferSize \in Nat \ {0}
  /\ MaxBatchSize \in Nat \ {0}
  /\ BatchCap \in Nat \ {0}
  /\ MaxEntries \in Nat

VARIABLES
  closed,         \* b.closed; b.buffer is closed in the same critical section
  buffer,         \* b.buffer: entries sent and not yet received
  batch,          \* batchProcessor's local slice
  batches,        \* b.batches: batches sent and not yet received
  batchesClosed,  \* close(b.batches) has been called
  worker,         \* where batchProcessor is
  adding,         \* adding[a]: where a's call of Add is
  result,         \* result[a]: how a's last call of Add ended
  closing,        \* closing[c]: where c's call of Close is
  droppedEntries, \* the counter QueueDroppedEntriesTotal
  accepted,       \* history: how many entries entered b.buffer
  delivered,      \* history: the entries the consumer received, in order
  dropped         \* history: the entries of the batches flush gave up

procVars   == <<batch, batches, worker, droppedEntries, dropped>>
callVars   == <<adding, result>>
vars == <<closed, buffer, batch, batches, batchesClosed, worker, adding, result,
          closing, droppedEntries, accepted, delivered, dropped>>

Results == {"none", "ok", "full", "closed", "panic"}

Init ==
  /\ closed = FALSE
  /\ buffer = <<>>
  /\ batch = <<>>
  /\ batches = <<>>
  /\ batchesClosed = FALSE
  /\ worker = "select"
  /\ adding = [a \in Adders |-> "idle"]
  /\ result = [a \in Adders |-> "none"]
  /\ closing = [c \in Closers |-> "idle"]
  /\ droppedEntries = 0
  /\ accepted = 0
  /\ delivered = <<>>
  /\ dropped = {}

-----------------------------------------------------------------------------
(* Add: the closed flag is read under the lock, the send happens after it. *)

\* Add finds the buffer closed and returns the error.
AddRefused(a) ==
  /\ adding[a] = "idle"
  /\ closed
  /\ result' = [result EXCEPT ![a] = "closed"]
  /\ UNCHANGED <<closed, buffer, batchesClosed, adding, closing, accepted,
                 delivered, procVars>>

\* Add finds the buffer open and releases the lock.
AddChecked(a) ==
  /\ adding[a] = "idle"
  /\ accepted < MaxEntries
  /\ ~closed
  /\ adding' = [adding EXCEPT ![a] = "checked"]
  /\ UNCHANGED <<closed, buffer, batchesClosed, result, closing, accepted,
                 delivered, procVars>>

AddReturns(a, r) ==
  /\ adding[a] = "checked"
  /\ adding' = [adding EXCEPT ![a] = "idle"]
  /\ result' = [result EXCEPT ![a] = r]

\* The non-blocking send finds room.
AddSend(a) ==
  /\ AddReturns(a, "ok")
  /\ ~closed
  /\ Len(buffer) < BufferSize
  /\ accepted < MaxEntries
  /\ buffer' = Append(buffer, accepted + 1)
  /\ accepted' = accepted + 1
  /\ UNCHANGED <<closed, batchesClosed, closing, delivered, procVars>>

\* The non-blocking send finds the channel full.
AddFull(a) ==
  /\ AddReturns(a, "full")
  /\ ~closed
  /\ Len(buffer) >= BufferSize
  /\ UNCHANGED <<closed, buffer, batchesClosed, closing, accepted, delivered,
                 procVars>>

\* Close came between the check and the send: a send on a closed channel panics,
\* in a select with a default too.
AddPanics(a) ==
  /\ AddReturns(a, "panic")
  /\ closed
  /\ UNCHANGED <<closed, buffer, batchesClosed, closing, accepted, delivered,
                 procVars>>

-----------------------------------------------------------------------------
(* batchProcessor and its flush. *)

\* An entry arrives; a full batch is flushed before the next select.
Receive ==
  /\ worker = "select"
  /\ buffer # <<>>
  /\ buffer' = Tail(buffer)
  /\ batch' = Append(batch, Head(buffer))
  /\ worker' = IF Len(batch) + 1 >= MaxBatchSize THEN "flush" ELSE "select"
  /\ UNCHANGED <<closed, batches, batchesClosed, callVars, closing,
                 droppedEntries, accepted, delivered, dropped>>

\* The channel is closed and drained: a last flush, then return.
ReceiveClosed ==
  /\ worker = "select"
  /\ closed
  /\ buffer = <<>>
  /\ worker' = "lastFlush"
  /\ UNCHANGED <<closed, buffer, batch, batches, batchesClosed, callVars,
                 closing, droppedEntries, accepted, delivered, dropped>>

\* The ticker fires (on an empty batch flush does nothing).
Tick ==
  /\ worker = "select"
  /\ batch # <<>>
  /\ worker' = "flush"
  /\ UNCHANGED <<closed, buffer, batch, batches, batchesClosed, callVars,
                 closing, droppedEntries, accepted, delivered, dropped>>

\* Mutant of AfterFlush: the slice is not reset.
AfterFlush_KeepsBatch ==
  /\ worker \in {"flush", "lastFlush"}
  /\ worker' = IF worker = "flush" THEN "select" ELSE "done"
  /\ UNCHANGED batch

AfterFlush ==
  /\ worker \in {"flush", "lastFlush"}
  /\ worker' = IF worker = "flush" THEN "select" ELSE "done"
  /\ batch' = <<>>

\* The batch fits into b.batches, or there was nothing to flush.
FlushSend ==
  /\ AfterFlush
  /\ IF batch = <<>>
     THEN UNCHANGED batches
     ELSE /\ Len(batches) < BatchCap
          /\ batches' = Append(batches, batch)
  /\ UNCHANGED <<closed, buffer, batchesClosed, callVars, closing,
                 droppedEntries, accepted, delivered, dropped>>

\* Mutants of FlushDrop: the batch counts as one entry; the batch is counted and
\* then kept for the next flush; the send to b.batches blocks.
FlushDrop_CountsOne ==
  /\ AfterFlush
  /\ batch # <<>>
  /\ Len(batches) >= BatchCap
  /\ droppedEntries' = droppedEntries + 1
  /\ dropped' = dropped \cup Range(batch)
  /\ UNCHANGED <<closed, buffer, batches, batchesClosed, callVars, closing,
                 accepted, delivered>>

FlushDrop_KeepsBatch ==
  /\ worker = "flush"
  /\ worker' = "select"
  /\ Len(batches) >= BatchCap
  /\ droppedEntries' = droppedEntries + Len(batch)
  /\ dropped' = dropped \cup Range(batch)
  /\ UNCHANGED <<closed, buffer, batch, batches, batchesClosed, callVars, closing,
                 accepted, delivered>>

FlushDrop_Blocks == FALSE /\ UNCHANGED vars

\* b.batches is full: the batch is counted and forgotten.
FlushDrop ==
  /\ AfterFlush
  /\ batch # <<>>
  /\ Len(batches) >= BatchCap
  /\ droppedEntries' = droppedEntries + Len(batch)
  /\ dropped' = dropped \cup Range(batch)
  /\ UNCHANGED <<closed, buffer, batches, batchesClosed, callVars, closing,
                 accepted, delivered>>

-----------------------------------------------------------------------------
(* Close. *)

\* The critical section: the first caller sets the flag and closes b.buffer.
CloseBuffer(c) ==
  /\ closing[c] = "idle"
  /\ ~closed
  /\ closed' = TRUE
  /\ closing' = [closing EXCEPT ![c] = "waiting"]
  /\ UNCHANGED <<buffer, batchesClosed, callVars, accepted, delivered, procVars>>

\* Every later caller returns at once, whether or not the first has finished.
CloseAgain(c) ==
  /\ closing[c] = "idle"
  /\ closed
  /\ closing' = [closing EXCEPT ![c] = "returned"]
  /\ UNCHANGED <<closed, buffer, batchesClosed, callVars, accepted, delivered,
                 procVars>>

\* Mutant of CloseBatches: without wg.Wait.
CloseBatches_NoWait(c) ==
  /\ closing[c] = "waiting"
  /\ batchesClosed' = TRUE
  /\ closing' = [closing EXCEPT ![c] = "returned"]
  /\ UNCHANGED <<closed, buffer, callVars, accepted, delivered, procVars>>

\* wg.Wait returns once batchProcessor is done; then b.batches is closed.
CloseBatches(c) ==
  /\ closing[c] = "waiting"
  /\ worker = "done"
  /\ batchesClosed' = TRUE
  /\ closing' = [closing EXCEPT ![c] = "returned"]
  /\ UNCHANGED <<closed, buffer, callVars, accepted, delivered, procVars>>

-----------------------------------------------------------------------------
(* The consumer, on the channel GetBatch returned. *)

ReceiveBatch ==
  /\ batches # <<>>
  /\ batches' = Tail(batches)
  /\ delivered' = delivered \o Head(batches)
  /\ UNCHANGED <<closed, buffer, batch, batchesClosed, worker, callVars, closing,
                 droppedEntries, accepted, dropped>>

-----------------------------------------------------------------------------

AddStep(a) ==
  AddRefused(a) \/ AddChecked(a) \/ AddSend(a) \/ AddFull(a) \/ AddPanics(a)

WorkerStep == Receive \/ ReceiveClosed \/ Tick \/ FlushSend \/ FlushDrop

CloseStep(c) == CloseBuffer(c) \/ CloseAgain(c) \/ CloseBatches(c)

Next ==
  \/ \E a \in Adders : AddStep(a)
  \/ WorkerStep
  \/ \E c \in Closers : CloseStep(c)
  \/ ReceiveBatch

Spec == Init /\ [][Next]_vars
-----------------------------------------------------------------------------
(* Properties. *)

\* Every variable keeps its shape and every channel its capacity.
TypeOK ==
  /\ closed \in BOOLEAN
  /\ buffer \in Seq(Nat) /\ Len(buffer) <= BufferSize
  /\ batch \in Seq(Nat) /\ Len(batch) <= MaxBatchSize
  /\ batches \in Seq(Seq(Nat)) /\ Len(batches) <= BatchCap
  /\ batchesClosed \in BOOLEAN
  /\ worker \in {"select", "flush", "lastFlush", "done"}
  /\ adding \in [Adders -> {"idle", "checked"}]
  /\ result \in [Adders -> Results]
  /\ closing \in [Closers -> {"idle", "waiting", "returned"}]
  /\ droppedEntries \in Nat
  /\ accepted \in Nat /\ accepted <= MaxEntries
  /\ delivered \in Seq(Nat)
  /\ dropped \subseteq Nat

Entries(bs) == UNION {Range(bs[k]) : k \in DOMAIN bs}
Queued == Entries(batches)
Pending == Range(buffer) \cup Range(batch) \cup Queued

Increasing(s) == \A i, j \in DOMAIN s : i < j => s[i] < s[j]

\* The consumer sees entries in the order in which Add accepted them, each at most
\* once, whatever was dropped in between: batching and flushing never reorder.
DeliveredInOrder == Increasing(delivered)

\* No entry that Add accepted disappears without a trace: it was delivered, or its
\* batch was dropped by a flush, or it is still in one of the buffer's stages.
NoSilentLoss == 1..accepted = Range(delivered) \cup dropped \cup Pending

\* The metric tells the truth: QueueDroppedEntriesTotal is the number of entries that
\* were accepted and are neither delivered nor inside.
DropsAreCounted ==
  droppedEntries = Cardinality(1..accepted \ (Range(delivered) \cup Pending))

\* When Close has closed b.batches, batchProcessor will not send on it any more
\* (that would panic) and has left nothing behind in b.buffer or in its slice.
ClosedMeansDrained ==
  batchesClosed => worker = "done" /\ buffer = <<>> /\ batch = <<>>

\* The buffer is a lossy FIFO queue: its channels and batches are only a way of
\* storing the pending entries.
Fifo == INSTANCE LossyFifo WITH
  open <- ~closed, pending <- Pending, delivered <- Range(delivered), lost <- dropped

ImplementsLossyFifo == Fifo!Spec
\* Add reports a closed buffer by an error (buffer.go:69, and what
\* TestBuffer_Add_Closed expects): it does not panic.
AddNeverPanics == \A a \in Adders : result[a] # "panic"
=============================================================================
