----------------------------- MODULE Processor -----------------------------
(***************************************************************************)
(* The processor (pkg/processor/processor.go): it owns the ingestion buffer *)
(* (module Buffer, whose consumer and closer it is), runs processingLoop    *)
(* between Start and Stop, and hands what the profile rules and the         *)
(* deduplication let through to the router.                                 *)
(*                                                                          *)
(* An entry is its number in the buffer; content[n] is its message, to the   *)
(* engine's fingerprint, and Template[content[n]] the cluster the miner puts *)
(* it in: the clusters are fixed here and the clock is left out, both are in *)
(* module Dedup.  What is output is a set of pieces, each with the entry it  *)
(* is a copy of and the entry it was output for, so that copies differ.      *)
(* Route is seen from outside: it ends, with or without an error (Router).   *)
(***************************************************************************)
EXTENDS Naturals, Sequences, FiniteSets, Functions

CONSTANTS
  Adders, BufferSize, MaxBatchSize, BatchCap, MaxEntries, \* as in Buffer
  Callers,       \* goroutines that call Start and Stop (main is the only one)
  MaxStarts,     \* bound on the successful calls of Start
  Contents,      \* the messages of entries
  Ignored,       \* the contents that a profile rule drops
  Template,      \* Template[c]: what stands for the cluster of content c
  Bare,          \* the contents without tokens, which the miner has no cluster for
  Severe,        \* the entries that shouldPreserveContext finds severe
  ContextLines   \* config.ContextLines

ASSUME ProcessorAssumption ==
  /\ BufferSize \in Nat \ {0} /\ MaxBatchSize \in Nat \ {0} /\ BatchCap \in Nat \ {0}
  /\ MaxEntries \in Nat
  /\ Ignored \subseteq Contents /\ Bare \subseteq Contents
  /\ DOMAIN Template = Contents
  /\ \A c \in Bare, d \in Contents : Template[c] = Template[d] => c = d
  /\ Severe \subseteq 1..MaxEntries
  /\ ContextLines \in Nat
  /\ MaxStarts \in Nat

\* The processingLoop goroutines, numbered in the order of the Starts.
Loops == 1..MaxStarts

\* What is output: an entry as context before a severe one, the copy that GetContext
\* makes of the severe one, or an entry itself.
Pieces == [entry : 1..MaxEntries, of : 1..MaxEntries, as : {"before", "trigger", "itself"}]
Piece(m, n, role) == [entry |-> m, of |-> n, as |-> role]

VARIABLES
  closed, buffer, batch, batches, batchesClosed, worker, adding, result,
  closing, droppedEntries, accepted, delivered, dropped,  \* as in Buffer
  running,       \* p.running
  stopClosed,    \* p.stopChan is closed
  ctxDone,       \* the context given to Start is cancelled
  call,          \* call[k]: where k's call of Start or Stop is
  loop,          \* loop[l]: where processingLoop l is
  rest,          \* rest[l]: the entries of l's batch not yet processed
  out,           \* out[l]: l's outputEntries, till Route has them
  known,         \* the engine's fingerprint cache
  mined,         \* the templates of the engine's miner
  window,        \* the engine's context window
  routerClosed,  \* the router and its adapters are closed
  content,       \* content[n]: what entry n says; chosen once
  forgotten,     \* history: the contents whose fingerprint has expired
  evicted,       \* history: the templates that the miner has evicted
  submitted,     \* history: the pieces Route was called with
  late           \* history: the loops launched when stopChan was closed already

bufferVars == <<closed, buffer, batch, batches, batchesClosed, worker, adding,
                result, closing, droppedEntries, accepted, delivered, dropped>>
lifeVars   == <<running, stopClosed, ctxDone, call, routerClosed>>
engineVars == <<known, mined, window, forgotten, evicted>>
workVars   == <<rest, out, engineVars, submitted>>
fixed      == <<content, late>>
vars == <<bufferVars, lifeVars, workVars, loop, content, late>>

B == INSTANCE Buffer WITH Closers <- Callers

Init ==
  /\ B!Init
  /\ running = FALSE
  /\ stopClosed = FALSE
  /\ ctxDone = FALSE
  /\ call = [k \in Callers |-> "idle"]
  /\ loop = [l \in Loops |-> "none"]
  /\ rest = [l \in Loops |-> <<>>]
  /\ out = [l \in Loops |-> {}]
  /\ known = {} /\ mined = {} /\ window = <<>>
  /\ forgotten = {} /\ evicted = {}
  /\ routerClosed = FALSE
  /\ content \in [1..MaxEntries -> Contents]
  /\ submitted = {}
  /\ late = {}

-----------------------------------------------------------------------------
(* Start.  A second Start of a running processor returns an error and changes  *)
(* nothing.                                                                    *)

\* The critical section.
StartBegins(k, l) ==
  /\ call[k] = "idle"
  /\ ~running
  /\ loop[l] = "none" /\ \A j \in 1..(l - 1) : loop[j] # "none"
  /\ running' = TRUE
  /\ loop' = [loop EXCEPT ![l] = "starting"]
  /\ call' = [call EXCEPT ![k] = "starting"]
  /\ UNCHANGED <<bufferVars, workVars, stopClosed, ctxDone, routerClosed, fixed>>

\* After it: wg.Add(1) and the go statement.
StartReturns(k, l) ==
  /\ call[k] = "starting"
  /\ loop[l] = "starting"
  /\ loop' = [loop EXCEPT ![l] = "select"]
  /\ call' = [call EXCEPT ![k] = "idle"]
  /\ late' = IF stopClosed THEN late \cup {l} ELSE late
  /\ UNCHANGED <<bufferVars, workVars, running, stopClosed, ctxDone, routerClosed,
                 content>>

\* The owner of the context cancels it.
Cancel ==
  /\ ~ctxDone
  /\ ctxDone' = TRUE
  /\ UNCHANGED <<bufferVars, workVars, running, stopClosed, call, loop,
                 routerClosed, fixed>>

-----------------------------------------------------------------------------
(* Stop.  Stop of a processor that is not running returns nil and changes      *)
(* nothing.                                                                    *)

\* The critical section.
StopBegins(k) ==
  /\ call[k] = "idle"
  /\ running
  /\ running' = FALSE
  /\ call' = [call EXCEPT ![k] = "signal"]
  /\ UNCHANGED <<bufferVars, workVars, stopClosed, ctxDone, loop, routerClosed,
                 fixed>>

\* close(p.stopChan) panics when the channel is closed already.
StopSignals(k) ==
  /\ call[k] = "signal"
  /\ stopClosed' = TRUE
  /\ call' = [call EXCEPT ![k] = IF stopClosed THEN "panicked" ELSE "wait"]
  /\ UNCHANGED <<bufferVars, workVars, running, ctxDone, loop, routerClosed,
                 fixed>>

Active(l) == loop[l] \in {"select", "process", "route"}

\* Mutant of StopWaits: without wg.Wait.
StopWaits_NoWait(k) ==
  /\ call[k] = "wait"
  /\ call' = [call EXCEPT ![k] = "buffer"]
  /\ UNCHANGED <<bufferVars, workVars, running, stopClosed, ctxDone, loop,
                 routerClosed, fixed>>

\* wg.Wait: the loops whose wg.Add has happened are done.
StopWaits(k) ==
  /\ call[k] = "wait"
  /\ \A l \in Loops : ~Active(l)
  /\ call' = [call EXCEPT ![k] = "buffer"]
  /\ UNCHANGED <<bufferVars, workVars, running, stopClosed, ctxDone, loop,
                 routerClosed, fixed>>

\* buffer.Close, with its own steps.
StopClosesBuffer(k) ==
  /\ call[k] = "buffer"
  /\ B!CloseStep(k)
  /\ UNCHANGED <<lifeVars, workVars, loop, fixed>>

\* router.Close and dedup.Close; Stop returns.
StopClosesRouter(k) ==
  /\ call[k] = "buffer"
  /\ closing[k] = "returned"
  /\ routerClosed' = TRUE
  /\ call' = [call EXCEPT ![k] = "idle"]
  /\ UNCHANGED <<bufferVars, workVars, running, stopClosed, ctxDone, loop, fixed>>

-----------------------------------------------------------------------------
(* processingLoop and processBatch. *)

\* select takes ctx.Done, the stop channel or the closed b.batches.
LoopExits(l) ==
  /\ loop[l] = "select"
  /\ ctxDone \/ stopClosed \/ (batchesClosed /\ batches = <<>>)
  /\ loop' = [loop EXCEPT ![l] = "done"]
  /\ UNCHANGED <<bufferVars, lifeVars, workVars, fixed>>

\* select takes a batch; it may do so although the loop has been told to stop.
TakeBatch(l) ==
  /\ loop[l] = "select"
  /\ B!ReceiveBatch
  /\ loop' = [loop EXCEPT ![l] = "process"]
  /\ rest' = [rest EXCEPT ![l] = Head(batches)]
  /\ UNCHANGED <<lifeVars, out, engineVars, submitted, fixed>>

\* The last ContextLines entries of the window.
Recent == {window[i] : i \in {j \in DOMAIN window : j > Len(window) - ContextLines}}

\* GetContext
GetContext(n) == {Piece(m, n, "before") : m \in Recent} \cup {Piece(n, n, "trigger")}

\* The window holds the last 3 * ContextLines entries.
Slide(n) ==
  IF Len(window) < 3 * ContextLines THEN Append(window, n) ELSE Tail(Append(window, n))

\* What processEntry returns for an entry with a new fingerprint: its context, then
\* the entry, if it is severe; the entry, if its template is new; else nothing.
Emits(n) ==
  IF n \in Severe THEN GetContext(n) \cup {Piece(n, n, "itself")}
  ELSE IF content[n] \notin Bare /\ Template[content[n]] \in mined THEN {}
  ELSE {Piece(n, n, "itself")}

\* Mutant of Remember: the fingerprint is not added to the cache.
Remember_NoFingerprint(n) ==
  /\ mined' = IF content[n] \in Bare THEN mined ELSE mined \cup {Template[content[n]]}
  /\ window' = Slide(n)
  /\ UNCHANGED <<known, evicted, forgotten>>

\* What the engine keeps of it.  A new template may evict an older one from its leaf.
Remember(n) ==
  /\ known' = known \cup {content[n]}
  /\ window' = Slide(n)
  /\ IF content[n] \in Bare \/ Template[content[n]] \in mined THEN UNCHANGED <<mined, evicted>>
     ELSE \E lost \in {{}} \cup {{t} : t \in mined} :
            /\ mined' = (mined \ lost) \cup {Template[content[n]]}
            /\ evicted' = evicted \cup lost
  /\ UNCHANGED forgotten

\* Mutant of ProcessEntry: the rules are asked after the engine.
ProcessEntry_DedupFirst(l) ==
  /\ loop[l] = "process"
  /\ rest[l] # <<>>
  /\ rest' = [rest EXCEPT ![l] = Tail(@)]
  /\ LET n == Head(rest[l])
     IN \/ /\ content[n] \in known
           /\ UNCHANGED <<out, engineVars>>
        \/ /\ content[n] \notin known
           /\ out' = IF content[n] \in Ignored THEN out
                     ELSE [out EXCEPT ![l] = @ \cup Emits(n)]
           /\ Remember(n)
  /\ UNCHANGED <<bufferVars, lifeVars, loop, submitted, fixed>>

\* processEntry: a rule drops the entry, or its fingerprint is known, or the engine
\* remembers it from here on, whatever Route will say of what is output.
ProcessEntry(l) ==
  /\ loop[l] = "process"
  /\ rest[l] # <<>>
  /\ rest' = [rest EXCEPT ![l] = Tail(@)]
  /\ LET n == Head(rest[l])
     IN \/ /\ content[n] \in Ignored \cup known
           /\ UNCHANGED <<out, engineVars>>
        \/ /\ content[n] \notin Ignored \cup known
           /\ out' = [out EXCEPT ![l] = @ \cup Emits(n)]
           /\ Remember(n)
  /\ UNCHANGED <<bufferVars, lifeVars, loop, submitted, fixed>>

\* A fingerprint's time is over; Exists and cleanup no longer see it.
Expire(c) ==
  /\ c \in known
  /\ known' = known \ {c}
  /\ forgotten' = forgotten \cup {c}
  /\ UNCHANGED <<bufferVars, lifeVars, loop, rest, out, mined, window, evicted, submitted,
                 fixed>>

\* The batch is through: Route is called if there is anything to output.
BatchProcessed(l) ==
  /\ loop[l] = "process"
  /\ rest[l] = <<>>
  /\ loop' = [loop EXCEPT ![l] = IF out[l] = {} THEN "select" ELSE "route"]
  /\ submitted' = submitted \cup out[l]
  /\ out' = [out EXCEPT ![l] = {}]
  /\ UNCHANGED <<bufferVars, lifeVars, rest, engineVars, fixed>>

\* Mutant of RouteReturns: an error ends the loop.
RouteReturns_ExitsOnError(l, ok) ==
  /\ loop[l] = "route"
  /\ loop' = [loop EXCEPT ![l] = IF ok THEN "select" ELSE "done"]
  /\ UNCHANGED <<bufferVars, lifeVars, workVars, fixed>>

\* Route returns; an error is logged and the entries are gone either way.
RouteReturns(l, ok) ==
  /\ ok \in BOOLEAN
  /\ loop[l] = "route"
  /\ loop' = [loop EXCEPT ![l] = "select"]
  /\ UNCHANGED <<bufferVars, lifeVars, workVars, fixed>>

-----------------------------------------------------------------------------

\* AddEntry is the buffer's Add, with its own steps.
AddEntry(a) ==
  /\ B!AddStep(a)
  /\ UNCHANGED <<lifeVars, workVars, loop, fixed>>

\* The buffer's goroutine.
BatchProcessor ==
  /\ B!WorkerStep
  /\ UNCHANGED <<lifeVars, workVars, loop, fixed>>

LoopStep(l) ==
  \/ LoopExits(l)
  \/ TakeBatch(l)
  \/ ProcessEntry(l)
  \/ BatchProcessed(l)
  \/ \E ok \in BOOLEAN : RouteReturns(l, ok)

StopStep(k) ==
  StopSignals(k) \/ StopWaits(k) \/ StopClosesBuffer(k) \/ StopClosesRouter(k)

Next ==
  \/ \E a \in Adders : AddEntry(a)
  \/ BatchProcessor
  \/ Cancel
  \/ \E c \in Contents : Expire(c)
  \/ \E k \in Callers : StopBegins(k) \/ StopStep(k)
  \/ \E k \in Callers, l \in Loops : StartBegins(k, l) \/ StartReturns(k, l)
  \/ \E l \in Loops : LoopStep(l)

Spec == Init /\ [][Next]_vars

\* The Go scheduler runs the goroutines that can run, and Route ends.  Nothing is
\* assumed of those who call AddEntry, Start, Stop or cancel.
Fairness ==
  /\ WF_vars(BatchProcessor)
  /\ \A l \in Loops : WF_vars(LoopStep(l))
  /\ \A k \in Callers : WF_vars(\E l \in Loops : StartReturns(k, l))

LiveSpec == Spec /\ Fairness

-----------------------------------------------------------------------------
(* Properties. *)

\* Every variable keeps its shape, a loop holds entries only while it works on them,
\* and only the critical sections of Start and Stop decide who runs.
TypeOK ==
  /\ running \in BOOLEAN /\ stopClosed \in BOOLEAN /\ ctxDone \in BOOLEAN
  /\ call \in [Callers -> {"idle", "starting", "signal", "wait", "buffer", "panicked"}]
  /\ loop \in [Loops -> {"none", "starting", "select", "process", "route", "done"}]
  /\ rest \in [Loops -> Seq(1..MaxEntries)]
  /\ out \in [Loops -> SUBSET Pieces]
  /\ \A l \in Loops : rest[l] # <<>> \/ out[l] # {} => loop[l] = "process"
  /\ known \subseteq Contents /\ forgotten \subseteq Contents
  /\ window \in Seq(1..MaxEntries) /\ Len(window) <= 3 * ContextLines
  /\ routerClosed \in BOOLEAN
  /\ content \in [1..MaxEntries -> Contents]
  /\ submitted \subseteq Pieces
  /\ late \subseteq Loops

InBatch(l) == Range(rest[l])
Processed == Range(delivered) \ UNION {InBatch(l) : l \in Loops}
Output == submitted \cup UNION {out[l] : l \in Loops}

\* The entries that were, or will be, handed to Route for their own sake.
Examples == {n \in 1..MaxEntries : Piece(n, n, "itself") \in Output}
Alike(m, n) == Template[content[m]] = Template[content[n]]

\* Whatever batches and loops the entries came in, and whatever Stop, Cancel, an expiry
\* or an eviction do in between, an entry that a loop has dealt with was dropped by a rule
\* or has one of its template that Route was or will be called with.  (Not: that Route
\* succeeded with.)
EachIsRepresented ==
  \A n \in Processed : content[n] \in Ignored \/ \E m \in Examples : Alike(m, n)

\* A second entry of a template is output for its own sake only if one of the two is
\* severe, or the miner has no cluster for it or has evicted it; and a second one of the
\* same message only if its fingerprint has expired as well.
SecondExampleHasReason ==
  \A m, n \in Examples :
    m # n /\ Alike(m, n) =>
      /\ \/ m \in Severe \/ n \in Severe
         \/ content[m] \in Bare \/ Template[content[m]] \in evicted
      /\ content[m] = content[n] => content[m] \in forgotten

\* When Stop has closed the router, no loop is about to use it but one launched after
\* the stop signal (by a Start that overlaps with Stop or follows it).  Without such
\* a loop no batch is half done, and every accepted entry was processed or counted as
\* dropped, or sits in a batch that b.batches still holds.
StopSettlesAllButQueued ==
  routerClosed =>
    /\ \A l \in Loops \ late : ~Active(l)
    /\ late = {} => 1..accepted = Processed \cup dropped \cup B!Queued

\* An entry accepted by a running processor is processed, or is counted as dropped,
\* unless the processor is told to stop: no error of Route ends the loop.
AcceptedIsHandled ==
  \A n \in 1..MaxEntries :
    (n <= accepted /\ running) ~>
      (n \in Processed \/ n \in dropped \/ ctxDone \/ stopClosed)
=============================================================================
