# LogSieve: a TLA+ model

LogSieve receives log entries over HTTP, groups them into batches, drops and
deduplicates them, and sends what is left to Loki, Elasticsearch, S3 or the
standard output. This directory holds TLA+ modules translated from the Go
source, TLC configurations that check them on small instances, and proofs for
TLAPS of all the safety properties that the runs check, for every instance.
`PROJECT.json` maps every definition to the lines it models, and lists runs,
mutants, hazards, findings and theorems.

## 1. Inventory

| Part | Source | State | Operations | What makes it correct |
|---|---|---|---|---|
| Buffer (memory) | `pkg/ingestion/buffer.go` | channel of entries, a slice, channel of batches, `closed` | `Add`, `batchProcessor`, `GetBatch`, `Close` | order, no loss without a count, nothing left after `Close` |
| Buffer (disk) | `pkg/ingestion/disk_buffer.go` | channel, files in a directory, reader position | `Add`, `writer`, `reader`/`sendFile`, `evictIfNeeded`, `Close` | order, whole files, disk budget, the spool drains; the same after a crash |
| Processor | `pkg/processor/processor.go` | `running`, `stopChan`, one loop per `Start` | `Start`, `Stop`, `processingLoop`, `processEntry`, `AddEntry` | every accepted entry is handled; a stop leaves nothing half done |
| Router | `pkg/output/router.go` | adapters, one circuit breaker for each | `Route`, `sendToOutput`, `AddAdapter`, `RemoveAdapter` | no error is lost, it ends, a sink that recovers is used again |
| S3 output | `pkg/output/s3.go` | buffer, upload in flight | `Send`, `flushLoop`, `uploadBatch`, `Close` | acknowledged entries are stored or reported, once |
| Template miner | `pkg/dedup/drain3.go` | clusters, prefix tree | `AddLogMessage`, `Match`, `Reset` | templates stand for their members, repetitions are found |
| Deduplication | `pkg/dedup/engine.go`, `fingerprint.go`, `context.go` | fingerprint cache, miner, context window | `Process`, cache cleanup, `Reset`, `Close` | what is suppressed has been seen; severe entries come with context |
| HTTP ingestion | `pkg/ingestion/handler.go`, `parser.go` | counters of a request | `HandleIngest` | the answer tells what was accepted |
| Server | `cmd/server/main.go` | life cycle of the process | `runServer` | an orderly shutdown that ends |
| Bounded queue | `internal/queue/queue.go` | slice, mutex, two condition variables | push, pop, batch, try and time-out forms, `Clear`, `Close` | FIFO, no lost wake-up |
| Rate limiter | `pkg/auth/ratelimit.go` | a token bucket per key | `allow`, `cleanup`, `Stop` | never too generous, never starving |
| Profile manager | `pkg/profiles/manager.go` | map of profiles under an RWMutex | load, get, process, list, stats, add, remove | lookups see the right profile, statistics are consistent, calls end |
| Profile rules | `pkg/profiles/parser.go`, `detector.go` | compiled patterns | parse, match, detect | (by their effect) |
| Command line | `cmd/logsieve/main.go` | a miner, counters | `learn`, `audit`, `capture`, `config` | learned rules match what was mined |
| Other outputs | `pkg/output/loki.go`, `elasticsearch.go`, `stdout.go` | none | `Send` | success means that the sink has the batch |
| Configuration, API key check | `pkg/config`, `pkg/auth/middleware.go` | none | | not modelled |

How they interact: `HandleIngest` calls `Processor.AddEntry`, which calls
`Buffer.Add`; `batchProcessor` sends batches to a channel that `processingLoop`
receives from; the loop asks the profile manager and the deduplication engine
about each entry and calls `Router.Route` with what is left; the router starts a
goroutine for each output, which calls the adapter's `Send`.  `runServer` starts
all this and, on a signal, cancels the loop's context, stops the processor, and
shuts the HTTP server down, in this order.  `logsieve learn` is a process of its
own: it mines a file with the same miner and writes a profile, which the server
reads from its local directory when it starts.  The queue, the rate limiter and the
API key check are used by no other package.

The hard parts: `Add` racing with `Close`; batches dropped in the middle of the
stream; a reader, a writer and an eviction on one directory, with every call of
package os failing now and then; a processor started twice; two looks at a map of
adapters that changes between them; a stop that overtakes requests; retries, backoff
and breaker in one loop; responses that are lost, or report half a success; read locks
taken twice; two goroutines that both upload one buffer; a tree that changes under its
clusters; signals to condition variables; buckets looked up under one lock and used
under another.

## 2. Modules

    LossyFifo            what a queue of entries promises
      Buffer             in-memory buffer, implements LossyFifo
        Buffer_proofs
        Processor        INSTANCE Buffer, with the processor's goroutines as consumer and closer
          Server         EXTENDS Processor: requests, signal, shutdown
            Server_proofs  both, with INSTANCE Buffer_proofs for the buffer inside
      Queue              bounded queue, implements LossyFifo
    RateLimiter          token buckets and their cleanup
      Utilities_proofs   Queue and RateLimiter
    DiskBuffer           disk-backed buffer, crash and restart
      DiskBuffer_proofs
    Sinks                Send of the Loki, Elasticsearch and stdout adapters
      Router             fan-out, retries, circuit breaker over them
        Router_proofs
    S3Adapter            the S3 output, with the router's retries as environment
      S3Adapter_proofs
    DrainTree            the miner as functions on its state
      Drain              the miner as a state machine
        Learn            learn and audit of the command line
          Profiles       Learn and ProfileManager, joined by the profile's file
            Profiles_proofs  the miner, learn and the manager
      Dedup              engine, cache, window, and processEntry's output
        Dedup_proofs     with the lemmas of Profiles_proofs about the miner
    ProfileManager       the server's profiles under their read-write lock

`MC<module>.tla` and `.cfg` instantiate a module for TLC; MCUtilities does it for
Queue and RateLimiter, each in behaviours of its own.  Definitions carry the
names of the code's functions (`FlushDrop` is the `default` branch of the flush
closure, `LoopExits` the two exits of `processingLoop`, and so on).  A definition
`X_Something` before `X` is a mutant: the form `X` would have with a plausible
bug; `PROJECT.json` pairs each property with a mutant that violates it.  History
variables, marked as such, record what the code forgets (which entries were
accepted, dropped, stored), only for the properties.

### How the state corresponds to the code

**Buffer.**  An entry is the number under which it entered `b.buffer`.  `Add`
is two steps, because it releases the lock (line 71) before the send (74):
`AddChecked`, then `AddSend`, `AddFull` or, on a channel closed in between,
`AddPanics`.  `Close` is `CloseBuffer` (closes the channel in the critical
section) and `CloseBatches` (after `wg.Wait`).  `batchProcessor` receives,
ticks, and flushes; a flush is a step of its own between two selects.

**DiskBuffer.**  A line is an entry, a file a sequence of lines numbered in the
order of creation.  The writer creates the file under its final name and writes line by
line; an entry that `json.Marshal` refuses (`Unencodable`, a time after the year 9999)
becomes a blank line.  Then it evicts, in the code's steps: `EvictLists`, `EvictStats` for
each file, `EvictSubtracts` and `EvictUnlinks` for each file above the budget, by sizes that
may be stale.  The reader lists, opens, scans, flushes, removes.  A removed file keeps its
lines for whoever has it open.  `CrashAndRestart` drops everything but the directory,
from any state.  `Long` are lines beyond `bufio.Scanner`'s 64 KB.  Every call of package
os may fail: `CreateFails`, a short write before `WriteEnds`, `EvictSeesNothing`, a `Stat`
or `Remove` of the eviction, `ReaderQuits`, `ReaderCannotOpen`, `ReaderFails`,
`ReaderKeeps`.  `faults` counts those that the disk budget or draining must answer for;
`gone` collects the entries of exactly the steps at which the code gives entries up.

**Processor.**  Loops are numbered in the order of `Start`s; `stopChan` is
closed for ever after the first `Stop`, so that a second `Start` makes a loop
that may end at once, and a second `Stop` panics.  `content[n]` is an entry's message,
`Template` the cluster the miner puts it in (`Bare` messages have none), `Ignored` what a
profile rule drops, `Severe` what `shouldPreserveContext` finds.  Of the engine the model
has the fingerprint cache with its expiry (`known`, `Expire`), the miner's templates
with evictions (`mined`) and the context window; Dedup has the clock and the clusters as
they change.  What `processEntry` outputs is a set of *pieces*: a copy of an earlier entry
before a severe one, the copy of the severe one that `GetContext` makes, an entry itself.
`Route` is seen from outside: it ends with or without error, which `RouteEnds` of Router
justifies.

**Server.** Requests are adders; `HandlerAdds` is one iteration of `HandleIngest`'s
loop, `Account` its bookkeeping; a panic of `Add` reaches `gin.Recovery`. `Parse`
chooses between the two forms of a request. `main` goes through `runServer`: starting,
serving, stopping (`cancel`, `Stop`), stopped, waiting in `Shutdown`, exited.

**Router.** Durations are ticks, timers what is left of them. One goroutine per output
(`pc[o]`). The breaker is asked once per `Route`, before the first attempt, as in the
code. `determineOutputs` is two looks at `r.adapters` for each entry: `hasAdapter`
under the read lock (`LabelFound`, `LabelMissed`), and the unlocked range
(`RangeBegins`, `RangeEnds`), which yields every adapter that stays (`always`) and any
of those that come or go (within `ever`). Adapters come and go between and during
these steps. `copies[o][n]` counts how often sink `o` took entry `n`.

**Sinks.**  A Send is one exchange: a response, or none, and the entries that
the sink took.  What sinks do is external (`PushExchanges`, `BulkExchanges`): an
answer that promises something is true, and an error or a lost response says
nothing.  What the adapters make of it is the code's: which statuses and bodies
count as success, how Loki's streams are grouped.  `Outcomes` joins the two.

**S3Adapter.**  `buffer` is under the mutex; `Send` and `flushLoop` take it over
and upload outside.  The clock has the resolution of `generateKey`, so that two
uploads may write one object.  `uploadBatch` skips what cannot be encoded (`Lines`).
`Send` goes on during and after `Close`, as nothing in the code keeps it from doing so
(`late` are the entries flushLoop has not seen any more), and a second `Close` panics
(`CloseAgain`).  The router's retry of a failed `Send` is part of
the model, since it is what would duplicate entries.

**DrainTree, Drain, Dedup.** A message is a sequence of words and delimiters;
`Tokenize` drops delimiters and masks. Nodes are named by the keys that lead to them;
leaves hold ids in order. Similarity is a number of matching tokens, compared with the
threshold as a fraction. `Kept` and the path of `Descend` are the code's loops,
written as recursive functions so that they can be reasoned about. In Dedup time is in
ticks, the fingerprint is the message, the window holds numbers of entries.

**Learn.**  A state is what the miner has read.  `FingerprintRules` are the rules
that learn would write if the file ended now, for every order in which
`sort.Slice` may leave clusters of equal size.  The miner splits a line at
delimiters and masks numbers; the rule that comes out sees white space and
`\S+`, between `^` and `$`.  `Fields` and `RuleMatches` are this other view; a line with
white space at an edge (`HasEdge`), which nothing trims, is matched by no rule.

**ProfileManager.**  The lock is explicit, because it is what can go wrong:
`pending` is the writer that holds it or waits for the readers to leave, and a
`RLock` that meets one waits, as `sync.RWMutex` has it.  A profile is its name,
its origin, and the outcome of `validateProfile` and `verifyProfile`.
`LoadProfiles` is a step per source, under the lock.  `StartServer` is
`NewProcessor`; `StopServer` and `Panics` end the process.

**Profiles.**  `learn` and the server share only the file; it is truncated by
one step and filled by another, and the server may read it between them.

**Queue.**  A critical section up to `Wait` is one step; the lists of the
condition variables are explicit, since `sync.Cond` wakes in order; `GiveUp` is
the time-out that leaves its goroutine behind as an orphan.

**RateLimiter.**  `FindBucket` is the half of `allow` under `rl.mu`,
`Allowed`/`Refused` the half under the bucket's own lock.  Time is ticks; `age`
is the time since `lastRefill`.  `credit` is an ideal bucket, for comparison; `strays`
and `forgiven` count what the cleanup lets a client have beyond it (`MaxExcess` bounds
them in a run).

## 3. Runs

| Run | Question | Bounds |
|---|---|---|
| buffer | order, count of drops, refinement of LossyFifo, closing | 2 adders, 2 closers, 4 entries, both channels and the slice fill up; the consumer may never come |
| buffer_add_panics | violation: `Add` on a buffer closed in between | 1 adder, 1 closer |
| disk | order, whole files, losses, budget, draining, with a crash | 3 entries of which one is too long, or, after 4 that an earlier process lost, 3 of which one cannot be encoded; batches of 2, budget of 1 line, 1 crash, 1 failing call |
| disk_read_race | violation: a line that is written and never read back | 1 adder, 2 entries, no crash, no failing call |
| processor | what is output and why, handling and stopping, started twice | 2 loops, 1 adder; 2 callers of Start and Stop with 2 equal entries, or 1 caller with any 3 of 5 messages, the second entry severe |
| server | answers, shutdown | 2 requests of up to 2 entries, a buffer of 1 |
| router | delivery, duplicates, breaker, recovery, termination | Loki, and an Elasticsearch output that comes and goes; 2 batches of 2 entries, labelled with either and not labelled; 2 attempts, circuit opens at 3 failures, cooldown 1, first pause 2, ceiling 1 |
| s3 | acknowledged entries, duplicates | 4 entries in Sends of up to 2, one of them unencodable, batches of 2, 2 attempts at each level, 3 clock values |
| profiles | templates and lookup; learned rules; the manager's lock and map | up to 4 lines of a vocabulary of 14, leaves of 1 cluster, coverage 3/4; 2 goroutines, 2 built-in profiles, 1 local, 1 cached, 1 offered, strict or not |
| dedup | suppression, expiry, context | 5 entries of 6, TTL of 1 tick, 1 line of context |
| dedup_trigger | violation: a severe entry is output twice | as dedup |
| utilities | queue: refinement of LossyFifo, wake-ups, release by Close; limiter: generosity, starvation | 3 goroutines, capacity 2, batches of 2, 4 items; 2 requests of 1 client, burst 6, 1 token per minute of 2 ticks |

Why these are enough: each bound lets its queue, slice, window, leaf or budget be full
and overflow at least once, each race has the two goroutines it needs, and each
counter passes its threshold. Two adders are enough since adders interact only through
the channel; one client is enough for the limiter since buckets of different keys
share nothing but the map. The burst of 6 exceeds the 5 tokens that come in before the
cleanup removes a bucket, so that it forgets debts. The first pause of 2 exceeds the
ceiling of 1. The processor's two cases complement each other: who starts and stops it
does not look at entries, and what is output does not depend on who started the loop.
After four entries that are lost beforehand the spool holds enough entries for three
files in a row. No run has the stdout adapter, or an adapter without a configuration:
those are in the proofs only. Deadlock checking is off where a run really comes to an
end (everything closed, or all entries used up).

What the runs show, beyond the usual:

* `ImplementsLossyFifo` (Buffer and Queue): channels, batches, condition variables
  and orphans are only ways to store pending entries; deliveries are in order of
  acceptance, losses are runs of neighbours that a counter, `Clear` or an orphan
  accounts for.
* `EachIsRepresented`, `SecondExampleHasReason`: whatever loops overlap and stop, an
  entry that was dealt with was dropped by a rule or has one of its template that was
  output for its own sake; and a second one of a template is output only for a reason
  that the code has: its level, a message without tokens, a cluster that a full leaf
  evicted, and for the same message an expired fingerprint besides.  Copies in contexts do
  not count as examples.  That `Route` *succeeds* with an example is not promised: the
  fingerprints of a batch whose `Route` fails are kept, so repetitions are suppressed
  although no sink has the first one.
* `StopSettlesAllButQueued`, `CleanExitSettles`: what a stop loses is what the
  channel of batches holds, for `Stop` ends the receiver before it closes the
  buffer.
* `DuplicatesOnlyAfterError`: uploads of the same millisecond overwrite each
  other's object; the model counts these entries separately (`overwritten`).
* `NothingVanishes`, `AckedIsSettled`: an acknowledged entry is stored, on its way, or in
  an upload that was reported as failed, but for three exceptions that the code makes:
  an entry that `json.Marshal` refuses is skipped within an upload that succeeds
  (`Unencodable`), one that is sent after flushLoop's last look stays in the buffer
  (`late`), and two uploads of one millisecond write one object (`overwritten`).  The
  entries beside those, in the same upload or the same buffer, do not suffer.
* `NothingElseIsLost` (disk): what the code gives up is named at the step that
  does so (`Lose`): a file that cannot be created, written, opened or read, a blank line,
  entries behind an over-long line or in a file removed while it was written (the
  finding below), and memory at a crash.  Every other accepted entry is in memory, in a
  file, handed on or evicted.  In particular the reader may leave before the writer's
  last flush when the buffer closes: the file stays, and the next start reads it.
* `WholeFileIsHandedOver`: that a file is complete when it is opened is not enough; the
  open and the scan must succeed.  A file that `os.Open` refuses is removed unread, though
  it may be complete.  With these two exceptions no eviction, late write or crash
  takes an encoded line from the reader.
* `ReadBackInOrder`: a file that neither `sendFile` nor `reader` can remove is
  sent again before any younger file; so order and uniqueness are promised for
  the other files only.
* `DiskBudget`: the eviction goes by a sum that may be stale on either side; a call that
  fails costs at most one batch.
* `SpoolDrains`: once a process has accepted its `MaxEntries`, every file goes, unless
  the buffer is closed; package os may fail `MaxFaults` times.
* `NilMeansDelivered`: if `Route` returns nil, every entry is at the sink its
  label names, if `hasAdapter` found it, or else at every sink that stayed while the
  adapters were ranged over.  Stdout is excepted: its adapter ignores the errors of
  `Fprintln`.  With no adapters left `Route` returns nil, too.
* `DuplicatesNeedFailures`: a sink has an entry at most once more than Sends to it
  failed.  That many it may have: the whole batch is sent again after a bulk
  request of which one item failed, and after a lost response.  Where an entry may be is
  what the code decides, not what its label says: when the named output is added after
  `hasAdapter` missed it, the entry goes to every adapter although the named one
  is there by then.
* `TypeOK` (router): the ceiling of pauses holds from the second pause of a send on.
  The first is `InitialBackoff`, which nothing compares with `MaxBackoff`.
* `LearnedCovers`: an audit of the mined lines matches as many of them as learn
  wanted covered, but for lines in which a delimiter of the miner stands between
  words or white space at an edge: a template of `a=b` has two tokens, its regular
  expression wants white space between them, and the line has none; an indented line is
  mined by its tokens, and the anchored expression has no place for its indentation.  The
  property subtracts such lines.  The coverage that `learn` prints does not: it counts
  lines that its rules never match.
* `SevereIsOutputWithContext` says how a severe entry comes out, after its context and
  *twice*; `ContextThenTrigger` is what the comment in `processor.go` says, and is
  violated (run `dedup_trigger`, see the findings).
* `LearnedWins`: while every load since the start has found the local file
  whole, no lookup finds the built-in profile of the learned one's name, also
  during a reload.  A profile of the cache overrides the local one.
* `CallsEnd`: every call of the manager ends, unless a `GetStats` waits for its
  second read lock.  That exception is real: `GetStats` (561) holds the read lock
  and calls `ListProfiles` (415); a writer that comes in between waits for the
  first lock, the second waits for the writer, and nobody gets the lock again.
  `GetStats` is reached from `/stats`; no command calls a writer after the start,
  so that the deadlock needs a user of the package who does.
* `NeverMoreGenerous`: in no stretch of time does a client get more through than burst
  and rate allow, but for three things.  Up to one token, because `lastRefill` stands
  still while a full bucket waits for its next whole token.  One for each request that was
  on its way when the cleanup removed its bucket (`strays`).  And for each removal the part
  of the burst that five minutes do not bring in (`forgiven`): a bucket is removed five
  minutes after its last refill, full or not, and its client starts with a full one.
  Where five minutes fill the bucket the last is nothing; the configuration does not
  require that.

### Fairness

`WF` on a goroutine's own steps says that the Go scheduler runs what can run
and that tickers tick: for `writer`, `reader`, `batchProcessor`,
`processingLoop`, `flushLoop`, the router's goroutines, handlers and the wait of
`main`.  A `select` that is offered `Done` again and again takes it in the end:
`SF` on `LoopExits` in Server, since Go's `select` chooses uniformly among ready
cases.  In ProfileManager `WF`
on a caller's steps is the scheduler, files that can be read and the hub's 30
seconds; `SF` on `Lock` is `sync.Mutex`, which lets no waiting writer starve.
The router assumes that every `adapter.Send` returns, as its HTTP
clients have time-outs; S3 that every `PutObject` does.  `RecoveredOutputIsUsed`
names its assumptions in its antecedent (failures end, batches keep coming).  Queue
assumes that who wants the mutex gets it (Go's starvation mode).  Nothing is
assumed of clients, signals, consumers, crashes, failing file operations, sinks'
answers, the cleanup or the callers of `Start`, `Stop`, `Close` and the profile
manager.

## 4. Proofs

A `_proofs` module extends the module it is about.  Its theorems hold for every
value of the constants that the module's `ASSUME` admits, and for `Spec`, without
fairness.  Each follows from an inductive invariant: the property does not survive
a step by itself, and what is added to it is the argument.  The invariants were
checked by TLC on the runs' instances before they were proved.  A lemma
per action, or per group of actions that disturb the same variables, carries the
invariant through; lemmas before them say what the model's operators do.

### What is proved

**Buffer.** `TypeCorrect`: the slice stays within `MaxBatchSize` only because a worker
at its select has room for one more (`TypeInv`). `DeliveryIsOrdered` and
`NothingIsLostSilently`, from `FlowInv`: the stages are ordered among themselves
(delivered before queued before slice before channel), queued batches are increasing
and in order, and what is in no stage was delivered or dropped.
`DropsAreCountedHolds`: what was dropped is nowhere else, and a dropped batch, being
increasing, holds as many entries as it is long (`CountInv`).
`BufferImplementsLossyFifo`: under the mapping `pending = buffer, slice and batches`
every step is an abstract step or a stutter; `FlowInv` makes a delivery the *oldest*
entries and a drop a run of neighbours. `CloseDrains`: a worker that is done has seen
the closed channel empty, and nothing enters a closed channel (`DrainInv`).

**Processor and Server** (`Server_proofs`).  `ProcessorDrivesBuffer`: a step of the
processor is a step of the buffer inside or leaves it alone; so Buffer's
invariants hold there, through INSTANCE, and `ProcessorFedByFifo`: what the loops get
is what the lossy FIFO queue delivers.  `EachIsRepresentedHolds` and
`SecondExampleHasReasonHolds`, from `DedupInv`: a known fingerprint and a mined template
each have an example of the template; an example's message is known or has been
forgotten, and its template is mined, evicted or none.
`StopSettlesAllButQueuedHolds`, from `StopInv`: at most one caller is past the stop
signal, only he closes the buffer, and from the end of his wait no loop but a
late one is active; then Buffer's `DrainInv` says where entries can still be.
`ServerRunsProcessor`: a step of the server is one of the processor.
`AnswerIsAccurateHolds`: the counters of a request are the numbers of entries that
the buffer accepted from it (`AnswerInv`).  `CleanExitSettlesHolds` and
`NothingAcceptedAfterStopHolds`: there is one Start before any Stop, so that no loop
is late, and main goes on to `Shutdown` only behind the closed router (`MainInv`).

**DiskBuffer**, for any number of crashes and of failing calls of package os.
`ReadBackInOrderHolds`, `WholeFileIsHandedOverHolds` and `NothingElseIsLostHolds`,
from `DiskInv`: files, batches and slices are ascending within and among each other
(`WriterInv`, `LinesInv`); the reader is at the oldest file, and what it took out is
not younger than anything it will still find, but for `resent` (`ReaderInv`); the
scanned lines of a whole file that are entries went through a flush or wait in the
slice, and the writer is done with that file (`WholeInv`); every line of every file is
in the directory, handed on, evicted or gone, and so is what the writer has written of
its batch (`LossInv`). `DiskBudgetHolds`, from `BudgetInv`: while a file is written,
the *others* are within the budget; and while the eviction works, its sum misses at
most one batch for each call that failed (`TrimInv`), however the reader changes the
directory meanwhile. `Size` is a fold; `SizeCounts` proves that it is the number of
pairs of a file and a line, by looking at a least set for which it is not.

**Router.**  `TypeCorrect`: attempts stay within their number (`AttemptsLeft`), and pauses
from the second on within `MaxBackoff`, for any first one (`PausesRunOut`).
`NilMeansDeliveredHolds` and `DuplicatesNeedFailuresHolds`, from `DeliveryInv`: an output
was given what determineOutputs found for it, its sink has copies of nothing else and at
most one for each failed Send and the good one, a sender that ended well has
left everything, and `nil` means that no sender ended badly.  What a response
means comes from Sinks: `Outcomes` is expanded there, and only there.
`CircuitOpensOnStreak`: the breaker counts no more failures than there were in a row.

**S3Adapter.** `TypeCorrect`: who does not upload has nothing to upload, attempts are
left where one is made (`Room`). `NothingVanishesHolds`: the `Send` that waits for an
upload waits for its own entries (`Settles`); what the upload leaves out cannot be
encoded, and what comes behind flushLoop's last look is `late`.
`DuplicatesOnlyAfterErrorHolds`, from `OnceInv`: buffer, uploads and objects are
pairwise disjoint but for refused entries, and but for an object and the upload that
is writing it again.

**Miner** (`Profiles_proofs`), for any messages, threshold, depth and limit of a leaf.
`TemplatesCoverMembersHolds`, from `MinerInv`: a template that absorbs a message still
covers what it covered, and a search returns a cluster of the message's length.
`LastIsFoundHolds`, from `FindInv`. Where a search goes is a matter of the nodes alone
(`Leads`: at each level the exact child, or the wildcard where there is none), and
what is added on the way of one message must not divert it. A new cluster puts the
message's own path into the tree, which leads to its leaf; there it is the youngest,
so that an eviction spares it, and its similarity is full. An absorbed message is
found by the leaf's best cluster; generalising makes it more similar, never less. The
wildcard path of a generalised cluster makes nodes for the template's tokens, empty
ones that a search prefers to the wildcard. `SearchInv` says that they divert no
repetition: along a leaf's leading wildcards each specific token of its clusters'
templates already has its node (`Branches`), so that a message that has the token
there came by that node, or never came to the leaf. What `Match` returns puts the
tokens together again because `Kept` keeps as many elements before a position as it
counts there (`KeptProperties`, `FilledIsMessage`).

**Learn** (`Profiles_proofs`). `LearnedCoversHolds`, from `LearnInv`: *every set* of
clusters counts no more than the lines of which one ever went to it (`CountsLines`).
That one cluster does is not enough: the same line may go to different clusters as
templates change, so that clusters share lines. The taken clusters reach the target,
their lines are covered by their templates, a rule matches what its template covers if
no delimiter is in it and no white space at its edges (`CoveredIsMatched`), and sums
over a union are at most the sum of the sums. `LearnRunsMiner`, `LearnersMiner`: in
learn the miner does what it does by itself, so that its theorems hold there.

**Dedup** (`Dedup_proofs`).  `SuppressedHasRepresentativeHolds`, from `EngineInv`:
every cluster has an entry that was output, because the entry that creates one is,
and every message in the cache is represented; both outlive the expiry of cache
entries and generalisations.  `NoRepeatWithinTTLHolds`, from `AgeInv`: a message is
live in the cache as long as its last novel occurrence is no older than the TTL.
`SevereIsOutputWithContextHolds`: the window is the last `3 * ContextLines` novel
entries (`WindowInv`), so that a context taken from it is one taken from the whole
history.

**ProfileManager** (`Profiles_proofs`).  `StatsAreOfOneMoment`: who has asked for the
write lock is `pending`, and who has got it finds no reader (`LockInv`); no two
profiles have one name, so that counting profiles counts names.
`LearnedProfileWins`: a built-in profile of the learned one's name is in the map only
while a load has not yet come to the local directory (`Wins`).

**Queue** (`Utilities_proofs`). `TypeCorrect`: the waiting lists hold exactly the
waiting goroutines, each once, and the items are the last pushes (`QueueInv`).
`NoWakeupIsLost`: while someone waits for an item, the consumers on their way are no
fewer than the items, and likewise for free places (`EmptyOK`, `FullOK`): the property
itself, one goroutine on its way, would not survive two pushes in a row.
`QueueImplementsLossyFifo`: only `Clear` and an orphan lose items.

**RateLimiter** (`Utilities_proofs`). `NeverMoreGenerousHolds`, from `LimiterInv`: a
bucket is worth its tokens and what has come in since its last refill (`Worth`), never
more than what the ideal bucket, the strays and the forgiven part have, and a key
without a bucket could have a full one (`NotAhead`). The cleanup keeps this up because
a bucket that it removes is full or has been filling for five minutes
(`RefillBounds`), and the rest is what is forgiven (`ForgivenIsEnough`). A stray uses
a bucket that is no key's any more, and no two keys have one bucket (`OwnBuckets`).

### Recursion and sums

The library's induction theorems take an operator, which no prover here can
instantiate. The proofs use sets instead: `UpTo` (a set with 0 and with the successor
of each of its numbers up to N has them all) and `SubsetsUpTo` (the same for the
subsets of a finite set), both from the least element of a set of numbers. With them
`Recursion` shows that a recursive function exists, and what its equations are;
`KeptProperties` and `Leads` rest on these. `SumFunctionOnSet` is a fold over a
CHOOSE; `SumFacts` shows that the sum is that of any order, and the other lemmas on
sums (`SumOverUnion`, `SumReindexed`) follow from it alone.

### Assumptions

The `ASSUME`s say what `validateConfig`, a constructor or the types enforce (positive
sizes and times), and: callers of the queue and profiles are finite sets, because they
are counted; a batch given to `Route` is not empty (`processingLoop` skips those);
profiles of different origin are different, and one directory holds at most one of a
name; messages are sequences; there are finitely many different lines that `learn` can
read, since `scanner.Buffer` limits their length (`main.go` 252); the server has one
caller of `Start` and `Stop`, its `main`. The theorems about the processor do not use
the last.

### What is only model-checked

* Liveness and `ENABLED`: `AcceptedIsHandled`, `SpoolDrains`, `RouteEnds`,
  `RecoveredOutputIsUsed`, `AckedIsSettled`, `CallsEnd`, `ShutdownEnds`,
  `CloseReleasesAll`, `KeepsServing`.
* The `TypeOK`s that no run lists: TLC checked them once, and the proofs need them,
  but they are listed only where they can reveal something that the other
  properties cannot (Router).  `DrainTypeOK` is TLC's alone: the miner's proofs
  use the part of it that they need (`TreeInv`).

## 5. Findings

* `Add` may panic (run `buffer_add_panics`): see `PROJECT.json`.  `HandleIngest`
  answers 500 for a request of which entries have been accepted.
* The disk reader may open a file while it is written, reach its present end and
  unlink it; the lines written later are neither read back nor counted
  (`disk_read_race`).
* A novel severe entry is sent twice: `GetContext` ends the context with a copy of the
  entry (`context.go` 65), and `processEntry` appends the entry itself
  (`processor.go` 244), though its comment says "context entries first, then the
  trigger/current entry" (`dedup_trigger`).

Observations that no run reports, seen while modelling:

* `sendToOutput` sleeps before it caps the pause: the first one is `InitialBackoff`, and
  `validateConfig` does not compare that with `MaxBackoff` (`router.go` 191).
* An entry that `json.Marshal` refuses (`parser.go` 110 accepts times after the year 9999)
  is lost without a count in the spool and in an S3 upload.
* A file of the spool that cannot be opened is removed (`disk_buffer.go` 141-144).
* With `RequestsPerMin` 0 a bucket never refills, but the cleanup makes it a new, full one
  every five minutes.
* A second `Close` of the S3 adapter panics (`s3.go` 336); nothing in the repository calls
  it twice.
* The coverage that `learn` prints counts lines that its rules never match.
* A generalised cluster may be hidden: `addWildcardPathForCluster` creates empty
  nodes for specific tokens beside the wildcard, and `treeSearch` prefers them
  and never comes back (`drain3.go` 313, 459).  `LastIsFound` holds all the same: those
  nodes never hide a cluster from the message that it has just absorbed.
* A retry goes on after the circuit was opened by the same call's failures
  (`router.go` 153, 183).
* An ERROR entry with a live fingerprint is suppressed (`engine.go` 69), before
  its level is looked at; an exact duplicate never enters the context window.
* `Start` after `Stop` is accepted although `stopChan` stays closed; the next
  `Stop` panics.  `runServer` starts once.
* `ProcessWithProfile` needs the profile `generic`: once `RemoveProfile` has taken
  it away, an entry with an unknown profile dereferences nil (`Panics`).
  `FingerprintTTL` below two nanoseconds would panic in `time.NewTicker`; neither
  is validated.
* `ParseProfile` accepts an empty file, and `LoadProfiles` does not validate: a
  half-written file installs a profile named "".  `AddProfile` validates copies of
  the rules, so that the default action is lost again.
* `syncFromHub` fetches an index and throws it away; sampling rules, `unless`,
  context triggers and routing rules are parsed and never applied; the detector
  may name profiles that do not exist, which then means `generic`.
* Elasticsearch's body is decoded before its status is looked at; Loki's adapter
  accepts 200 and 204 only.
* A request with one `log` gets its level from the text, one with `logs` does not.
* `logsieve capture --follow` ignores `--duration`.

## 6. Not modelled

* Profiles: the detector's scoring, what a signature check decides, and transforms
  are data; rules are known by their effect.  `DownloadProfile`, `cacheProfile` and
  `ClearCache` have no callers.
* `capture` of the command line pipes the output of docker or kubectl into a file:
  a scanner, a counter and a timer without a promise to check.  `config` and
  `version` print.
* Data races on maps (`r.adapters` in `router.go` 138 against `AddAdapter`, `Labels`
  shared by copies, `context.go` 61): Go may end the process, and an adapter that is
  removed and added again during one range may be yielded twice.  The range yields what
  stayed, and any of what came or went, once each.
* `GetTopTemplates` (`drain3.go` 593) nests read locks as `GetStats` does; nothing
  calls it.
* Loki's structured metadata, documents and index names of Elasticsearch, the
  parser's time formats, `getKey`, logging, metrics: data or without state.
* Configuration: the ranges that `validateConfig` enforces are the modules'
  assumptions.  The API key check compares one header.

## 7. Plan

Done, in order of importance: Buffer with its proofs, DiskBuffer, Processor over
Buffer, Router over Sinks, S3Adapter, DrainTree/Drain/Dedup, Server over
Processor, Queue, RateLimiter, Learn with ProfileManager.

Proved: every safety property of these that a run checks, and the refinement of
LossyFifo by the buffer, the processor and the queue.

Next: Pipeline, processor and router composed, so that `RouteEnds` need
not be assumed; DiskBuffer against an abstract spool that survives crashes; `Match`
after several other additions, which is not promised (a generalised cluster may be
hidden), with what can be said of it instead.
