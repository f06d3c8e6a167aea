----------------------------- MODULE DiskBuffer -----------------------------
(***************************************************************************)
(* The disk-backed ingestion buffer (pkg/ingestion/disk_buffer.go): Add     *)
(* feeds a channel, the writer goroutine spools batches into files, the     *)
(* reader goroutine reads the oldest file, hands its entries on in batches  *)
(* and removes it; the process may crash at any point and start again on    *)
(* the same directory.                                                      *)
(*                                                                          *)
(* An entry is the number under which it was accepted, a line is the entry  *)
(* it was written for, and sizes are counted in lines.  Files are numbered  *)
(* in the order of their names, which carry the time of their creation: the *)
(* clock is taken to advance between two flushes.  A removed file keeps its *)
(* lines for whoever has it open.  A line of which only a part is in the    *)
(* file counts as not written: sendFile meets it at the end of the file,    *)
(* where json.Unmarshal refuses it.                                         *)
(***************************************************************************)
EXTENDS Integers, Sequences, FiniteSets, FiniteSetsExt, Functions

CONSTANTS
  Adders,        \* goroutines that call Add
  BufferSize,    \* config.BufferSize: capacity of d.in
  MaxBatchSize,  \* config.MaxBatchSize
  BatchCap,      \* capacity of d.batches (100 in NewDiskBuffer)
  MaxDiskLines,  \* config.MaxDiskBytes, in lines
  Long,          \* entries whose line is longer than bufio.Scanner takes (64 KB)
  Unencodable,   \* entries that json.Marshal refuses (a time after the year 9999)
  MaxEntries,    \* bound: entries accepted in one behaviour
  MaxCrashes,    \* bound: crashes in one behaviour
  MaxFaults      \* bound: calls of package os that fail in one behaviour

ASSUME DiskBufferAssumption ==
  /\ BufferSize \in Nat \ {0}
  /\ MaxBatchSize \in Nat \ {0}
  /\ BatchCap \in Nat \ {0}
  /\ MaxDiskLines \in Nat
  /\ MaxEntries \in Nat
  /\ MaxCrashes \in Nat
  /\ MaxFaults \in Nat
  /\ Long \subseteq 1..MaxEntries
  /\ Unencodable \subseteq 1..MaxEntries

VARIABLES
  closed,         \* d.closed; d.in is closed in the same critical section
  in,             \* d.in
  adding,         \* adding[a]: where a's call of Add is
  batch,          \* the writer's local slice
  writer,         \* where the writer is
  last,           \* the writer's current flush is its last
  unwritten,      \* lines of the batch that have not reached the current file
  files,          \* evictIfNeeded: the files it listed and did not remove yet
  unstatted,      \* evictIfNeeded: those whose size it did not add yet
  total,          \* evictIfNeeded: its sum of the sizes
  lines,          \* lines[f]: what file f contains
  linked,         \* the files in the directory
  reader,         \* where the reader is
  reading,        \* the file the reader has chosen
  pos,            \* how many of its lines the reader has scanned
  readBatch,      \* sendFile's local slice
  batches,        \* d.batches
  batchesClosed,  \* close(d.batches) has been called
  closing,        \* where the call of Close is
  crashes,        \* how often the process crashed
  accepted,       \* history: how many entries entered d.in
  delivered,      \* history: the entries received since the last start, in order
  handed,         \* history: the entries sendFile flushed since the last start
  whole,          \* history: the file was complete when it was opened, and reading it did not fail
  evicted,        \* history: the entries of the files removed by evictIfNeeded
  faults,         \* history: how many calls of package os failed
  resent,         \* history: the entries of the files that sendFile could not remove
  gone            \* history: the entries lost in one of the ways the actions name

addVars    == <<closed, in, adding, accepted>>
writerVars == <<batch, writer, last, unwritten>>
evictVars  == <<files, unstatted, total>>
diskVars   == <<lines, linked, evicted, evictVars>>
fileVars   == <<reading, pos, whole>>
outVars    == <<readBatch, batches, handed>>
readerVars == <<reader, fileVars, outVars>>
endVars    == <<batchesClosed, closing, crashes, delivered>>
faultVars  == <<faults, resent, gone>>
vars == <<addVars, writerVars, diskVars, readerVars, endVars, faultVars>>

Init ==
  /\ closed = FALSE /\ in = <<>> /\ adding = [a \in Adders |-> "idle"]
  /\ batch = <<>> /\ writer = "select" /\ last = FALSE /\ unwritten = <<>>
  /\ reader = "list" /\ reading = 0 /\ pos = 0 /\ whole = FALSE
  /\ readBatch = <<>> /\ batches = <<>> /\ handed = {}
  /\ batchesClosed = FALSE /\ closing = "idle" /\ delivered = <<>>
  /\ lines = <<>> /\ linked = {} /\ evicted = {}
  /\ files = {} /\ unstatted = {} /\ total = 0
  /\ crashes = 0
  /\ accepted = 0
  /\ faults = 0 /\ resent = {} /\ gone = {}

\* NewDiskBuffer again, on the directory as it is.
Restart ==
  /\ closed' = FALSE /\ in' = <<>> /\ adding' = [a \in Adders |-> "idle"]
  /\ batch' = <<>> /\ writer' = "select" /\ last' = FALSE /\ unwritten' = <<>>
  /\ reader' = "list" /\ reading' = 0 /\ pos' = 0 /\ whole' = FALSE
  /\ readBatch' = <<>> /\ batches' = <<>> /\ handed' = {}
  /\ batchesClosed' = FALSE /\ closing' = "idle" /\ delivered' = <<>>
  /\ files' = {} /\ unstatted' = {} /\ total' = 0

-----------------------------------------------------------------------------
(* Add.  A call that finds the buffer closed, finds d.in full, or panics because *)
(* Close came in between, leaves everything but its own progress alone.          *)

AddChecked(a) ==
  /\ adding[a] = "idle"
  /\ ~closed
  /\ accepted < MaxEntries
  /\ adding' = [adding EXCEPT ![a] = "checked"]
  /\ UNCHANGED <<faultVars, writerVars, diskVars, readerVars, endVars, closed, in, accepted>>

AddSend(a) ==
  /\ adding[a] = "checked"
  /\ ~closed
  /\ Len(in) < BufferSize
  /\ accepted < MaxEntries
  /\ in' = Append(in, accepted + 1)
  /\ accepted' = accepted + 1
  /\ adding' = [adding EXCEPT ![a] = "idle"]
  /\ UNCHANGED <<faultVars, writerVars, diskVars, readerVars, endVars, closed>>

AddFails(a) ==
  /\ adding[a] = "checked"
  /\ closed \/ Len(in) >= BufferSize
  /\ adding' = [adding EXCEPT ![a] = "idle"]
  /\ UNCHANGED <<faultVars, writerVars, diskVars, readerVars, endVars, closed, in, accepted>>

-----------------------------------------------------------------------------
(* writer *)

\* The writer takes an entry; a batch of n is flushed at once.
WriterTakes(n) ==
  /\ writer = "select"
  /\ in # <<>>
  /\ in' = Tail(in)
  /\ batch' = Append(batch, Head(in))
  /\ writer' = IF Len(batch) + 1 >= n THEN "flush" ELSE "select"
  /\ UNCHANGED <<faultVars, diskVars, readerVars, endVars, closed, adding, accepted, last,
                 unwritten>>

WriterReceives == WriterTakes(MaxBatchSize)

WriterTicks ==
  /\ writer = "select"
  /\ batch # <<>>
  /\ writer' = "flush"
  /\ UNCHANGED <<faultVars, addVars, diskVars, readerVars, endVars, batch, last, unwritten>>

\* Mutant of WriterSeesClose: the rest of the batch is not flushed.
WriterSeesClose_NoFlush ==
  /\ writer = "select"
  /\ closed
  /\ in = <<>>
  /\ last' = TRUE
  /\ writer' = "done"
  /\ batch' = <<>>
  /\ UNCHANGED <<faultVars, addVars, diskVars, readerVars, endVars, unwritten>>

WriterSeesClose ==
  /\ writer = "select"
  /\ closed
  /\ in = <<>>
  /\ last' = TRUE
  /\ writer' = IF batch = <<>> THEN "done" ELSE "flush"
  /\ UNCHANGED <<faultVars, addVars, diskVars, readerVars, endVars, batch, unwritten>>

AfterFlush == writer' = IF last THEN "done" ELSE "select"

\* os.Create succeeds: from now on listReady shows the file, which is empty.
Create ==
  /\ writer = "flush"
  /\ writer' = "write"
  /\ unwritten' = batch
  /\ lines' = Append(lines, <<>>)
  /\ linked' = linked \cup {Len(lines) + 1}
  /\ UNCHANGED <<faultVars, addVars, readerVars, endVars, evictVars, batch, last, evicted>>

\* The entries es are lost.
Lose(es) == gone' = gone \cup es /\ UNCHANGED <<faults, resent>>

\* os.Create fails: the batch is forgotten.
CreateFails ==
  /\ writer = "flush"
  /\ AfterFlush
  /\ batch' = <<>>
  /\ Lose(Range(batch))
  /\ UNCHANGED <<addVars, diskVars, readerVars, endVars, last, unwritten>>

\* bufio passes another n lines to the file, also if it has been unlinked.  The error of
\* json.Marshal is ignored: what it refuses becomes a blank line.
Write(n) ==
  /\ writer = "write"
  /\ n \in 1..Len(unwritten)
  /\ lines' = [lines EXCEPT ![Len(lines)] = @ \o SubSeq(unwritten, 1, n)]
  /\ unwritten' = SubSeq(unwritten, n + 1, Len(unwritten))
  /\ LET es == Range(SubSeq(unwritten, 1, n))
     IN Lose(IF Len(lines) \in linked THEN es \cap Unencodable ELSE es)
  /\ UNCHANGED <<addVars, readerVars, endVars, evictVars, batch, writer, last, linked, evicted>>

\* The file is closed; what a failed write left over (its error is ignored) is gone.
WriteEnds ==
  /\ writer = "write"
  /\ writer' = "evict"
  /\ batch' = <<>>
  /\ unwritten' = <<>>
  /\ Lose(Range(unwritten))
  /\ UNCHANGED <<addVars, diskVars, readerVars, endVars, last>>

Size(S) == MapThenSumSet(LAMBDA f : Len(lines[f]), S)

\* n calls of package os fail.
Faults(n) == faults + n <= MaxFaults /\ faults' = faults + n

\* The first listReady of evictIfNeeded.
EvictLists ==
  /\ writer = "evict"
  /\ writer' = "trim"
  /\ files' = linked
  /\ unstatted' = linked
  /\ total' = 0
  /\ UNCHANGED <<faultVars, addVars, readerVars, endVars, batch, last, unwritten, lines,
                 linked, evicted>>

\* os.ReadDir fails: there is nothing to evict.
EvictSeesNothing ==
  /\ writer = "evict"
  /\ AfterFlush
  /\ Faults(1)
  /\ UNCHANGED <<addVars, diskVars, readerVars, endVars, batch, last, unwritten, resent, gone>>

\* What os.Stat reports of f, if the file is still there and the call does not fail.
SizeSeen(f, fails) == IF f \in linked /\ ~fails THEN Len(lines[f]) ELSE 0

\* The next file's size is added.
EvictStats(fails) ==
  /\ writer = "trim"
  /\ unstatted # {}
  /\ unstatted' = unstatted \ {Min(unstatted)}
  /\ total' = total + SizeSeen(Min(unstatted), fails)
  /\ Faults(IF fails THEN 1 ELSE 0)
  /\ UNCHANGED <<addVars, readerVars, endVars, batch, writer, last, unwritten, lines,
                 linked, evicted, files, resent, gone>>

\* The loop goes on while the sum, which may be stale, is above the budget.
AboveBudget == total > MaxDiskLines /\ files # {}

\* The size of the oldest file is subtracted.
EvictSubtracts(fails) ==
  /\ writer = "trim"
  /\ unstatted = {}
  /\ AboveBudget
  /\ writer' = "unlink"
  /\ total' = total - SizeSeen(Min(files), fails)
  /\ Faults(IF fails THEN 1 ELSE 0)
  /\ UNCHANGED <<addVars, readerVars, endVars, batch, last, unwritten, lines, linked,
                 evicted, files, unstatted, resent, gone>>

\* The oldest file is removed, unless the reader did so or os.Remove fails.
EvictUnlinks(stuck) ==
  /\ writer = "unlink"
  /\ writer' = "trim"
  /\ files' = files \ {Min(files)}
  /\ IF stuck \/ Min(files) \notin linked
     THEN UNCHANGED <<linked, evicted>>
     ELSE /\ linked' = linked \ {Min(files)}
          /\ evicted' = evicted \cup Range(lines[Min(files)])
  /\ Faults(IF stuck THEN 1 ELSE 0)
  /\ UNCHANGED <<addVars, readerVars, endVars, batch, last, unwritten, lines, unstatted,
                 total, resent, gone>>

EvictStops(until) ==
  /\ writer = "trim"
  /\ unstatted = {}
  /\ until
  /\ AfterFlush
  /\ files' = {} /\ total' = 0
  /\ UNCHANGED <<faultVars, addVars, readerVars, endVars, batch, last, unwritten, lines,
                 linked, evicted, unstatted>>

\* Mutant of EvictEnds: one file is always kept.
EvictEnds_KeepsOne == EvictStops(total <= MaxDiskLines \/ Cardinality(files) <= 1)

EvictEnds == EvictStops(~AboveBudget)

-----------------------------------------------------------------------------
(* reader and sendFile *)

\* The buffer is closed and there is nothing to read, or os.ReadDir fails.
ReaderQuits ==
  /\ reader = "list"
  /\ closed
  /\ reader' = "done"
  /\ Faults(IF linked = {} THEN 0 ELSE 1)
  /\ UNCHANGED <<addVars, writerVars, diskVars, fileVars, outVars, endVars, resent, gone>>

\* Mutant of Oldest: the files are sorted the other way.
Oldest_Newest == Max(linked)

Oldest == Min(linked)

\* reader lists the directory and takes the oldest file.
ReaderLists ==
  /\ reader = "list"
  /\ linked # {}
  /\ reader' = "open"
  /\ reading' = Oldest
  /\ pos' = 0
  /\ UNCHANGED <<faultVars, addVars, writerVars, diskVars, outVars, endVars, whole>>

ReaderOpens ==
  /\ reader = "open"
  /\ reading \in linked
  /\ reader' = "scan"
  /\ readBatch' = <<>>
  /\ whole' = ~(writer = "write" /\ reading = Len(lines))
  /\ UNCHANGED <<faultVars, addVars, writerVars, diskVars, endVars, reading, pos, batches, handed>>

\* os.Open fails, because the file was evicted or for another reason: reader will remove
\* the file that it has not read.
ReaderCannotOpen ==
  /\ reader = "open"
  /\ reader' = "remove"
  /\ whole' = FALSE
  /\ Faults(IF reading \in linked THEN 1 ELSE 0)
  /\ UNCHANGED <<addVars, writerVars, diskVars, outVars, endVars, reading, pos, resent, gone>>

\* flush of sendFile: a batch that d.batches has no room for is counted and dropped.
HandOver(b) ==
  /\ readBatch' = <<>>
  /\ handed' = handed \cup Range(b)
  /\ IF b # <<>> /\ Len(batches) < BatchCap
     THEN batches' = Append(batches, b)
     ELSE UNCHANGED batches

\* The scanner stops with an error: what was not flushed is dropped, and the file will
\* be removed.
ScanFails ==
  /\ reader' = "remove"
  /\ whole' = FALSE
  /\ readBatch' = <<>>
  /\ UNCHANGED <<pos, batches, handed>>

\* The scanner finds a line: too long for it, blank, or an entry's.
ReaderScans ==
  /\ reader = "scan"
  /\ pos < Len(lines[reading])
  /\ LET e == lines[reading][pos + 1]
     IN IF e \in Long \ Unencodable
        THEN ScanFails
        ELSE /\ pos' = pos + 1
             /\ IF e \in Unencodable
                THEN UNCHANGED <<readBatch, batches, handed>>
                ELSE IF Len(readBatch) + 1 >= MaxBatchSize
                THEN HandOver(Append(readBatch, e))
                ELSE /\ readBatch' = Append(readBatch, e)
                     /\ UNCHANGED <<batches, handed>>
             /\ UNCHANGED <<reader, whole>>
  /\ UNCHANGED <<faultVars, addVars, writerVars, diskVars, endVars, reading>>

\* Reading the file fails.
ReaderFails ==
  /\ reader = "scan"
  /\ ScanFails
  /\ Faults(1)
  /\ UNCHANGED <<addVars, writerVars, diskVars, endVars, reading, resent, gone>>

AtEndOfFile ==
  /\ reader = "scan"
  /\ pos = Len(lines[reading])
  /\ reader' = "remove"
  /\ UNCHANGED <<faultVars, addVars, writerVars, diskVars, fileVars, endVars>>

\* Mutant of ReaderEnds: without the final flush.
ReaderEnds_NoFlush == AtEndOfFile /\ readBatch' = <<>> /\ UNCHANGED <<batches, handed>>

\* The scanner meets the end of the file, as it is at this moment: the final flush.
ReaderEnds == AtEndOfFile /\ HandOver(readBatch)

RemoveFile(f) ==
  /\ reader = "remove"
  /\ reader' = "list"
  /\ linked' = linked \ {f}
  /\ Lose(IF whole THEN {} ELSE Range(lines[reading]) \ handed)
  /\ UNCHANGED <<addVars, writerVars, fileVars, outVars, endVars, evictVars, lines, evicted>>

\* Mutant of ReaderRemoves: the file stays.
ReaderRemoves_Keeps == RemoveFile(0)

\* The file is removed, by sendFile or, after an error, by reader; it may have been
\* evicted meanwhile.
ReaderRemoves == RemoveFile(reading)

\* Both fail: the file will be read and sent again before any other.
ReaderKeeps ==
  /\ reader = "remove"
  /\ reading \in linked
  /\ Faults(1)
  /\ resent' = resent \cup Range(lines[reading])
  /\ reader' = "list"
  /\ UNCHANGED <<addVars, writerVars, diskVars, fileVars, outVars, endVars, gone>>

-----------------------------------------------------------------------------
(* Close, the consumer, and the end of the process. *)

CloseIn ==
  /\ closing = "idle"
  /\ closed' = TRUE
  /\ closing' = "waiting"
  /\ UNCHANGED <<faultVars, writerVars, diskVars, readerVars, in, adding, batchesClosed,
                 crashes, delivered, accepted>>

\* Close closes d.batches once the goroutines it waits for are done.
CloseAfter(wait) ==
  /\ closing = "waiting"
  /\ wait
  /\ batchesClosed' = TRUE
  /\ closing' = "returned"
  /\ UNCHANGED <<faultVars, addVars, writerVars, diskVars, readerVars, crashes, delivered>>

\* wg.Wait waits for the writer and the reader.
CloseBatches == CloseAfter(writer = "done" /\ reader = "done")

ReceiveBatch ==
  /\ batches # <<>>
  /\ batches' = Tail(batches)
  /\ delivered' = delivered \o Head(batches)
  /\ UNCHANGED <<faultVars, addVars, writerVars, diskVars, fileVars, reader, readBatch,
                 handed, batchesClosed, closing, crashes>>

Spooled == UNION {Range(lines[f]) : f \in linked}
Unread == IF reader = "scan" THEN Range(lines[reading]) ELSE {}
InMemory == Range(in) \cup Range(batch) \cup Range(readBatch)
            \cup UNION {Range(batches[k]) : k \in DOMAIN batches}

\* The process ends, in the middle of whatever it does, and starts again.
CrashAndRestart ==
  /\ crashes < MaxCrashes
  /\ crashes' = crashes + 1
  /\ Restart
  /\ Lose(handed \cup ((Range(in) \cup Range(batch)) \ Spooled))
  /\ UNCHANGED <<lines, linked, evicted, accepted>>

-----------------------------------------------------------------------------

Evicts ==
  \/ EvictLists
  \/ EvictSeesNothing
  \/ \E fails \in BOOLEAN : EvictStats(fails) \/ EvictSubtracts(fails) \/ EvictUnlinks(fails)
  \/ EvictEnds

WriterStep ==
  \/ WriterReceives
  \/ WriterTicks
  \/ WriterSeesClose
  \/ Create
  \/ CreateFails
  \/ \E n \in 1..MaxBatchSize : Write(n)
  \/ WriteEnds
  \/ Evicts

ReaderStep ==
  \/ ReaderQuits
  \/ ReaderLists
  \/ ReaderOpens
  \/ ReaderCannotOpen
  \/ ReaderScans
  \/ ReaderFails
  \/ ReaderEnds
  \/ ReaderRemoves
  \/ ReaderKeeps

Next ==
  \/ \E a \in Adders : AddChecked(a) \/ AddSend(a) \/ AddFails(a)
  \/ WriterStep
  \/ ReaderStep
  \/ CloseIn
  \/ CloseBatches
  \/ ReceiveBatch
  \/ CrashAndRestart

Spec == Init /\ [][Next]_vars

\* The Go scheduler runs the two goroutines; the ticker keeps ticking.  Nothing is
\* assumed of those who call Add or Close, of the consumer, of crashes, or of which
\* calls of package os fail.
LiveSpec == Spec /\ WF_vars(WriterStep) /\ WF_vars(ReaderStep)

-----------------------------------------------------------------------------
(* Properties. *)

\* Every variable keeps its shape and every channel its capacity.
TypeOK ==
  /\ closed \in BOOLEAN /\ last \in BOOLEAN /\ whole \in BOOLEAN /\ batchesClosed \in BOOLEAN
  /\ Len(in) <= BufferSize
  /\ adding \in [Adders -> {"idle", "checked"}]
  /\ Len(batch) <= MaxBatchSize
  /\ writer \in {"select", "flush", "write", "evict", "trim", "unlink", "done"}
  /\ writer = "select" => Len(batch) < MaxBatchSize
  /\ Len(unwritten) <= Len(batch)
  /\ linked \cup files \subseteq DOMAIN lines /\ unstatted \subseteq files /\ total \in Int
  /\ \A f \in DOMAIN lines : Len(lines[f]) <= MaxBatchSize
  /\ reader \in {"list", "open", "scan", "remove", "done"}
  /\ reading \in 0..Len(lines)
  /\ Len(readBatch) < MaxBatchSize
  /\ Len(batches) <= BatchCap
  /\ closing \in {"idle", "waiting", "returned"}
  /\ faults \in 0..MaxFaults
  /\ InMemory \cup Spooled \cup Range(delivered) \subseteq 1..accepted

\* Batches come back in order (disk_buffer.go:20) as long as the process lives: the
\* consumer sees entries in the order of Add and none of them twice, whatever is
\* evicted or dropped and whoever is writing or evicting the file that is read.  Only a
\* file that could not be removed comes again.
ReadBackInOrder ==
  \A i, j \in DOMAIN delivered :
    i < j /\ delivered[j] \notin resent => delivered[i] < delivered[j]

\* A file that was complete when the reader opened it, possibly before a crash, and that
\* the scanner read to its end without an error is removed only after each entry in it
\* went through a flush: reading it races with eviction and with the writer's next files
\* but loses nothing.  Blank lines, left by entries that json.Marshal refused, are no
\* entries.  A file that os.Open refuses is removed unread.
WholeFileIsHandedOver ==
  reader = "remove" /\ whole => Range(lines[reading]) \ Unencodable \subseteq handed

\* An accepted entry is in memory, in a file of the directory, handed on or evicted, or
\* it was lost where the code gives it up: with a file that cannot be created, written,
\* opened or read, as a blank line that json.Marshal left, behind a line that is too long,
\* in a file that the reader removed while it was written, or in the memory of a process
\* that crashed.  Closing at any time, stale sizes and listings, files that cannot be
\* removed and the next start lose nothing else.
NothingElseIsLost ==
  1..accepted \subseteq
    Range(in) \cup Range(batch) \cup Spooled \cup Unread \cup handed \cup evicted \cup gone

\* The disk budget is exceeded only from the creation of a file to the end of the
\* eviction after it, by no more than that batch, and by one batch for each crash that
\* came in between and each call of package os that failed.  The reader may remove files
\* while evictIfNeeded works with the sizes it saw before.
DiskBudget ==
  Size(linked) <= MaxDiskLines + (crashes + faults) * MaxBatchSize
                  + (IF writer \in {"write", "evict", "trim", "unlink"} THEN MaxBatchSize ELSE 0)

\* A batch that was written is read back (disk_buffer.go:20): a line in a file that
\* the writer has finished leaves the directory only by eviction or through a flush
\* of sendFile.
WrittenIsReadBack ==
  [][writer = "write" /\ writer' = "evict" =>
       Range(lines[Len(lines)]) \subseteq Spooled \cup Unread \cup handed \cup evicted]_vars

\* The spool drains: as entries come to an end, every file is read or evicted, by this
\* process or the next, unless the buffer is closed, if package os fails only finitely
\* often.
SpoolDrains == linked # {} ~> linked = {} \/ closed
=============================================================================
