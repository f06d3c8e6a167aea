----------------------------- MODULE S3Adapter -----------------------------
(***************************************************************************)
(* The S3 output (pkg/output/s3.go).  Send appends to a buffer and uploads  *)
(* it when it is full; flushLoop uploads it when the ticker fires and once  *)
(* more when Close stops it.  The caller is the router's goroutine for this *)
(* output, which repeats a failed Send up to Retries times.  Nothing keeps  *)
(* it from a Send during Close, when the adapter is removed, or after it,   *)
(* when the processor is started again; a second Close panics.              *)
(*                                                                          *)
(* An entry is its number in the order of arrival.  The clock counts the    *)
(* milliseconds of generateKey, which has no finer resolution.              *)
(***************************************************************************)
EXTENDS Naturals, Sequences, FiniteSets, Functions

CONSTANTS
  BatchSize,    \* S3Adapter.batchSize
  MaxRetries,   \* S3Adapter.maxRetries: an upload makes MaxRetries + 1 attempts
  Retries,      \* the router's attempts at one Send
  Unencodable,  \* the entries that json.Marshal refuses, as those of the year 10000
  MaxSend,      \* bound: entries in one Send
  MaxEntries,   \* bound: entries sent in one behaviour
  MaxTime       \* bound: the clock

ASSUME S3Assumption ==
  /\ {BatchSize, Retries, MaxSend} \subseteq Nat \ {0}
  /\ {MaxRetries, MaxEntries, MaxTime} \subseteq Nat
  /\ Unencodable \subseteq Nat

Uploaders == {"sender", "flusher"}   \* the goroutines that run uploadBatch
NoUpload == [entries |-> <<>>, key |-> 0, tries |-> 0]

VARIABLES
  now,         \* the clock
  buffer,      \* s.buffer
  upload,      \* upload[u]: the uploadBatch u is in, or NoUpload
  sender,      \* where the router's goroutine is
  current,     \* the entries of its Send
  attempts,    \* the router's failed attempts at them
  flusher,     \* where flushLoop is
  closing,     \* where Close is
  bucket,      \* the objects: under each key, the lines of the batch written last
  sent,        \* history: how many entries were handed to Send
  acked,       \* history: the entries for which a Send returned nil
  refused,     \* history: the entries for which a Send returned an error
  givenUp,     \* history: the entries of uploads that failed for good
  overwritten, \* history: the entries another upload's object replaced
  late         \* history: the entries put into the buffer after flushLoop's last look at it

history == <<sent, acked, refused, givenUp, overwritten, late>>
vars == <<now, buffer, upload, sender, current, attempts, flusher, closing, bucket,
          sent, acked, refused, givenUp, overwritten, late>>

Init ==
  /\ now = 0
  /\ buffer = <<>>
  /\ upload = [u \in Uploaders |-> NoUpload]
  /\ sender = "idle"
  /\ current = <<>>
  /\ attempts = 0
  /\ flusher = "select"
  /\ closing = "idle"
  /\ bucket = [k \in 0..MaxTime |-> <<>>]
  /\ sent = 0
  /\ acked = {}
  /\ refused = {}
  /\ givenUp = {}
  /\ overwritten = {}
  /\ late = {}

\* The panic of a second Close ends the process.
Alive == closing # "panic"

\* flushLoop has taken the buffer for the last time.
LoopEnded == flusher \in {"lastUpload", "done"}

Stored == UNION {Range(bucket[k]) : k \in 0..MaxTime}

-----------------------------------------------------------------------------
(* Send *)

\* Mutant of AppendToBuffer: the new entries alone are uploaded when the buffer is
\* full, and the buffer is emptied.
AppendToBuffer_NewOnly(entries) ==
  IF Len(buffer \o entries) >= BatchSize
  THEN /\ upload' = [upload EXCEPT !["sender"] = [entries |-> entries, key |-> now, tries |-> 0]]
       /\ buffer' = <<>>
       /\ sender' = "upload"
       /\ late' = late \ Range(buffer \o entries)
       /\ UNCHANGED acked
  ELSE /\ buffer' = buffer \o entries
       /\ sender' = "idle"
       /\ acked' = acked \cup Range(entries)
       /\ late' = IF LoopEnded THEN late \cup Range(entries) ELSE late
       /\ UNCHANGED upload

\* The entries join the buffer; a full buffer is taken out and uploaded.  After the end
\* of flushLoop only a full buffer is.
AppendToBuffer(entries) ==
  LET all == buffer \o entries
  IN IF Len(all) >= BatchSize
     THEN /\ upload' = [upload EXCEPT !["sender"] = [entries |-> all, key |-> now, tries |-> 0]]
          /\ buffer' = <<>>
          /\ sender' = "upload"
          /\ late' = late \ Range(all)
          /\ UNCHANGED acked
     ELSE /\ buffer' = all
          /\ sender' = "idle"
          /\ acked' = acked \cup Range(entries)
          /\ late' = IF LoopEnded THEN late \cup Range(entries) ELSE late
          /\ UNCHANGED upload

\* The router hands over the next n entries.
Send(n) ==
  /\ Alive
  /\ sender = "idle"
  /\ sent + n <= MaxEntries
  /\ current' = [i \in 1..n |-> sent + i]
  /\ sent' = sent + n
  /\ attempts' = 0
  /\ AppendToBuffer(current')
  /\ UNCHANGED <<now, flusher, closing, bucket, refused, givenUp, overwritten>>

\* The router's backoff is over and it sends the same entries again.
SendAgain ==
  /\ Alive
  /\ sender = "backoff"
  /\ AppendToBuffer(current)
  /\ UNCHANGED <<now, current, attempts, flusher, closing, bucket, sent, refused,
                 givenUp, overwritten>>

\* uploadBatch has ended: Send returns what it returned.
SendReturns(ok) ==
  /\ sender = "upload"
  /\ IF ok
     THEN /\ acked' = acked \cup Range(current)
          /\ sender' = "idle"
          /\ UNCHANGED <<attempts, refused>>
     ELSE /\ refused' = refused \cup Range(current)
          /\ attempts' = attempts + 1
          /\ sender' = IF attempts + 1 < Retries THEN "backoff" ELSE "idle"
          /\ UNCHANGED acked

-----------------------------------------------------------------------------
(* flushLoop *)

TakeBuffer(next) ==
  /\ upload' = [upload EXCEPT !["flusher"] = [entries |-> buffer, key |-> now, tries |-> 0]]
  /\ buffer' = <<>>
  /\ flusher' = next

\* The ticker fires and there is something to upload.
FlushTick ==
  /\ Alive
  /\ flusher = "select"
  /\ buffer # <<>>
  /\ TakeBuffer("upload")
  /\ UNCHANGED <<now, sender, current, attempts, closing, bucket, history>>

\* Mutant of FlushStop: the loop returns at once.
FlushStop_NoUpload ==
  /\ Alive
  /\ flusher = "select"
  /\ closing = "waiting"
  /\ flusher' = "done"
  /\ UNCHANGED <<now, buffer, upload, sender, current, attempts, closing, bucket, history>>

\* stopCh is closed: a last upload if there is anything, then return.
FlushStop ==
  /\ Alive
  /\ flusher = "select"
  /\ closing = "waiting"
  /\ IF buffer # <<>>
     THEN TakeBuffer("lastUpload")
     ELSE flusher' = "done" /\ UNCHANGED <<buffer, upload>>
  /\ UNCHANGED <<now, sender, current, attempts, closing, bucket, history>>

\* Mutant of FlushReturns: a failed upload ends the loop.
FlushReturns_StopsOnError(ok) ==
  /\ flusher \in {"upload", "lastUpload"}
  /\ flusher' = IF flusher = "upload" /\ ok THEN "select" ELSE "done"

\* uploadBatch has ended; an error is only logged.
FlushReturns(ok) ==
  /\ flusher \in {"upload", "lastUpload"}
  /\ flusher' = IF flusher = "upload" THEN "select" ELSE "done"

-----------------------------------------------------------------------------
(* uploadBatch, run by u *)

UploadEnds(u, ok) ==
  /\ upload' = [upload EXCEPT ![u] = NoUpload]
  /\ IF u = "sender"
     THEN SendReturns(ok) /\ UNCHANGED flusher
     ELSE FlushReturns(ok) /\ UNCHANGED <<sender, attempts, acked, refused>>

\* The lines of an object: an entry that cannot be encoded is skipped, and the upload
\* succeeds without it.
Lines(entries) == [i \in {j \in DOMAIN entries : entries[j] \notin Unencodable} |-> entries[i]]

\* The object is written, over whatever another upload had put under the same key.
PutObject(u) ==
  LET e == Lines(upload[u].entries)
      k == upload[u].key
  IN /\ bucket' = [bucket EXCEPT ![k] = e]
     /\ overwritten' = overwritten \cup (Range(bucket[k]) \ Range(e))

\* PutObject succeeds.
PutSucceeds(u) ==
  /\ Alive
  /\ upload[u] # NoUpload
  /\ PutObject(u)
  /\ UploadEnds(u, TRUE)
  /\ UNCHANGED <<now, buffer, current, closing, sent, givenUp, late>>

\* Mutant of PutFails: each attempt generates a key of its own.
PutFails_NewKey(u) ==
  /\ Alive
  /\ upload[u] # NoUpload
  /\ PutObject(u) \/ UNCHANGED <<bucket, overwritten>>
  /\ IF upload[u].tries < MaxRetries
     THEN /\ upload' = [upload EXCEPT ![u].tries = @ + 1, ![u].key = now]
          /\ UNCHANGED <<sender, attempts, flusher, acked, refused, givenUp>>
     ELSE /\ UploadEnds(u, FALSE)
          /\ givenUp' = givenUp \cup Range(upload[u].entries)
  /\ UNCHANGED <<now, buffer, current, closing, sent, late>>

\* PutObject returns an error; the object may have been written all the same.  After
\* the last attempt the entries are gone.
PutFails(u) ==
  /\ Alive
  /\ upload[u] # NoUpload
  /\ PutObject(u) \/ UNCHANGED <<bucket, overwritten>>
  /\ IF upload[u].tries < MaxRetries
     THEN /\ upload' = [upload EXCEPT ![u].tries = @ + 1]
          /\ UNCHANGED <<sender, attempts, flusher, acked, refused, givenUp>>
     ELSE /\ UploadEnds(u, FALSE)
          /\ givenUp' = givenUp \cup Range(upload[u].entries)
  /\ UNCHANGED <<now, buffer, current, closing, sent, late>>

-----------------------------------------------------------------------------
(* Close, called by Router.Close, which the end of every Processor.Stop calls, and by *)
(* RemoveAdapter, both under the lock of the router.                                   *)

Close ==
  /\ closing = "idle"
  /\ closing' = "waiting"
  /\ UNCHANGED <<now, buffer, upload, sender, current, attempts, flusher, bucket,
                 history>>

\* Router.Close of a second Stop: stopCh is closed already.
CloseAgain ==
  /\ closing = "returned"
  /\ closing' = "panic"
  /\ UNCHANGED <<now, buffer, upload, sender, current, attempts, flusher, bucket,
                 history>>

CloseReturns ==
  /\ closing = "waiting"
  /\ flusher = "done"
  /\ closing' = "returned"
  /\ UNCHANGED <<now, buffer, upload, sender, current, attempts, flusher, bucket,
                 history>>

Tick ==
  /\ Alive /\ now < MaxTime
  /\ now' = now + 1
  /\ UNCHANGED <<buffer, upload, sender, current, attempts, flusher, closing, bucket,
                 history>>

-----------------------------------------------------------------------------

FlushLoop == FlushTick \/ FlushStop

Next ==
  \/ \E n \in 1..MaxSend : Send(n)
  \/ SendAgain
  \/ FlushLoop
  \/ \E u \in Uploaders : PutSucceeds(u) \/ PutFails(u)
  \/ Close
  \/ CloseAgain
  \/ CloseReturns
  \/ Tick

Spec == Init /\ [][Next]_vars

\* The ticker fires, every PutObject returns, and a pause ends; no upload need ever
\* succeed, and nobody need ever call Send or Close.
LiveSpec ==
  /\ Spec
  /\ WF_vars(FlushLoop)
  /\ \A u \in Uploaders : WF_vars(PutSucceeds(u) \/ PutFails(u))
  /\ WF_vars(SendAgain)

-----------------------------------------------------------------------------
(* Properties. *)

\* Every variable keeps its shape; the buffer never rests at BatchSize.
TypeOK ==
  /\ now \in 0..MaxTime
  /\ buffer \in Seq(Nat) /\ Len(buffer) < BatchSize
  /\ upload \in [Uploaders -> [entries : Seq(Nat), key : 0..MaxTime, tries : 0..MaxRetries]]
  /\ sender \in {"idle", "upload", "backoff"}
  /\ current \in Seq(Nat)
  /\ attempts \in 0..Retries
  /\ flusher \in {"select", "upload", "lastUpload", "done"}
  /\ closing \in {"idle", "waiting", "returned", "panic"}
  /\ bucket = [k \in 0..MaxTime |-> bucket[k]]
  /\ \A k \in 0..MaxTime : Range(bucket[k]) \subseteq 1..sent
  /\ sent \in 0..MaxEntries
  /\ acked \cup refused \cup givenUp \cup overwritten \cup late \subseteq 1..sent

\* What is still on its way: the buffer counts while flushLoop will look at it.
InFlight ==
  (IF LoopEnded THEN {} ELSE Range(buffer)) \cup UNION {Range(upload[u].entries) : u \in Uploaders}

\* An acknowledged entry is in the bucket, on its way there, in an upload that
\* failed for good and was reported, or under an object that another upload of the
\* same millisecond replaced, unless it could not be encoded or was sent to an adapter
\* that is closing: flushLoop and Send never lose one between them, and Close loses none
\* that was in the buffer when flushLoop was stopped.
NothingVanishes ==
  acked \subseteq Stored \cup InFlight \cup givenUp \cup overwritten \cup Unencodable \cup late

\* An entry is in two objects, or twice in one, only if a Send of it had returned
\* an error: the upload's own retries, and the race of Send with flushLoop, never
\* duplicate.
DuplicatesOnlyAfterError ==
  \A k, l \in 0..MaxTime : \A i \in DOMAIN bucket[k], j \in DOMAIN bucket[l] :
    bucket[k][i] = bucket[l][j] => <<k, i>> = <<l, j>> \/ bucket[k][i] \in refused

\* An acknowledged entry does not wait for a full buffer: it reaches the bucket, or
\* its upload fails for good.  The exceptions are an entry that json.Marshal refuses, one
\* that came after flushLoop's last look at the buffer, and the end of the process in the
\* panic of a second Close.
AckedIsSettled ==
  \A e \in 1..MaxEntries :
    e \in acked ~> e \in Stored \cup givenUp \cup overwritten \cup Unencodable \cup late \/ ~Alive
=============================================================================
