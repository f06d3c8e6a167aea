------------------------- MODULE S3Adapter_proofs --------------------------
(***************************************************************************)
(* Proofs about S3Adapter, for every batch size, every number of attempts   *)
(* of the adapter and of the router, and all sequences of Sends.            *)
(***************************************************************************)
EXTENDS S3Adapter, SequenceTheorems, TLAPS

-----------------------------------------------------------------------------
(* The lines of an object are those entries of its batch that can be encoded. *)

LEMMA LinesOfBatch ==
  ASSUME NEW s
  PROVE  /\ Range(Lines(s)) = Range(s) \ Unencodable
         /\ \A i \in DOMAIN Lines(s) : i \in DOMAIN s /\ Lines(s)[i] = s[i]
BY DEF Lines, Range

-----------------------------------------------------------------------------
(* Type correctness. *)

\* An attempt of the router is left while it sends or pauses, and who is not uploading
\* has nothing to upload.
Room ==
  /\ sender \in {"upload", "backoff"} => attempts < Retries
  /\ sender # "upload" => upload["sender"] = NoUpload
  /\ flusher \in {"select", "done"} => upload["flusher"] = NoUpload

\* What is sent or on its way has arrived.
Arrived ==
  /\ Range(current) \subseteq 1..sent
  /\ Range(buffer) \subseteq 1..sent
  /\ \A u \in Uploaders : Range(upload[u].entries) \subseteq 1..sent

ArrivedInv == TypeOK /\ Room /\ Arrived

UploadState == [entries : Seq(Nat), key : 0..MaxTime, tries : 0..MaxRetries]

LEMMA Positive ==
  /\ BatchSize \in Nat \ {0} /\ Retries \in Nat \ {0} /\ MaxSend \in Nat \ {0}
  /\ MaxRetries \in Nat /\ MaxEntries \in Nat /\ MaxTime \in Nat
BY S3Assumption

LEMMA EmptyRange == Range(<<>>) = {} /\ <<>> \in Seq(Nat)
BY DEF Range

LEMMA NothingUploaded == NoUpload \in UploadState /\ NoUpload.entries = <<>>
BY Positive, EmptyRange DEF NoUpload, UploadState

LEMMA TypeInit == Init => ArrivedInv
<1> SUFFICES ASSUME Init PROVE ArrivedInv
  OBVIOUS
<1>1. TypeOK
  BY Positive, EmptyRange, NothingUploaded DEF Init, TypeOK, UploadState
<1>2. Room
  BY DEF Init, Room, Uploaders
<1>3. Arrived
  BY EmptyRange, NothingUploaded DEF Init, Arrived
<1> QED  BY <1>1, <1>2, <1>3 DEF ArrivedInv

\* Send's critical section: the entries join the buffer, or leave with it.
LEMMA TypeAppend ==
  ASSUME ArrivedInv, sender # "upload", NEW entries \in Seq(Nat), AppendToBuffer(entries),
         sent' \in sent..MaxEntries, Range(entries) \subseteq 1..sent', current' = entries,
         attempts' \in Nat, attempts' < Retries,
         UNCHANGED <<now, flusher, closing, bucket, refused, givenUp, overwritten>>
  PROVE  ArrivedInv'
<1> DEFINE all == buffer \o entries
<1>0. /\ now' \in 0..MaxTime /\ current' \in Seq(Nat) /\ attempts' \in 0..Retries
      /\ flusher' \in {"select", "upload", "lastUpload", "done"}
      /\ closing' \in {"idle", "waiting", "returned", "panic"}
      /\ bucket' = [k \in 0..MaxTime |-> bucket'[k]]
  BY Positive DEF ArrivedInv, TypeOK
<1>1. /\ now \in 0..MaxTime /\ buffer \in Seq(Nat) /\ Len(buffer) < BatchSize
      /\ upload \in [Uploaders -> UploadState] /\ sent \in 0..MaxEntries
      /\ "sender" \in Uploaders /\ "flusher" \in Uploaders
  BY DEF ArrivedInv, TypeOK, UploadState, Uploaders
<1>2. /\ all \in Seq(Nat) /\ Range(all) = Range(buffer) \cup Range(entries)
      /\ Len(all) \in Nat
  BY <1>1, RangeConcatenation, ConcatProperties, LenProperties
<1>3. sent' \in 0..MaxEntries /\ 1..sent \subseteq 1..sent'
  BY <1>1, Positive
<1>4. /\ Range(all) \subseteq 1..sent'
      /\ \A k \in 0..MaxTime : Range(bucket'[k]) \subseteq 1..sent'
      /\ acked \cup refused \cup givenUp \cup overwritten \cup late \subseteq 1..sent'
  BY <1>2, <1>3 DEF ArrivedInv, Arrived, TypeOK
<1> HIDE DEF all
<1>5. CASE Len(all) >= BatchSize
  <2>1. /\ upload' = [upload EXCEPT !["sender"] = [entries |-> all, key |-> now, tries |-> 0]]
        /\ buffer' = <<>> /\ sender' = "upload" /\ UNCHANGED acked
        /\ late' = late \ Range(all)
    BY <1>5 DEF AppendToBuffer, all
  <2>2. [entries |-> all, key |-> now, tries |-> 0] \in UploadState
    BY <1>1, <1>2, Positive DEF UploadState
  <2>3. upload' \in [Uploaders -> UploadState]
    BY <1>1, <2>1, <2>2
  <2>4. /\ upload'["sender"].entries = all
        /\ upload'["flusher"] = upload["flusher"]
    BY <1>1, <2>1
  <2>5. TypeOK'
    <3>1. acked' \cup refused' \cup givenUp' \cup overwritten' \cup late' \subseteq 1..sent'
      BY <1>4, <2>1
    <3>2. buffer' \in Seq(Nat) /\ Len(buffer') < BatchSize
      BY <2>1, EmptyRange, Positive
    <3> QED  BY <1>0, <1>3, <1>4, <2>1, <2>3, <3>1, <3>2 DEF TypeOK, UploadState
  <2>6. Room'
    BY <2>1, <2>4 DEF ArrivedInv, Room
  <2>7. Arrived'
    BY <1>3, <1>4, <2>1, <2>4, EmptyRange DEF ArrivedInv, Arrived, Uploaders
  <2> QED  BY <2>5, <2>6, <2>7 DEF ArrivedInv
<1>6. CASE Len(all) < BatchSize
  <2>1. /\ buffer' = all /\ sender' = "idle" /\ acked' = acked \cup Range(entries)
        /\ UNCHANGED upload /\ late' \subseteq late \cup Range(entries)
    BY <1>2, <1>6, Positive DEF AppendToBuffer, all
  <2>2. TypeOK'
    <3>1. acked' \cup refused' \cup givenUp' \cup overwritten' \cup late' \subseteq 1..sent'
      BY <1>2, <1>4, <2>1
    <3>2. buffer' \in Seq(Nat) /\ Len(buffer') < BatchSize
      BY <1>2, <1>6, <2>1
    <3> QED  BY <1>0, <1>1, <1>3, <1>4, <2>1, <3>1, <3>2 DEF TypeOK, UploadState
  <2>3. Room'
    BY <2>1 DEF ArrivedInv, Room
  <2>4. Arrived'
    BY <1>3, <1>4, <2>1 DEF ArrivedInv, Arrived
  <2> QED  BY <2>2, <2>3, <2>4 DEF ArrivedInv
<1> QED  BY <1>2, <1>5, <1>6, Positive

\* An object written by u.
LEMMA TypePut ==
  ASSUME ArrivedInv, NEW u \in Uploaders, PutObject(u) \/ UNCHANGED <<bucket, overwritten>>
  PROVE  /\ bucket' = [k \in 0..MaxTime |-> bucket'[k]]
         /\ \A k \in 0..MaxTime : Range(bucket'[k]) \subseteq 1..sent
         /\ overwritten' \subseteq 1..sent
<1>1. /\ upload[u].key \in 0..MaxTime
      /\ bucket = [k \in 0..MaxTime |-> bucket[k]]
      /\ overwritten \subseteq 1..sent
      /\ Range(upload[u].entries) \subseteq 1..sent
      /\ \A k \in 0..MaxTime : Range(bucket[k]) \subseteq 1..sent
  BY DEF ArrivedInv, TypeOK, Arrived
<1>2. CASE PutObject(u)
  <2>1. Range(Lines(upload[u].entries)) \subseteq 1..sent
    BY <1>1, LinesOfBatch
  <2>2. /\ bucket' = [bucket EXCEPT ![upload[u].key] = Lines(upload[u].entries)]
        /\ overwritten' \subseteq overwritten \cup Range(bucket[upload[u].key])
    BY <1>2 DEF PutObject
  <2>3. /\ bucket'[upload[u].key] = Lines(upload[u].entries)
        /\ \A k \in (0..MaxTime) \ {upload[u].key} : bucket'[k] = bucket[k]
        /\ bucket' = [k \in 0..MaxTime |-> bucket'[k]]
    BY ONLY <1>1, <2>2
  <2> QED  BY ONLY <1>1, <2>1, <2>2, <2>3
<1>3. CASE UNCHANGED <<bucket, overwritten>>
  BY <1>1, <1>3
<1> QED  BY <1>2, <1>3

\* The end of an upload.
LEMMA TypeEnds ==
  ASSUME ArrivedInv, NEW u \in Uploaders, NEW ok \in BOOLEAN, UploadEnds(u, ok),
         PutObject(u) \/ UNCHANGED <<bucket, overwritten>>,
         givenUp' \in {givenUp, givenUp \cup Range(upload[u].entries)},
         UNCHANGED <<now, buffer, current, closing, sent, late>>
  PROVE  ArrivedInv'
<1>1. /\ upload \in [Uploaders -> UploadState] /\ sent \in 0..MaxEntries
      /\ attempts \in 0..Retries
      /\ acked \cup refused \cup givenUp \cup late \subseteq 1..sent
      /\ "sender" \in Uploaders /\ "flusher" \in Uploaders
  BY DEF ArrivedInv, TypeOK, UploadState, Uploaders
<1>2. upload' = [upload EXCEPT ![u] = NoUpload]
  BY DEF UploadEnds
<1>3. /\ upload' \in [Uploaders -> UploadState]
      /\ upload'[u] = NoUpload
      /\ \A v \in Uploaders \ {u} : upload'[v] = upload[v]
  BY <1>1, <1>2, NothingUploaded
<1>4. Range(current) \subseteq 1..sent /\ Range(upload[u].entries) \subseteq 1..sent
  BY DEF ArrivedInv, Arrived
<1>5. Arrived'
  <2>1. \A v \in Uploaders : Range(upload'[v].entries) \subseteq 1..sent
    BY <1>3, NothingUploaded, EmptyRange DEF ArrivedInv, Arrived
  <2> QED  BY <2>1 DEF ArrivedInv, Arrived
<1>6. CASE u = "sender"
  <2>1. SendReturns(ok) /\ UNCHANGED flusher
    BY <1>6 DEF UploadEnds
  <2>2. /\ attempts' \in 0..Retries /\ sender' \in {"idle", "backoff"}
        /\ sender' = "backoff" => attempts' < Retries
    BY <1>1, <2>1, Positive DEF SendReturns, ArrivedInv, Room
  <2>3. acked' \cup refused' \subseteq 1..sent
    BY <1>1, <1>4, <2>1 DEF SendReturns
  <2>4. acked' \cup refused' \cup givenUp' \cup overwritten' \cup late' \subseteq 1..sent
    BY <1>1, <1>4, <2>3, TypePut
  <2>5. TypeOK'
    BY <1>3, <2>1, <2>2, <2>4, TypePut DEF ArrivedInv, TypeOK, UploadState
  <2>6. Room'
    BY <1>1, <1>3, <1>6, <2>1, <2>2 DEF ArrivedInv, Room
  <2> QED  BY <1>5, <2>5, <2>6 DEF ArrivedInv
<1>7. CASE u = "flusher"
  <2>1. FlushReturns(ok) /\ UNCHANGED <<sender, attempts, acked, refused>>
    BY <1>7 DEF UploadEnds
  <2>2. flusher' \in {"select", "done"}
    BY <2>1 DEF FlushReturns
  <2>3. acked' \cup refused' \cup givenUp' \cup overwritten' \cup late' \subseteq 1..sent
    BY <1>1, <1>4, <2>1, TypePut
  <2>4. TypeOK'
    BY <1>3, <2>1, <2>2, <2>3, TypePut DEF ArrivedInv, TypeOK, UploadState
  <2>5. Room'
    BY <1>1, <1>3, <1>7, <2>1, <2>2 DEF ArrivedInv, Room
  <2> QED  BY <1>5, <2>4, <2>5 DEF ArrivedInv
<1> QED  BY <1>6, <1>7 DEF Uploaders

\* flushLoop takes the buffer.
LEMMA TypeTake ==
  ASSUME ArrivedInv, NEW next \in {"upload", "lastUpload"}, TakeBuffer(next),
         flusher = "select",
         UNCHANGED <<now, sender, current, attempts, bucket, closing, history>>
  PROVE  ArrivedInv'
<1>1. /\ now \in 0..MaxTime /\ buffer \in Seq(Nat)
      /\ upload \in [Uploaders -> UploadState]
      /\ "sender" \in Uploaders /\ "flusher" \in Uploaders
  BY DEF ArrivedInv, TypeOK, UploadState, Uploaders
<1>2. [entries |-> buffer, key |-> now, tries |-> 0] \in UploadState
  BY <1>1, Positive DEF UploadState
<1>3. /\ upload' \in [Uploaders -> UploadState]
      /\ upload'["flusher"].entries = buffer
      /\ upload'["sender"] = upload["sender"]
      /\ buffer' = <<>> /\ flusher' = next
  BY <1>1, <1>2 DEF TakeBuffer
<1>4. TypeOK'
  <2>1. buffer' \in Seq(Nat) /\ Len(buffer') < BatchSize
    BY <1>3, EmptyRange, Positive
  <2> QED  BY <1>3, <2>1 DEF ArrivedInv, TypeOK, UploadState, history
<1>5. Room'
  BY <1>3 DEF ArrivedInv, Room
<1>6. Arrived'
  BY <1>3, EmptyRange DEF ArrivedInv, Arrived, history, Uploaders
<1> QED  BY <1>4, <1>5, <1>6 DEF ArrivedInv

LEMMA TypeStep == ArrivedInv /\ [Next]_vars => ArrivedInv'
<1> SUFFICES ASSUME ArrivedInv, [Next]_vars PROVE ArrivedInv'
  OBVIOUS
<1>1. ASSUME NEW n \in 1..MaxSend, Send(n) PROVE ArrivedInv'
  <2> DEFINE new == [i \in 1..n |-> sent + i]
  <2>1. sent \in 0..MaxEntries /\ n \in Nat
    BY Positive DEF ArrivedInv, TypeOK
  <2>2. new \in Seq(Nat) /\ Range(new) \subseteq 1..sent + n
    BY <2>1 DEF Range
  <2>3. sent' = sent + n /\ sent' \in sent..MaxEntries
    BY <1>1, <2>1, Positive DEF Send
  <2>4. current' = new /\ attempts' = 0 /\ 0 < Retries /\ sender # "upload"
    BY <1>1, Positive DEF Send
  <2>5. AppendToBuffer(new)
    BY <1>1, <2>4 DEF Send
  <2> HIDE DEF new
  <2> QED  BY <1>1, <2>2, <2>3, <2>4, <2>5, TypeAppend DEF Send
<1>2. CASE SendAgain
  <2>1. /\ current \in Seq(Nat) /\ Range(current) \subseteq 1..sent
        /\ attempts \in Nat /\ attempts < Retries /\ sent' \in sent..MaxEntries
    BY <1>2, Positive DEF SendAgain, ArrivedInv, TypeOK, Arrived, Room
  <2> QED  BY <1>2, <2>1, TypeAppend DEF SendAgain
<1>3. CASE FlushTick
  BY <1>3, TypeTake DEF FlushTick
<1>4. CASE FlushStop
  <2>1. CASE buffer # <<>>
    BY <1>4, <2>1, TypeTake DEF FlushStop
  <2>2. CASE buffer = <<>>
    BY <1>4, <2>2 DEF FlushStop, ArrivedInv, TypeOK, Room, Arrived, history
  <2> QED  BY <2>1, <2>2
<1>5. ASSUME NEW u \in Uploaders, PutSucceeds(u) PROVE ArrivedInv'
  BY <1>5, TypeEnds DEF PutSucceeds
<1>6. ASSUME NEW u \in Uploaders, PutFails(u) PROVE ArrivedInv'
  <2>1. CASE upload[u].tries < MaxRetries
    <3>1. /\ upload' = [upload EXCEPT ![u].tries = @ + 1]
          /\ UNCHANGED <<now, buffer, current, closing, sent, sender, attempts, flusher, acked,
                         refused, givenUp, late>>
      BY <1>6, <2>1 DEF PutFails
    <3>2. upload \in [Uploaders -> UploadState] /\ upload[u].tries \in 0..MaxRetries
      BY DEF ArrivedInv, TypeOK, UploadState
    <3>3. /\ upload' \in [Uploaders -> UploadState]
          /\ upload'[u].entries = upload[u].entries
          /\ \A v \in Uploaders \ {u} : upload'[v] = upload[v]
      <4> DEFINE again == [upload[u] EXCEPT !.tries = upload[u].tries + 1]
      <4>1. upload' = [upload EXCEPT ![u] = again]
        BY <3>1
      <4>2. again \in UploadState /\ again.entries = upload[u].entries
        <5>1. upload[u].tries + 1 \in 0..MaxRetries
          BY <2>1, <3>2, Positive
        <5>2. upload[u] \in UploadState
          BY <3>2
        <5> QED  BY ONLY <5>1, <5>2 DEF UploadState
      <4> HIDE DEF again
      <4> QED  BY <3>2, <4>1, <4>2
    <3>4. sender # "upload" => u # "sender"
      BY <1>6 DEF ArrivedInv, Room, PutFails
    <3>5. flusher \in {"select", "done"} => u # "flusher"
      BY <1>6 DEF ArrivedInv, Room, PutFails
    <3>6. PutObject(u) \/ UNCHANGED <<bucket, overwritten>>
      BY <1>6 DEF PutFails
    <3>7. TypeOK'
      <4>1. acked' \cup refused' \cup givenUp' \cup overwritten' \cup late' \subseteq 1..sent
        BY <3>1, <3>6, TypePut DEF ArrivedInv, TypeOK
      <4> QED  BY <3>1, <3>3, <3>6, <4>1, TypePut DEF ArrivedInv, TypeOK, UploadState
    <3>8. Room'
      BY <3>1, <3>3, <3>4, <3>5 DEF ArrivedInv, Room, Uploaders
    <3>9. Arrived'
      <4>1. \A v \in Uploaders : upload'[v].entries = upload[v].entries
        BY <3>3
      <4> QED  BY <3>1, <3>6, <4>1, TypePut DEF ArrivedInv, Arrived
    <3> QED  BY <3>7, <3>8, <3>9 DEF ArrivedInv
  <2>2. CASE ~(upload[u].tries < MaxRetries)
    BY <1>6, <2>2, TypeEnds DEF PutFails
  <2> QED  BY <2>1, <2>2
<1>7. CASE Close \/ CloseAgain \/ CloseReturns \/ Tick \/ UNCHANGED vars
  <2>1. now' \in 0..MaxTime
    BY <1>7, Positive DEF Close, CloseAgain, CloseReturns, Tick, vars, ArrivedInv, TypeOK
  <2> QED  BY <1>7, <2>1 DEF Close, CloseAgain, CloseReturns, Tick, vars, history, ArrivedInv, TypeOK, Room, Arrived
<1> QED  BY <1>1, <1>2, <1>3, <1>4, <1>5, <1>6, <1>7 DEF Next, FlushLoop

\* The adapter keeps its shape, its buffer never rests full, and no attempt of either
\* retry loop is made beyond its last, for every configuration.
THEOREM TypeCorrect == Spec => []TypeOK
<1>1. ArrivedInv => TypeOK
  BY DEF ArrivedInv
<1> QED  BY <1>1, TypeInit, TypeStep, PTL DEF Spec

-----------------------------------------------------------------------------
(* Nothing vanishes: the Send that waits for an upload waits for its own entries. *)

Settles == sender = "upload" => Range(current) \subseteq Range(upload["sender"].entries)

SafeInv == Settles /\ NothingVanishes

Safe == Stored \cup InFlight \cup givenUp \cup overwritten \cup Unencodable \cup late

\* Writing an object moves what was there to the replaced entries.
LEMMA PutKeeps ==
  ASSUME ArrivedInv, NEW u \in Uploaders, PutObject(u)
  PROVE  /\ Stored \cup overwritten \subseteq Stored' \cup overwritten'
         /\ Range(upload[u].entries) \subseteq Stored' \cup Unencodable
<1> DEFINE lines == Lines(upload[u].entries)
<1>1. /\ upload[u].key \in 0..MaxTime /\ bucket = [k \in 0..MaxTime |-> bucket[k]]
      /\ Range(lines) = Range(upload[u].entries) \ Unencodable
  BY LinesOfBatch DEF ArrivedInv, TypeOK
<1>2. /\ bucket' = [bucket EXCEPT ![upload[u].key] = lines]
      /\ overwritten' = overwritten \cup (Range(bucket[upload[u].key]) \ Range(lines))
  BY DEF PutObject
<1> HIDE DEF lines
<1>3. /\ bucket'[upload[u].key] = lines
      /\ \A k \in (0..MaxTime) \ {upload[u].key} : bucket'[k] = bucket[k]
  BY ONLY <1>1, <1>2
<1>4. Range(lines) \subseteq Stored'
  BY <1>1, <1>3 DEF Stored
<1>5. ASSUME NEW k \in 0..MaxTime, NEW e \in Range(bucket[k])
      PROVE  e \in Stored' \cup overwritten'
  <2>1. CASE k = upload[u].key
    BY <1>2, <1>4, <1>5, <2>1
  <2>2. CASE k # upload[u].key
    BY <1>3, <1>5, <2>2 DEF Stored
  <2> QED  BY <2>1, <2>2
<1> QED  BY <1>1, <1>2, <1>4, <1>5 DEF Stored

\* The end of an upload whose entries are in the bucket or given up.
LEMMA EndKeeps ==
  ASSUME ArrivedInv, SafeInv, NEW u \in Uploaders, NEW ok \in BOOLEAN, UploadEnds(u, ok),
         Stored \cup overwritten \cup givenUp \subseteq Stored' \cup overwritten' \cup givenUp',
         Range(upload[u].entries) \subseteq Stored' \cup givenUp' \cup Unencodable,
         UNCHANGED <<buffer, current, late>>
  PROVE  SafeInv'
<1>1. /\ upload \in [Uploaders -> UploadState]
      /\ "sender" \in Uploaders /\ "flusher" \in Uploaders
  BY DEF ArrivedInv, TypeOK, UploadState, Uploaders
<1>2. \A v \in Uploaders \ {u} : upload'[v] = upload[v]
  BY <1>1 DEF UploadEnds
<1>3. Safe \subseteq Safe'
  <2>1. LoopEnded' = LoopEnded
    BY DEF UploadEnds, FlushReturns, LoopEnded
  <2> QED  BY <1>2, <2>1 DEF Safe, InFlight
<1>4. CASE u = "sender"
  <2>1. SendReturns(ok)
    BY <1>4 DEF UploadEnds
  <2>2. acked' \subseteq acked \cup Range(current) /\ sender' # "upload" /\ sender = "upload"
    BY <2>1 DEF SendReturns
  <2>3. Range(current) \subseteq Safe'
    BY <1>4, <2>2 DEF SafeInv, Settles, Safe
  <2> QED  BY <1>3, <2>2, <2>3 DEF SafeInv, Settles, NothingVanishes, Safe
<1>5. CASE u = "flusher"
  <2>1. UNCHANGED <<sender, acked>> /\ upload'["sender"] = upload["sender"]
    BY <1>1, <1>2, <1>5 DEF UploadEnds
  <2> QED  BY <1>3, <2>1 DEF SafeInv, Settles, NothingVanishes, Safe
<1> QED  BY <1>4, <1>5 DEF Uploaders

LEMMA AppendKeeps ==
  ASSUME ArrivedInv, SafeInv, sender # "upload", NEW entries \in Seq(Nat),
         AppendToBuffer(entries), current' = entries,
         UNCHANGED <<bucket, flusher, givenUp, overwritten>>
  PROVE  SafeInv'
<1> DEFINE all == buffer \o entries
<1>1. /\ buffer \in Seq(Nat) /\ upload \in [Uploaders -> UploadState]
      /\ "sender" \in Uploaders /\ "flusher" \in Uploaders
  BY DEF ArrivedInv, TypeOK, UploadState, Uploaders
<1>2. Range(all) = Range(buffer) \cup Range(entries)
  BY <1>1, RangeConcatenation
<1>3. Range(upload["sender"].entries) = {}
  BY NothingUploaded, EmptyRange DEF ArrivedInv, Room
<1> HIDE DEF all
<1>4. CASE Len(all) >= BatchSize
  <2>1. /\ upload' = [upload EXCEPT !["sender"] = [entries |-> all, key |-> now, tries |-> 0]]
        /\ sender' = "upload" /\ UNCHANGED acked /\ late' = late \ Range(all)
    BY <1>4 DEF AppendToBuffer, all
  <2>2. upload'["sender"].entries = all /\ upload'["flusher"] = upload["flusher"]
    BY <1>1, <2>1
  <2>3. Safe \subseteq Safe'
    BY <1>1, <1>2, <1>3, <2>1, <2>2 DEF Safe, InFlight, Stored, Uploaders
  <2> QED  BY <1>2, <2>1, <2>2, <2>3 DEF SafeInv, Settles, NothingVanishes, Safe
<1>5. CASE ~(Len(all) >= BatchSize)
  <2>1. /\ buffer' = all /\ sender' = "idle" /\ acked' = acked \cup Range(entries)
        /\ UNCHANGED upload /\ late' = IF LoopEnded THEN late \cup Range(entries) ELSE late
        /\ LoopEnded' = LoopEnded
    BY <1>5 DEF AppendToBuffer, all, LoopEnded
  <2>2. Safe \subseteq Safe' /\ Range(entries) \subseteq Safe'
    BY <1>2, <2>1 DEF Safe, InFlight, Stored
  <2> QED  BY <2>1, <2>2 DEF SafeInv, Settles, NothingVanishes, Safe
<1> QED  BY <1>4, <1>5

LEMMA SafeStep == ArrivedInv /\ SafeInv /\ [Next]_vars => SafeInv'
<1> SUFFICES ASSUME ArrivedInv, SafeInv, [Next]_vars PROVE SafeInv'
  OBVIOUS
<1>0. /\ upload \in [Uploaders -> UploadState]
      /\ "sender" \in Uploaders /\ "flusher" \in Uploaders
  BY DEF ArrivedInv, TypeOK, UploadState, Uploaders
<1>1. ASSUME NEW n \in 1..MaxSend, Send(n) PROVE SafeInv'
  <2> DEFINE new == [i \in 1..n |-> sent + i]
  <2>1. sent \in Nat /\ n \in Nat
    BY Positive DEF ArrivedInv, TypeOK
  <2>2. new \in Seq(Nat)
    BY <2>1
  <2>3. AppendToBuffer(new) /\ current' = new
    BY <1>1 DEF Send
  <2> HIDE DEF new
  <2> QED  BY <1>1, <2>2, <2>3, AppendKeeps DEF Send
<1>2. CASE SendAgain
  <2>1. current \in Seq(Nat)
    BY DEF ArrivedInv, TypeOK
  <2> QED  BY <1>2, <2>1, AppendKeeps DEF SendAgain
<1>3. ASSUME NEW next \in {"upload", "lastUpload"}, TakeBuffer(next), flusher = "select",
             UNCHANGED <<sender, current, bucket, history>>
      PROVE  SafeInv'
  <2>1. /\ upload'["flusher"].entries = buffer /\ upload'["sender"] = upload["sender"]
        /\ Range(upload["flusher"].entries) = {}
    BY <1>0, <1>3, NothingUploaded, EmptyRange DEF TakeBuffer, ArrivedInv, Room
  <2>2. Safe \subseteq Safe'
    BY <1>3, <2>1 DEF Safe, InFlight, Stored, Uploaders, history, LoopEnded
  <2> QED  BY <1>3, <2>1, <2>2 DEF SafeInv, Settles, NothingVanishes, Safe, history
<1>4. CASE FlushTick
  BY <1>3, <1>4 DEF FlushTick
<1>5. CASE FlushStop
  <2>1. CASE buffer # <<>>
    BY <1>3, <1>5, <2>1 DEF FlushStop
  <2>2. CASE buffer = <<>>
    <3>1. Safe \subseteq Safe'
      BY <1>5, <2>2, EmptyRange DEF FlushStop, Safe, Stored, InFlight, history
    <3> QED  BY <1>5, <2>2, <3>1 DEF FlushStop, SafeInv, Settles, NothingVanishes, Safe, history
  <2> QED  BY <2>1, <2>2
<1>6. ASSUME NEW u \in Uploaders, PutSucceeds(u) PROVE SafeInv'
  BY <1>6, PutKeeps, EndKeeps DEF PutSucceeds
<1>7. ASSUME NEW u \in Uploaders, PutFails(u) PROVE SafeInv'
  <2>1. Stored \cup overwritten \subseteq Stored' \cup overwritten'
    BY <1>7, PutKeeps DEF PutFails, Stored
  <2>2. CASE upload[u].tries < MaxRetries
    <3>1. /\ upload' = [upload EXCEPT ![u].tries = @ + 1]
          /\ UNCHANGED <<buffer, current, sender, flusher, acked, givenUp, late>>
      BY <1>7, <2>2 DEF PutFails
    <3>2. \A v \in Uploaders : upload'[v].entries = upload[v].entries
      BY <1>0, <3>1 DEF UploadState
    <3>3. Safe \subseteq Safe'
      BY <2>1, <3>1, <3>2 DEF Safe, InFlight, LoopEnded
    <3> QED  BY <1>0, <3>1, <3>2, <3>3 DEF SafeInv, Settles, NothingVanishes, Safe
  <2>3. CASE ~(upload[u].tries < MaxRetries)
    BY <1>7, <2>1, <2>3, EndKeeps DEF PutFails
  <2> QED  BY <2>2, <2>3
<1>8. CASE Close \/ CloseAgain \/ CloseReturns \/ Tick \/ UNCHANGED vars
  BY <1>8 DEF Close, CloseAgain, CloseReturns, Tick, vars, history, SafeInv, Settles,
              NothingVanishes, Stored, InFlight, LoopEnded
<1> QED  BY <1>1, <1>2, <1>4, <1>5, <1>6, <1>7, <1>8 DEF Next, FlushLoop

\* Send and flushLoop never lose an acknowledged entry between them, whatever uploads
\* fail and overwrite each other, and whenever Close comes: the entries at risk are those
\* that cannot be encoded and those sent to an adapter whose loop has ended.
THEOREM NothingVanishesHolds == Spec => []NothingVanishes
<1>1. Init => SafeInv
  BY DEF Init, SafeInv, Settles, NothingVanishes
<1>2. SafeInv => NothingVanishes
  BY DEF SafeInv
<1> QED  BY <1>1, <1>2, TypeInit, TypeStep, SafeStep, PTL DEF Spec

-----------------------------------------------------------------------------
(* No duplicates without an error: an entry that no Send has refused is in one place *)
(* of one of the buffer, the uploads and the objects, but for an object and the      *)
(* upload that has written it and will write it again under the same key.            *)

OnceIn(s, ok) == \A i, j \in DOMAIN s : s[i] = s[j] => i = j \/ s[i] \in ok

Apart(s, t, ok) == Range(s) \cap Range(t) \subseteq ok

Placed(b, up, bk, ok) ==
  /\ OnceIn(b, ok)
  /\ \A u \in Uploaders :
       /\ OnceIn(up[u].entries, ok)
       /\ Apart(b, up[u].entries, ok)
       /\ \A v \in Uploaders \ {u} : Apart(up[u].entries, up[v].entries, ok)
  /\ \A k \in 0..MaxTime :
       /\ OnceIn(bk[k], ok)
       /\ Apart(b, bk[k], ok)
       /\ \A l \in (0..MaxTime) \ {k} : Apart(bk[k], bk[l], ok)
       /\ \A u \in Uploaders :
            \/ Apart(bk[k], up[u].entries, ok)
            \/ k = up[u].key /\ bk[k] = Lines(up[u].entries)

OnceInv ==
  /\ Placed(buffer, upload, bucket, refused)
  /\ sender = "backoff" => Range(current) \subseteq refused

\* Refusals only help.
LEMMA PlacedMore ==
  ASSUME NEW b, NEW up, NEW bk, NEW ok, NEW more, ok \subseteq more, Placed(b, up, bk, ok)
  PROVE  Placed(b, up, bk, more)
BY DEF Placed, OnceIn, Apart

\* Writing an object.
LEMMA PlacedPut ==
  ASSUME ArrivedInv, NEW u \in Uploaders, PutObject(u), NEW ok,
         Placed(buffer, upload, bucket, ok)
  PROVE  Placed(buffer, upload, bucket', ok)
<1> DEFINE lines == Lines(upload[u].entries)
<1>1. /\ upload[u].key \in 0..MaxTime /\ bucket = [k \in 0..MaxTime |-> bucket[k]]
      /\ bucket' = [bucket EXCEPT ![upload[u].key] = lines]
  BY DEF ArrivedInv, TypeOK, PutObject
<1>0. /\ \A t : Apart(upload[u].entries, t, ok) => Apart(lines, t, ok)
      /\ \A t : Apart(t, upload[u].entries, ok) => Apart(t, lines, ok)
      /\ OnceIn(upload[u].entries, ok) => OnceIn(lines, ok)
  BY LinesOfBatch DEF Apart, OnceIn
<1> HIDE DEF lines
<1>2. /\ bucket'[upload[u].key] = lines
      /\ \A k \in (0..MaxTime) \ {upload[u].key} : bucket'[k] = bucket[k]
  BY ONLY <1>1
<1>3. ASSUME NEW k \in 0..MaxTime
      PROVE  /\ OnceIn(bucket'[k], ok)
             /\ Apart(buffer, bucket'[k], ok)
             /\ \A v \in Uploaders :
                  \/ Apart(bucket'[k], upload[v].entries, ok)
                  \/ k = upload[v].key /\ bucket'[k] = Lines(upload[v].entries)
  <2>1. CASE k = upload[u].key
    <3>1. /\ OnceIn(upload[u].entries, ok) /\ Apart(buffer, upload[u].entries, ok)
          /\ \A v \in Uploaders \ {u} : Apart(upload[u].entries, upload[v].entries, ok)
      BY DEF Placed
    <3> QED  BY <1>0, <1>2, <2>1, <3>1 DEF lines
  <2>2. CASE k # upload[u].key
    BY <1>2, <2>2 DEF Placed
  <2> QED  BY <2>1, <2>2
<1>4. ASSUME NEW l \in (0..MaxTime) \ {upload[u].key}
      PROVE  Apart(bucket'[l], upload[u].entries, ok)
  BY <1>1, <1>2 DEF Placed
<1>5. ASSUME NEW k \in 0..MaxTime, NEW l \in (0..MaxTime) \ {k}
      PROVE  Apart(bucket'[k], bucket'[l], ok)
  <2>1. CASE k = upload[u].key
    BY <1>0, <1>2, <1>4, <2>1 DEF Apart
  <2>2. CASE l = upload[u].key
    BY <1>0, <1>2, <1>4, <2>2 DEF Apart
  <2>3. CASE k # upload[u].key /\ l # upload[u].key
    BY <1>2, <2>3 DEF Placed
  <2> QED  BY <2>1, <2>2, <2>3
<1> QED  BY <1>3, <1>5 DEF Placed

\* The end of an upload.
LEMMA PlacedEnd ==
  ASSUME ArrivedInv, NEW u \in Uploaders, upload' = [upload EXCEPT ![u] = NoUpload],
         NEW bk, NEW ok, Placed(buffer, upload, bk, ok)
  PROVE  Placed(buffer, upload', bk, ok)
<1>1. upload \in [Uploaders -> UploadState]
  BY DEF ArrivedInv, TypeOK, UploadState
<1>2. upload'[u].entries = <<>> /\ \A v \in Uploaders \ {u} : upload'[v] = upload[v]
  BY <1>1, NothingUploaded
<1>3. \A s : Apart(s, <<>>, ok) /\ Apart(<<>>, s, ok) /\ OnceIn(<<>>, ok)
  BY EmptyRange DEF Apart, OnceIn
<1> QED  BY <1>2, <1>3 DEF Placed

\* An upload begins with entries that are nowhere else.
LEMMA PlacedBegin ==
  ASSUME ArrivedInv, NEW u \in Uploaders, NEW x,
         upload' = [upload EXCEPT ![u] = x], buffer' = <<>>, NEW ok,
         Placed(buffer, upload, bucket, ok),
         OnceIn(x.entries, ok),
         \A v \in Uploaders \ {u} : Apart(x.entries, upload[v].entries, ok),
         \A k \in 0..MaxTime : Apart(x.entries, bucket[k], ok)
  PROVE  Placed(buffer', upload', bucket, ok)
<1>1. upload \in [Uploaders -> UploadState]
  BY DEF ArrivedInv, TypeOK, UploadState
<1>2. upload'[u] = x /\ \A v \in Uploaders \ {u} : upload'[v] = upload[v]
  BY <1>1
<1>3. \A s : Apart(s, <<>>, ok) /\ Apart(<<>>, s, ok) /\ OnceIn(<<>>, ok)
  BY EmptyRange DEF Apart, OnceIn
<1>4. \A s, t : Apart(s, t, ok) <=> Apart(t, s, ok)
  BY DEF Apart
<1>5. ASSUME NEW v \in Uploaders
      PROVE  /\ OnceIn(upload'[v].entries, ok)
             /\ \A w \in Uploaders \ {v} : Apart(upload'[v].entries, upload'[w].entries, ok)
             /\ \A k \in 0..MaxTime :
                  \/ Apart(bucket[k], upload'[v].entries, ok)
                  \/ k = upload'[v].key /\ bucket[k] = Lines(upload'[v].entries)
  BY <1>2, <1>4 DEF Placed
<1> QED  BY <1>3, <1>5 DEF Placed

\* Entries that are apart from those of a sequence can be appended to it.
LEMMA OnceInConcat ==
  ASSUME NEW s \in Seq(Nat), NEW t \in Seq(Nat), NEW ok, OnceIn(s, ok), OnceIn(t, ok),
         Apart(s, t, ok)
  PROVE  OnceIn(s \o t, ok)
<1> DEFINE st == s \o t
<1>1. /\ Len(s) \in Nat /\ Len(t) \in Nat
      /\ DOMAIN s = 1..Len(s) /\ DOMAIN t = 1..Len(t)
      /\ DOMAIN st = 1..Len(s) + Len(t)
      /\ \A i \in 1..Len(s) + Len(t) : st[i] = IF i <= Len(s) THEN s[i] ELSE t[i - Len(s)]
  BY ConcatProperties, LenProperties
<1> HIDE DEF st
<1>2. SUFFICES ASSUME NEW i \in 1..Len(s) + Len(t), NEW j \in 1..Len(s) + Len(t),
                      st[i] = st[j], i < j
               PROVE  st[i] \in ok
  <2>1. ASSUME NEW i \in DOMAIN st, NEW j \in DOMAIN st, st[i] = st[j]
        PROVE  i = j \/ st[i] \in ok
    <3>1. i \in 1..Len(s) + Len(t) /\ j \in 1..Len(s) + Len(t)
      BY <1>1
    <3>2. i < j \/ j < i \/ i = j
      BY <1>1, <3>1
    <3> QED  BY <1>2, <2>1, <3>1, <3>2
  <2> QED  BY <2>1 DEF OnceIn, st
<1>3. CASE j <= Len(s)
  <2>1. i \in 1..Len(s) /\ j \in 1..Len(s) /\ st[i] = s[i] /\ st[j] = s[j] /\ i # j
    BY <1>1, <1>2, <1>3
  <2> QED  BY <1>1, <1>2, <2>1 DEF OnceIn
<1>4. CASE i > Len(s)
  <2>1. /\ i - Len(s) \in 1..Len(t) /\ j - Len(s) \in 1..Len(t) /\ i - Len(s) # j - Len(s)
        /\ st[i] = t[i - Len(s)] /\ st[j] = t[j - Len(s)]
    BY <1>1, <1>2, <1>4
  <2> QED  BY <1>1, <1>2, <2>1 DEF OnceIn
<1>5. CASE i <= Len(s) /\ j > Len(s)
  <2>1. /\ i \in 1..Len(s) /\ j - Len(s) \in 1..Len(t)
        /\ st[i] = s[i] /\ st[j] = t[j - Len(s)]
    BY <1>1, <1>2, <1>5
  <2>2. st[i] \in Range(s) /\ st[i] \in Range(t)
    BY <1>1, <1>2, <2>1 DEF Range
  <2> QED  BY <2>2 DEF Apart
<1> QED  BY <1>1, <1>3, <1>4, <1>5

\* Send's critical section, with entries that are nowhere yet or were refused.
LEMMA OnceAppend ==
  ASSUME ArrivedInv, OnceInv, sender # "upload", NEW entries \in Seq(Nat),
         AppendToBuffer(entries), OnceIn(entries, refused),
         Apart(entries, buffer, refused),
         \A u \in Uploaders : Apart(entries, upload[u].entries, refused),
         \A k \in 0..MaxTime : Apart(entries, bucket[k], refused),
         UNCHANGED <<bucket, refused>>
  PROVE  OnceInv'
<1> DEFINE all == buffer \o entries
<1>1. buffer \in Seq(Nat) /\ Placed(buffer, upload, bucket, refused)
  BY DEF ArrivedInv, TypeOK, OnceInv
<1>2. Range(all) = Range(buffer) \cup Range(entries)
  BY <1>1, RangeConcatenation
<1>3. OnceIn(all, refused)
  <2>1. OnceIn(buffer, refused) /\ Apart(buffer, entries, refused)
    BY <1>1 DEF Placed, Apart
  <2> QED  BY <1>1, <2>1, OnceInConcat
<1>4. /\ \A u \in Uploaders : Apart(all, upload[u].entries, refused)
      /\ \A k \in 0..MaxTime : Apart(all, bucket[k], refused)
  BY <1>1, <1>2 DEF Placed, Apart
<1> HIDE DEF all
<1>5. CASE Len(all) >= BatchSize
  <2> DEFINE x == [entries |-> all, key |-> now, tries |-> 0]
  <2>1. upload' = [upload EXCEPT !["sender"] = x] /\ buffer' = <<>> /\ sender' = "upload"
    BY <1>5 DEF AppendToBuffer, all
  <2>2. x.entries = all /\ "sender" \in Uploaders
    BY DEF Uploaders
  <2> HIDE DEF x
  <2>3. Placed(buffer', upload', bucket, refused)
    BY <1>1, <1>3, <1>4, <2>1, <2>2, PlacedBegin
  <2> QED  BY <2>1, <2>3 DEF OnceInv
<1>6. CASE ~(Len(all) >= BatchSize)
  <2>1. buffer' = all /\ sender' = "idle" /\ UNCHANGED upload
    BY <1>6 DEF AppendToBuffer, all
  <2>2. Placed(all, upload, bucket, refused)
    BY <1>1, <1>3, <1>4 DEF Placed
  <2> QED  BY <2>1, <2>2 DEF OnceInv
<1> QED  BY <1>5, <1>6

\* The end of an upload; a refused Send may come again.
LEMMA OnceEnd ==
  ASSUME ArrivedInv, OnceInv, NEW u \in Uploaders, NEW ok \in BOOLEAN, UploadEnds(u, ok),
         PutObject(u) \/ UNCHANGED <<bucket, overwritten>>,
         UNCHANGED <<buffer, current>>
  PROVE  OnceInv'
<1>1. upload' = [upload EXCEPT ![u] = NoUpload] /\ refused \subseteq refused'
  BY DEF UploadEnds, SendReturns
<1>2. Placed(buffer, upload, bucket', refused)
  BY PlacedPut DEF OnceInv
<1>3. Placed(buffer', upload', bucket', refused')
  BY <1>1, <1>2, PlacedEnd, PlacedMore
<1>4. sender' = "backoff" => Range(current') \subseteq refused'
  BY <1>1 DEF UploadEnds, SendReturns, OnceInv
<1> QED  BY <1>3, <1>4 DEF OnceInv

LEMMA OnceStep == ArrivedInv /\ OnceInv /\ [Next]_vars => OnceInv'
<1> SUFFICES ASSUME ArrivedInv, OnceInv, [Next]_vars PROVE OnceInv'
  OBVIOUS
<1>1. ASSUME NEW n \in 1..MaxSend, Send(n) PROVE OnceInv'
  <2> DEFINE new == [i \in 1..n |-> sent + i]
  <2>1. sent \in Nat /\ n \in Nat
    BY Positive DEF ArrivedInv, TypeOK
  <2>2. new \in Seq(Nat) /\ OnceIn(new, refused) /\ \A e \in Range(new) : e \notin 1..sent
    BY <2>1 DEF Range, OnceIn
  <2>3. AppendToBuffer(new) /\ sender # "upload"
    BY <1>1 DEF Send
  <2> HIDE DEF new
  <2>4. /\ Apart(new, buffer, refused)
        /\ \A u \in Uploaders : Apart(new, upload[u].entries, refused)
        /\ \A k \in 0..MaxTime : Apart(new, bucket[k], refused)
    BY <2>2 DEF Apart, ArrivedInv, Arrived, TypeOK
  <2> QED  BY <1>1, <2>2, <2>3, <2>4, OnceAppend DEF Send
<1>2. CASE SendAgain
  <2>1. current \in Seq(Nat) /\ Range(current) \subseteq refused /\ sender # "upload"
    BY <1>2 DEF SendAgain, ArrivedInv, TypeOK, OnceInv
  <2>2. OnceIn(current, refused) /\ \A s : Apart(current, s, refused)
    BY <2>1 DEF OnceIn, Apart, Range
  <2> QED  BY <1>2, <2>1, <2>2, OnceAppend DEF SendAgain
<1>3. ASSUME NEW next \in {"upload", "lastUpload"}, TakeBuffer(next),
             UNCHANGED <<sender, current, bucket, history>>
      PROVE  OnceInv'
  <2> DEFINE x == [entries |-> buffer, key |-> now, tries |-> 0]
  <2>1. upload' = [upload EXCEPT !["flusher"] = x] /\ buffer' = <<>>
    BY <1>3 DEF TakeBuffer
  <2>2. x.entries = buffer /\ "flusher" \in Uploaders
    BY DEF Uploaders
  <2> HIDE DEF x
  <2>3. Placed(buffer', upload', bucket, refused)
    BY <2>1, <2>2, PlacedBegin DEF OnceInv, Placed
  <2> QED  BY <1>3, <2>3 DEF OnceInv, history
<1>4. CASE FlushTick
  BY <1>3, <1>4 DEF FlushTick
<1>5. CASE FlushStop
  <2>1. CASE buffer # <<>>
    BY <1>3, <1>5, <2>1 DEF FlushStop
  <2>2. CASE buffer = <<>>
    BY <1>5, <2>2 DEF FlushStop, OnceInv, history
  <2> QED  BY <2>1, <2>2
<1>6. ASSUME NEW u \in Uploaders, PutSucceeds(u) PROVE OnceInv'
  BY <1>6, OnceEnd DEF PutSucceeds
<1>7. ASSUME NEW u \in Uploaders, PutFails(u) PROVE OnceInv'
  <2>1. CASE upload[u].tries < MaxRetries
    <3>1. /\ upload' = [upload EXCEPT ![u].tries = @ + 1]
          /\ UNCHANGED <<buffer, current, sender, refused>>
      BY <1>7, <2>1 DEF PutFails
    <3>2. Placed(buffer, upload, bucket', refused)
      BY <1>7, PlacedPut DEF PutFails, OnceInv
    <3>3. upload \in [Uploaders -> UploadState]
      BY DEF ArrivedInv, TypeOK, UploadState
    <3>4. \A v \in Uploaders :
            upload'[v].entries = upload[v].entries /\ upload'[v].key = upload[v].key
      BY <3>1, <3>3 DEF UploadState
    <3>5. Placed(buffer, upload', bucket', refused)
      BY <3>2, <3>4 DEF Placed
    <3> QED  BY <3>1, <3>5 DEF OnceInv
  <2>2. CASE ~(upload[u].tries < MaxRetries)
    BY <1>7, <2>2, OnceEnd DEF PutFails
  <2> QED  BY <2>1, <2>2
<1>8. CASE Close \/ CloseAgain \/ CloseReturns \/ Tick \/ UNCHANGED vars
  BY <1>8 DEF Close, CloseAgain, CloseReturns, Tick, vars, history, OnceInv
<1> QED  BY <1>1, <1>2, <1>4, <1>5, <1>6, <1>7, <1>8 DEF Next, FlushLoop

\* The upload's own retries and the race of Send with flushLoop put no entry into the
\* bucket twice, in one object or in two, unless a Send of it had returned an error.
THEOREM DuplicatesOnlyAfterErrorHolds == Spec => []DuplicatesOnlyAfterError
<1>1. Init => OnceInv
  <2>1. \A s, ok : Apart(s, <<>>, ok) /\ Apart(<<>>, s, ok) /\ OnceIn(<<>>, ok)
    BY EmptyRange DEF Apart, OnceIn
  <2>2. NoUpload.entries = <<>>
    BY NothingUploaded
  <2> QED  BY <2>1, <2>2 DEF Init, OnceInv, Placed
<1>2. OnceInv => DuplicatesOnlyAfterError
  <2> SUFFICES ASSUME OnceInv, NEW k \in 0..MaxTime, NEW l \in 0..MaxTime,
                      NEW i \in DOMAIN bucket[k], NEW j \in DOMAIN bucket[l],
                      bucket[k][i] = bucket[l][j]
               PROVE  <<k, i>> = <<l, j>> \/ bucket[k][i] \in refused
    BY DEF DuplicatesOnlyAfterError
  <2>1. CASE k = l
    BY <2>1 DEF OnceInv, Placed, OnceIn
  <2>2. CASE k # l
    <3>1. Apart(bucket[k], bucket[l], refused)
      BY <2>2 DEF OnceInv, Placed
    <3>2. bucket[k][i] \in Range(bucket[k]) /\ bucket[l][j] \in Range(bucket[l])
      BY DEF Range
    <3> QED  BY <3>1, <3>2 DEF Apart
  <2> QED  BY <2>1, <2>2
<1> QED  BY <1>1, <1>2, TypeInit, TypeStep, OnceStep, PTL DEF Spec
=============================================================================
