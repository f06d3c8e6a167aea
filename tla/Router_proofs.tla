--------------------------- MODULE Router_proofs ---------------------------
(***************************************************************************)
(* Proofs about Router, for every set of outputs, every configuration of    *)
(* retries, breakers and pauses, and all batches.                           *)
(***************************************************************************)
EXTENDS Router, SequenceTheorems, TLAPS

-----------------------------------------------------------------------------
(* Elements of sequences. *)

\* Append adds one element to what a channel or slice holds.
LEMMA RangeOfAppend ==
  ASSUME NEW S, NEW s \in Seq(S), NEW e \in S
  PROVE  Range(Append(s, e)) = Range(s) \cup {e}
<1> DEFINE u == <<e>>
<1>1. u \in Seq(S) /\ Range(u) = {e}
  BY DEF Range
<1>2. Append(s, e) = s \o u
  BY AppendIsConcat
<1> HIDE DEF u
<1> QED  BY <1>1, <1>2, RangeConcatenation

-----------------------------------------------------------------------------
(* What a Send can answer. *)

\* Grouping by labels loses no entry: every position of the batch is in a stream.
LEMMA StreamsCoverBatch ==
  ASSUME NEW es, NEW b
  PROVE  UNION GroupByLabels(es, b) = Range(b)
BY DEF GroupByLabels

\* A sink takes nothing that was not in the batch.
LEMMA TakenFromBatch ==
  ASSUME NEW k \in {"loki", "elasticsearch", "stdout"}, NEW es, NEW b,
         NEW x \in Outcomes(k, es, b)
  PROVE  x.ok \in BOOLEAN /\ x.taken \subseteq Range(b)
<1>1. CASE k = "loki"
  <2>1. PICK y \in PushExchanges(es, b) : x = [ok |-> PushAccepted(y.response), taken |-> y.taken]
    BY <1>1 DEF Outcomes
  <2> QED  BY <2>1 DEF PushExchanges, PushAccepted
<1>2. CASE k = "elasticsearch"
  <2>1. PICK y \in BulkExchanges(b) : x = [ok |-> BulkAccepted(y.response), taken |-> y.taken]
    BY <1>2 DEF Outcomes
  <2> QED  BY <2>1 DEF BulkExchanges, BulkAccepted
<1>3. CASE k = "stdout"
  <2>1. PICK t \in SUBSET Range(b) : x = [ok |-> TRUE, taken |-> t]
    BY <1>3 DEF Outcomes
  <2> QED  BY <2>1
<1> QED  BY <1>1, <1>2, <1>3

\* A Send to Loki or Elasticsearch that returns nil has delivered the whole batch.
LEMMA OkMeansTaken ==
  ASSUME NEW k \in {"loki", "elasticsearch"}, NEW es, NEW b,
         NEW x \in Outcomes(k, es, b), x.ok
  PROVE  x.taken = Range(b)
<1>1. CASE k = "loki"
  <2>1. PICK y \in PushExchanges(es, b) : x = [ok |-> PushAccepted(y.response), taken |-> y.taken]
    BY <1>1 DEF Outcomes
  <2> QED  BY <2>1, StreamsCoverBatch DEF PushExchanges, PushAccepted
<1>2. CASE k = "elasticsearch"
  <2>1. PICK y \in BulkExchanges(b) : x = [ok |-> BulkAccepted(y.response), taken |-> y.taken]
    BY <1>2 DEF Outcomes
  <2>2. y.response \in Responses /\ BulkAccepted(y.response) /\ x.taken = y.taken
    BY <2>1 DEF BulkExchanges
  <2>3. y.response.status # "error" /\ y.response.body = "clean"
    BY <2>2 DEF BulkAccepted, Responses, NoResponse
  <2> QED  BY <2>1, <2>2, <2>3 DEF BulkExchanges
<1> QED  BY <1>1, <1>2

-----------------------------------------------------------------------------
(* Type correctness.  An attempt is made only while attempts are left, and a *)
(* goroutine starts only after the whole batch has been divided, with none   *)
(* of them used.  A pause has run out before the next attempt, and once one  *)
(* attempt has failed the next pause is limited.                             *)

AttemptsLeft ==
  \A o \in Outputs :
    /\ pc[o] = "start" => tries[o] = 0
    /\ pc[o] \in {"send", "sleep"} => tries[o] < Attempts(o)
    /\ routed < Len(entries) => pc[o] = "none" /\ tries[o] = 0
    /\ failed[o] <= tries[o]
    /\ \A n \in DOMAIN entries : copies[o][n] <= tries[o]

\* What the bound on the pauses rests on.
PausesRunOut ==
  \A o \in Outputs :
    /\ pc[o] # "sleep" => sleep[o] = 0
    /\ pc[o] \in {"send", "sleep"} /\ tries[o] > 0 => backoff[o] <= MaxBackoff

TypeInv == TypeOK /\ AttemptsLeft /\ PausesRunOut

\* Every value of a validated configuration is positive.
LEMMA Positive ==
  /\ Retries \in Nat /\ Retries > 0
  /\ MaxFailures \in Nat /\ MaxFailures > 0
  /\ Cooldown \in Nat /\ Cooldown > 0
  /\ InitialBackoff \in Nat /\ InitialBackoff > 0
  /\ MaxBackoff \in Nat /\ MaxBackoff > 0
  /\ LET most == Larger(InitialBackoff, MaxBackoff)
     IN most \in Nat /\ InitialBackoff <= most /\ MaxBackoff <= most
BY RouterAssumption DEF Larger

LEMMA AttemptsType ==
  \A o \in Outputs : Attempts(o) \in Nat /\ Attempts(o) > 0 /\ Attempts(o) <= Retries
BY Positive DEF Attempts

LEMMA TypeInit == Init => TypeInv
<1> SUFFICES ASSUME Init PROVE TypeInv
  OBVIOUS
<1>1. /\ entries = <<>> /\ entries \in Seq(Range(entries))
      /\ Len(entries) = 0 /\ DOMAIN entries = {}
      /\ <<>> \in Seq(DOMAIN entries)
  BY EmptySeq DEF Init
<1>2. \A S : <<>> \in [1..0 -> S] /\ <<>> \in [{} -> S]
  BY ONLY EmptySeq, LenProperties
<1>3. /\ entries \in Seq(Range(entries))
      /\ routed \in 0..Len(entries)
      /\ present \in [1..routed -> Looks]
      /\ batch \in [Outputs -> Seq(DOMAIN entries)]
      /\ copies \in [Outputs -> [DOMAIN entries -> 0..Retries]]
  <2>1. routed \in 0..Len(entries)
    BY <1>1 DEF Init
  <2>2. present \in [1..routed -> Looks]
    BY <1>2 DEF Init
  <2>3. batch \in [Outputs -> Seq(DOMAIN entries)]
    BY <1>1, Zenon DEF Init
  <2>4. <<>> \in [DOMAIN entries -> 0..Retries]
    BY <1>1, <1>2, Zenon
  <2>5. copies \in [Outputs -> [DOMAIN entries -> 0..Retries]]
    BY <2>4, Zenon DEF Init
  <2> QED  BY <1>1, <2>1, <2>2, <2>3, <2>5
<1>4. TypeOK
  <2>1. /\ adapters \subseteq Outputs
        /\ failures \in [Outputs -> 0..MaxFailures - 1]
        /\ openFor \in [Outputs -> 0..Cooldown]
        /\ tries \in [Outputs -> 0..Retries]
        /\ backoff \in [Outputs -> 0..Larger(InitialBackoff, MaxBackoff)]
        /\ sleep \in [Outputs -> 0..Larger(InitialBackoff, MaxBackoff)]
        /\ failed \in [Outputs -> 0..Retries]
        /\ streak \in [Outputs -> 0..MaxFailures]
    BY Positive, RouterAssumption DEF Init
  <2>2. /\ routing \in BOOLEAN
        /\ pc \in [Outputs -> {"none", "start", "send", "sleep", "ok", "error"}]
        /\ outcome \in {"none", "nil", "error"}
        /\ lookup \in {"label", "missed", "range"} /\ always \subseteq ever /\ ever \subseteq Outputs
    BY DEF Init
  <2>3. \A o \in Outputs : tries[o] > 1 => sleep[o] <= MaxBackoff
    BY DEF Init
  <2> QED  BY <1>3, <2>1, <2>2, <2>3 DEF TypeOK
<1>5. AttemptsLeft
  BY <1>1 DEF Init, AttemptsLeft
<1>6. PausesRunOut
  BY DEF Init, PausesRunOut
<1> QED  BY <1>4, <1>5, <1>6 DEF TypeInv

\* A Send in progress of which the sink takes some entries.
LEMMA TakesType ==
  ASSUME TypeInv, NEW o \in Outputs, pc[o] = "send", NEW taken, Takes(o, taken)
  PROVE  /\ copies' \in [Outputs -> [DOMAIN entries -> 0..Retries]]
         /\ \A n \in DOMAIN entries : copies'[o][n] <= tries[o] + 1
         /\ \A p \in Outputs \ {o} : copies'[p] = copies[p]
         /\ tries[o] + 1 \in 0..Retries
<1>1. /\ tries[o] \in Nat /\ tries[o] < Attempts(o)
      /\ Attempts(o) \in Nat /\ Attempts(o) <= Retries /\ Retries \in Nat
  BY Positive, AttemptsType DEF TypeInv, TypeOK, AttemptsLeft
<1> DEFINE c == [n \in DOMAIN entries |-> IF n \in taken THEN copies[o][n] + 1 ELSE copies[o][n]]
<1>2. copies \in [Outputs -> [DOMAIN entries -> 0..Retries]]
  BY DEF TypeInv, TypeOK
<1>3. copies' = [copies EXCEPT ![o] = c]
  BY <1>2 DEF Takes
<1>4. \A n \in DOMAIN entries : c[n] \in 0..Retries /\ c[n] <= tries[o] + 1
  BY <1>1, <1>2 DEF TypeInv, AttemptsLeft
<1> HIDE DEF c
<1>5. c \in [DOMAIN entries -> 0..Retries]
  BY <1>4 DEF c
<1> QED  BY <1>1, <1>2, <1>3, <1>4, <1>5

\* Route starts from nothing: no attempt made and no entry placed.
LEMMA TypeRoute ==
  ASSUME TypeInv, NEW b \in Batches, Route(b)
  PROVE  TypeInv'
<1>1. /\ b \in Seq(Range(b)) /\ Len(b) \in Nat /\ DOMAIN b = 1..Len(b)
  BY RouterAssumption, LenProperties
<1>2. <<>> \in [1..0 -> Looks] /\ <<>> \in Seq(DOMAIN b)
  BY ONLY EmptySeq, LenProperties
<1>3. entries' \in Seq(Range(entries')) /\ routed' \in 0..Len(entries')
  BY <1>1 DEF Route
<1>4. present' \in [1..routed' -> Looks] /\ batch' \in [Outputs -> Seq(DOMAIN entries')]
  BY <1>2 DEF Route
<1>5. copies' \in [Outputs -> [DOMAIN entries' -> 0..Retries]]
  BY Positive DEF Route
<1>6. /\ tries' \in [Outputs -> 0..Retries]
      /\ backoff' \in [Outputs -> 0..Larger(InitialBackoff, MaxBackoff)]
      /\ sleep' \in [Outputs -> 0..Larger(InitialBackoff, MaxBackoff)]
      /\ failed' \in [Outputs -> 0..Retries]
      /\ routing' \in BOOLEAN
      /\ pc' \in [Outputs -> {"none", "start", "send", "sleep", "ok", "error"}]
      /\ outcome' \in {"none", "nil", "error"}
      /\ \A o \in Outputs : tries'[o] > 1 => sleep'[o] <= MaxBackoff
  BY Positive DEF Route
<1>7. TypeOK'
  BY <1>3, <1>4, <1>5, <1>6 DEF Route, TypeInv, TypeOK, breakers, ranging
<1>8. AttemptsLeft' /\ PausesRunOut'
  BY DEF Route, AttemptsLeft, PausesRunOut
<1> QED  BY <1>7, <1>8 DEF TypeInv

\* The history of the adapters is as long as the part of the batch that is divided.
LEMMA PresentGrows ==
  ASSUME NEW S, NEW n \in Nat, NEW s \in [1..n -> S], NEW e \in S
  PROVE  /\ Append(s, e) \in [1..n + 1 -> S]
         /\ \A i \in 1..n : Append(s, e)[i] = s[i]
         /\ Append(s, e)[n + 1] = e
<1>1. s \in Seq(S) /\ Len(s) = n
  <2>1. s \in Seq(S)
    BY SeqDef
  <2>2. DOMAIN s = 1..Len(s) /\ Len(s) \in Nat
    BY <2>1, LenProperties
  <2> QED  BY <2>1, <2>2
<1>2. /\ Append(s, e) \in Seq(S) /\ Len(Append(s, e)) = n + 1
      /\ \A i \in 1..n : Append(s, e)[i] = s[i]
      /\ Append(s, e)[n + 1] = e
  BY ONLY <1>1, AppendProperties
<1>3. Append(s, e) \in [1..Len(Append(s, e)) -> S]
  BY ONLY <1>2, LenProperties
<1> QED  BY ONLY <1>2, <1>3

\* Dividing the batch: goroutines start at its end, with all attempts left.
LEMMA TypeRouteEntryTo ==
  ASSUME TypeInv, Routing, NEW os, NEW how \in Looks, RouteEntryTo(os, how)
  PROVE  TypeInv'
<1>1. /\ Routing /\ routed' = routed + 1
      /\ batch' = [o \in Outputs |-> IF o \in os THEN Append(batch[o], routed') ELSE batch[o]]
      /\ present' = Append(present, how)
      /\ pc' = [o \in Outputs |->
                  IF routed' = Len(entries) /\ batch'[o] # <<>> THEN "start" ELSE "none"]
      /\ UNCHANGED <<adapters, failures, openFor, streak, routing, tries, backoff, sleep>>
      /\ UNCHANGED <<entries, outcome, copies, failed>>
      /\ lookup' = "label" /\ always' = {} /\ ever' = {}
  BY DEF RouteEntryTo, breakers, got
<1>2. /\ Len(entries) \in Nat /\ DOMAIN entries = 1..Len(entries)
      /\ routed \in Nat /\ routed < Len(entries)
  BY <1>1, LenProperties DEF TypeInv, TypeOK, Routing
<1>3. routed' \in 0..Len(entries') /\ routed' \in DOMAIN entries
  <2>1. routed' = routed + 1 /\ entries' = entries
    BY <1>1
  <2> QED  BY ONLY <1>2, <2>1
<1>4. present' \in [1..routed' -> Looks]
  <2>1. present \in [1..routed -> Looks]
    BY DEF TypeInv, TypeOK
  <2> QED  BY <2>1, <1>1, <1>2, PresentGrows
<1>5. batch' \in [Outputs -> Seq(DOMAIN entries')]
  <2>1. batch \in [Outputs -> Seq(DOMAIN entries)]
    BY DEF TypeInv, TypeOK
  <2>2. \A o \in Outputs : Append(batch[o], routed') \in Seq(DOMAIN entries)
    BY <1>3, <2>1, AppendProperties
  <2> QED  BY <1>1, <2>1, <2>2
<1>6. pc' \in [Outputs -> {"none", "start", "send", "sleep", "ok", "error"}]
  BY <1>1
<1>7. TypeOK'
  <2>1. /\ UNCHANGED <<adapters, failures, openFor, streak, routing, tries, backoff, sleep>>
        /\ UNCHANGED <<entries, outcome, copies, failed>>
    BY <1>1
  <2>2. TypeOK
    BY DEF TypeInv
  <2>3. entries' \in Seq(Range(entries')) /\ routing' \in BOOLEAN
    BY ONLY <2>1, <2>2, Zenon DEF TypeOK
  <2>4. /\ adapters' \subseteq Outputs
        /\ failures' \in [Outputs -> 0..MaxFailures - 1]
        /\ openFor' \in [Outputs -> 0..Cooldown]
        /\ tries' \in [Outputs -> 0..Retries]
        /\ backoff' \in [Outputs -> 0..Larger(InitialBackoff, MaxBackoff)]
        /\ sleep' \in [Outputs -> 0..Larger(InitialBackoff, MaxBackoff)]
        /\ outcome' \in {"none", "nil", "error"}
        /\ \A o \in Outputs : tries'[o] > 1 => sleep'[o] <= MaxBackoff
    BY ONLY <2>1, <2>2 DEF TypeOK
  <2>5. /\ copies' \in [Outputs -> [DOMAIN entries' -> 0..Retries]]
        /\ failed' \in [Outputs -> 0..Retries]
        /\ streak' \in [Outputs -> 0..MaxFailures]
    BY ONLY <2>1, <2>2, Zenon DEF TypeOK
  <2>6. /\ lookup' \in {"label", "missed", "range"}
        /\ always' \subseteq ever' /\ ever' \subseteq Outputs
    BY <1>1
  <2> QED  BY ONLY <1>3, <1>4, <1>5, <1>6, <2>3, <2>4, <2>5, <2>6 DEF TypeOK
<1>8. AttemptsLeft'
  <2> SUFFICES ASSUME NEW o \in Outputs
               PROVE  /\ tries'[o] = 0 /\ failed'[o] <= 0
                      /\ \A n \in DOMAIN entries' : copies'[o][n] <= 0
                      /\ pc'[o] \in {"none", "start"}
                      /\ routed' < Len(entries') => pc'[o] = "none"
    BY DEF AttemptsLeft
  <2>1. /\ tries[o] = 0 /\ failed[o] <= 0
        /\ \A n \in DOMAIN entries : copies[o][n] <= 0
    BY <1>2 DEF TypeInv, AttemptsLeft
  <2>2. pc'[o] = IF routed' = Len(entries) /\ batch'[o] # <<>> THEN "start" ELSE "none"
    BY <1>1
  <2>3. UNCHANGED <<tries, failed, copies, entries>>
    BY <1>1
  <2> QED  BY ONLY <1>2, <1>3, <2>1, <2>2, <2>3
<1>9. PausesRunOut'
  <2>1. \A o \in Outputs : sleep[o] = 0 /\ tries[o] = 0
    BY <1>2 DEF TypeInv, AttemptsLeft, PausesRunOut
  <2> QED  BY <2>1, <1>1 DEF PausesRunOut
<1> QED  BY <1>7, <1>8, <1>9 DEF TypeInv

\* The steps of determineOutputs: two of them end with the outputs of the entry.
LEMMA RouteEntryCases ==
  ASSUME TypeInv, RouteEntry
  PROVE  \/ /\ Routing /\ Entry.output \in adapters
            /\ RouteEntryTo({Entry.output}, ByLabel) /\ ByLabel \in Looks
         \/ /\ Routing
            /\ \E os \in SUBSET Outputs : always \subseteq os /\ os \subseteq ever /\ RouteEntryTo(os, ByRange)
            /\ ByRange \in Looks
         \/ /\ Routing
            /\ UNCHANGED <<adapters, breakers, senders, work, routing, outcome, got>>
            /\ lookup' \in {"label", "missed", "range"} /\ always' \subseteq ever' /\ ever' \subseteq Outputs
<1>1. ByLabel \in Looks /\ ByRange \in Looks
  <2>1. always \subseteq Outputs /\ ever \subseteq Outputs
    BY DEF TypeInv, TypeOK
  <2> QED  BY <2>1 DEF ByLabel, ByRange, Looks
<1>2. CASE LabelFound
  BY <1>1, <1>2 DEF LabelFound
<1>3. CASE LabelMissed
  BY <1>3 DEF LabelMissed, TypeInv, TypeOK
<1>4. CASE RangeBegins
  BY <1>4 DEF RangeBegins, TypeInv, TypeOK
<1>5. ASSUME NEW os \in SUBSET Outputs, RangeEnds(os)
      PROVE  /\ Routing
             /\ always \subseteq os /\ os \subseteq ever /\ RouteEntryTo(os, ByRange)
  BY <1>5 DEF RangeEnds
<1> QED  BY <1>1, <1>2, <1>3, <1>4, <1>5 DEF RouteEntry

LEMMA TypeRouteEntry ==
  ASSUME TypeInv, RouteEntry
  PROVE  TypeInv'
<1>1. CASE Routing /\ RouteEntryTo({Entry.output}, ByLabel) /\ ByLabel \in Looks
  BY <1>1, TypeRouteEntryTo
<1>2. ASSUME Routing, ByRange \in Looks, NEW os \in SUBSET Outputs, RouteEntryTo(os, ByRange)
      PROVE  TypeInv'
  BY <1>2, TypeRouteEntryTo
<1>3. CASE /\ UNCHANGED <<adapters, breakers, senders, work, routing, outcome, got>>
           /\ lookup' \in {"label", "missed", "range"} /\ always' \subseteq ever' /\ ever' \subseteq Outputs
  BY <1>3 DEF TypeInv, TypeOK, AttemptsLeft, PausesRunOut, breakers, senders, work, got
<1> QED  BY <1>1, <1>2, <1>3, RouteEntryCases

\* A Send that returns nil ends the loop of attempts.
LEMMA TypeSendSucceeds ==
  ASSUME TypeInv, NEW o \in Outputs, SendSucceeds(o)
  PROVE  TypeInv'
<1>1. PICK x \in Outcomes(Kind[o], entries, batch[o]) : x.ok /\ Takes(o, x.taken)
  BY DEF SendSucceeds
<1>2. /\ copies' \in [Outputs -> [DOMAIN entries -> 0..Retries]]
      /\ \A n \in DOMAIN entries : copies'[o][n] <= tries[o] + 1
      /\ \A p \in Outputs \ {o} : copies'[p] = copies[p]
      /\ tries[o] + 1 \in 0..Retries
  BY <1>1, TakesType DEF SendSucceeds
<1>3. /\ pc[o] = "send"
      /\ pc' = [pc EXCEPT ![o] = "ok"]
      /\ tries' = [tries EXCEPT ![o] = @ + 1]
      /\ failures' = [failures EXCEPT ![o] = 0]
      /\ streak' = [streak EXCEPT ![o] = 0]
      /\ UNCHANGED <<adapters, openFor, routing, backoff, sleep, outcome, failed>>
      /\ UNCHANGED <<entries, routed, batch, present, lookup, always, ever>>
  BY DEF SendSucceeds, OnSuccess, work, ranging
<1>4. /\ pc' \in [Outputs -> {"none", "start", "send", "sleep", "ok", "error"}]
      /\ tries' \in [Outputs -> 0..Retries]
      /\ failures' \in [Outputs -> 0..MaxFailures - 1]
      /\ streak' \in [Outputs -> 0..MaxFailures]
  BY <1>2, <1>3, Positive DEF TypeInv, TypeOK
<1>5. TypeOK'
  <2>1. \A p \in Outputs : tries'[p] > 1 => sleep'[p] <= MaxBackoff
    <3>1. sleep' = sleep /\ sleep[o] = 0 /\ \A p \in Outputs \ {o} : tries'[p] = tries[p]
      BY <1>3 DEF TypeInv, TypeOK, PausesRunOut
    <3>2. 0 <= MaxBackoff
      BY Positive
    <3>3. \A p \in Outputs : tries[p] > 1 => sleep[p] <= MaxBackoff
      BY DEF TypeInv, TypeOK
    <3> QED  BY ONLY <3>1, <3>2, <3>3
  <2> QED  BY <2>1, <1>2, <1>3, <1>4 DEF TypeInv, TypeOK
<1>6. AttemptsLeft'
  <2>1. /\ tries'[o] = tries[o] + 1 /\ pc'[o] = "ok" /\ ~(routed' < Len(entries'))
        /\ failed'[o] = failed[o] /\ failed[o] <= tries[o]
        /\ failed[o] \in Nat /\ tries[o] \in Nat /\ Attempts(o) \in Nat
        /\ entries' = entries
    BY <1>3, AttemptsType DEF TypeInv, TypeOK, AttemptsLeft
  <2>2. ASSUME NEW p \in Outputs \ {o}
        PROVE  /\ pc'[p] = pc[p] /\ tries'[p] = tries[p]
               /\ failed'[p] = failed[p] /\ copies'[p] = copies[p]
               /\ UNCHANGED <<entries, routed>>
    BY <1>2, <1>3 DEF TypeInv, TypeOK
  <2>3. AttemptsLeft
    BY DEF TypeInv
  <2>4. \A p \in Outputs \ {o} :
          /\ pc'[p] = "start" => tries'[p] = 0
          /\ pc'[p] \in {"send", "sleep"} => tries'[p] < Attempts(p)
          /\ routed' < Len(entries') => pc'[p] = "none" /\ tries'[p] = 0
          /\ failed'[p] <= tries'[p]
          /\ \A n \in DOMAIN entries' : copies'[p][n] <= tries'[p]
    BY ONLY <2>2, <2>3 DEF AttemptsLeft
  <2> QED  BY ONLY <1>2, <2>1, <2>4 DEF AttemptsLeft
<1>7. PausesRunOut'
  BY <1>3 DEF TypeInv, TypeOK, PausesRunOut
<1> QED  BY <1>5, <1>6, <1>7 DEF TypeInv

\* The breaker counts below MaxFailures and stays open for Cooldown at most.
LEMMA FailureType ==
  ASSUME TypeInv, NEW o \in Outputs, OnFailure(o)
  PROVE  /\ failures' \in [Outputs -> 0..MaxFailures - 1]
         /\ openFor' \in [Outputs -> 0..Cooldown]
         /\ streak' \in [Outputs -> 0..MaxFailures]
<1>1. /\ failures \in [Outputs -> 0..MaxFailures - 1]
      /\ openFor \in [Outputs -> 0..Cooldown]
      /\ streak \in [Outputs -> 0..MaxFailures]
  BY DEF TypeInv, TypeOK
<1>2. CASE o \notin Configured
  BY <1>1, <1>2 DEF OnFailure, breakers
<1>3. CASE o \in Configured
  BY <1>1, <1>3, Positive DEF OnFailure, Smaller
<1> QED  BY <1>2, <1>3

\* A Send that fails leaves an attempt for the pause that follows, or none.
LEMMA TypeSendFails ==
  ASSUME TypeInv, NEW o \in Outputs, SendFails(o)
  PROVE  TypeInv'
<1> DEFINE last == tries[o] + 1 >= Attempts(o)
<1>1. PICK x \in Outcomes(Kind[o], entries, batch[o]) : ~x.ok /\ Takes(o, x.taken)
  BY DEF SendFails
<1>2. /\ copies' \in [Outputs -> [DOMAIN entries -> 0..Retries]]
      /\ \A n \in DOMAIN entries : copies'[o][n] <= tries[o] + 1
      /\ \A p \in Outputs \ {o} : copies'[p] = copies[p]
      /\ tries[o] + 1 \in 0..Retries
  BY <1>1, TakesType DEF SendFails
<1>3. /\ pc[o] = "send"
      /\ pc' = [pc EXCEPT ![o] = IF last THEN "error" ELSE "sleep"]
      /\ tries' = [tries EXCEPT ![o] = @ + 1]
      /\ sleep' = [sleep EXCEPT ![o] = IF last THEN 0 ELSE backoff[o]]
      /\ backoff' = [backoff EXCEPT ![o] = IF last THEN @ ELSE Smaller(2 * @, MaxBackoff)]
      /\ failed' = [failed EXCEPT ![o] = @ + 1]
      /\ UNCHANGED <<adapters, routing, outcome, entries, routed, batch, present>>
      /\ UNCHANGED <<lookup, always, ever>>
  BY DEF SendFails, AfterFailure, work, ranging
<1>4. /\ failures' \in [Outputs -> 0..MaxFailures - 1]
      /\ openFor' \in [Outputs -> 0..Cooldown]
      /\ streak' \in [Outputs -> 0..MaxFailures]
  BY Positive, FailureType DEF SendFails
<1>5. /\ pc' \in [Outputs -> {"none", "start", "send", "sleep", "ok", "error"}]
      /\ tries' \in [Outputs -> 0..Retries]
      /\ failed[o] + 1 \in 0..Retries
      /\ failed' \in [Outputs -> 0..Retries]
  <2>1. /\ pc \in [Outputs -> {"none", "start", "send", "sleep", "ok", "error"}]
        /\ tries \in [Outputs -> 0..Retries] /\ failed \in [Outputs -> 0..Retries]
    BY DEF TypeInv, TypeOK
  <2>2. failed[o] + 1 \in 0..Retries
    <3>1. failed[o] <= tries[o]
      BY DEF TypeInv, AttemptsLeft
    <3>2. failed[o] \in Nat /\ tries[o] \in Nat
      BY <2>1
    <3> QED  BY <1>2, <3>1, <3>2, Positive
  <2>3. pc' \in [Outputs -> {"none", "start", "send", "sleep", "ok", "error"}]
    BY <1>3, <2>1
  <2>4. tries' \in [Outputs -> 0..Retries] /\ failed' \in [Outputs -> 0..Retries]
    BY <1>2, <1>3, <2>1, <2>2
  <2> QED  BY <2>2, <2>3, <2>4
<1>6. /\ sleep' \in [Outputs -> 0..Larger(InitialBackoff, MaxBackoff)]
      /\ backoff' \in [Outputs -> 0..Larger(InitialBackoff, MaxBackoff)]
      /\ \A p \in Outputs : tries'[p] > 1 => sleep'[p] <= MaxBackoff
      /\ PausesRunOut'
  <2>1. PICK most \in Nat : /\ most = Larger(InitialBackoff, MaxBackoff)
                            /\ InitialBackoff <= most /\ MaxBackoff <= most
    BY Positive
  <2>2. /\ backoff \in [Outputs -> 0..most] /\ sleep \in [Outputs -> 0..most]
        /\ tries \in [Outputs -> 0..Retries] /\ Retries \in Nat /\ MaxBackoff \in Nat
        /\ \A p \in Outputs : tries[p] > 1 => sleep[p] <= MaxBackoff
        /\ pc \in [Outputs -> {"none", "start", "send", "sleep", "ok", "error"}]
    BY <2>1, Positive DEF TypeInv, TypeOK
  <2>3. PICK less \in 0..MaxBackoff : less = Smaller(2 * backoff[o], MaxBackoff)
    BY <2>2 DEF Smaller
  <2>4. less \in 0..most /\ backoff[o] \in 0..most /\ 0 \in 0..most
    BY <2>1, <2>2, <2>3
  <2>5. /\ sleep' = [sleep EXCEPT ![o] = IF last THEN 0 ELSE backoff[o]]
        /\ backoff' = [backoff EXCEPT ![o] = IF last THEN backoff[o] ELSE less]
        /\ tries' = [tries EXCEPT ![o] = tries[o] + 1]
        /\ pc[o] = "send" /\ pc' = [pc EXCEPT ![o] = IF last THEN "error" ELSE "sleep"]
    BY <1>3, <2>3
  <2>6. /\ tries[o] > 0 => backoff[o] <= MaxBackoff
        /\ \A p \in Outputs : /\ pc[p] # "sleep" => sleep[p] = 0
                              /\ pc[p] \in {"send", "sleep"} /\ tries[p] > 0 => backoff[p] <= MaxBackoff
    BY <1>3 DEF TypeInv, PausesRunOut
  <2> HIDE DEF last
  <2>7. sleep' \in [Outputs -> 0..most] /\ backoff' \in [Outputs -> 0..most]
    BY ONLY <2>2, <2>4, <2>5
  <2>8. \A p \in Outputs : tries'[p] > 1 => sleep'[p] <= MaxBackoff
    BY ONLY <2>2, <2>5, <2>6
  <2>9. PausesRunOut'
    <3>1. less <= MaxBackoff
      BY <2>2, <2>3
    <3> SUFFICES ASSUME NEW p \in Outputs
                 PROVE  /\ pc'[p] # "sleep" => sleep'[p] = 0
                        /\ pc'[p] \in {"send", "sleep"} /\ tries'[p] > 0 => backoff'[p] <= MaxBackoff
      BY DEF PausesRunOut
    <3>2. CASE p # o
      <4>1. /\ pc'[p] = pc[p] /\ sleep'[p] = sleep[p]
            /\ tries'[p] = tries[p] /\ backoff'[p] = backoff[p]
        BY ONLY <2>2, <2>5, <3>2
      <4> QED  BY <2>6, <4>1
    <3>3. CASE p = o /\ last
      <4>1. pc'[p] = "error" /\ sleep'[p] = 0
        BY <2>2, <2>5, <3>3
      <4> QED  BY <4>1
    <3>4. CASE p = o /\ ~last
      <4>1. pc'[p] = "sleep" /\ backoff'[p] = less
        BY <2>2, <2>5, <3>4
      <4> QED  BY <3>1, <4>1
    <3> QED  BY ONLY <3>2, <3>3, <3>4
  <2> QED  BY <2>1, <2>7, <2>8, <2>9
<1>7. TypeOK'
  BY <1>2, <1>3, <1>4, <1>5, <1>6 DEF TypeInv, TypeOK
<1>8. AttemptsLeft'
  <2>1. /\ tries'[o] = tries[o] + 1 /\ pc'[o] = IF last THEN "error" ELSE "sleep"
        /\ ~(routed' < Len(entries')) /\ entries' = entries
        /\ failed'[o] = failed[o] + 1 /\ failed[o] <= tries[o]
        /\ failed[o] \in Nat /\ tries[o] \in Nat /\ Attempts(o) \in Nat
    BY <1>3, AttemptsType DEF TypeInv, TypeOK, AttemptsLeft
  <2>2. ASSUME NEW p \in Outputs \ {o}
        PROVE  /\ pc'[p] = pc[p] /\ tries'[p] = tries[p]
               /\ failed'[p] = failed[p] /\ copies'[p] = copies[p]
               /\ UNCHANGED <<entries, routed>>
    BY <1>2, <1>3 DEF TypeInv, TypeOK
  <2>3. AttemptsLeft
    BY DEF TypeInv
  <2> QED  BY ONLY <1>2, <2>1, <2>2, <2>3 DEF AttemptsLeft
<1> QED  BY <1>6, <1>7, <1>8 DEF TypeInv

\* A timer that runs stays within its range.
LEMMA ElapseType ==
  ASSUME NEW max \in Nat, NEW f \in [Outputs -> 0..max]
  PROVE  Elapse(f) \in [Outputs -> 0..max]
<1>1. \A o \in Outputs : (IF f[o] > 0 THEN f[o] - 1 ELSE 0) \in 0..max
  OBVIOUS
<1> QED  BY <1>1 DEF Elapse

LEMMA TypeStep == TypeInv /\ [Next]_vars => TypeInv'
<1> SUFFICES ASSUME TypeInv, [Next]_vars PROVE TypeInv'
  OBVIOUS
<1> USE DEF breakers, senders, ranging, work, got
<1>1. ASSUME NEW b \in Batches, Route(b) PROVE TypeInv'
  BY <1>1, TypeRoute
<1>2. CASE RouteEntry
  BY <1>2, TypeRouteEntry
<1>3. CASE RouteReturns
  BY <1>3 DEF RouteReturns, TypeInv, TypeOK, AttemptsLeft, PausesRunOut
<1>4. ASSUME NEW o \in Outputs, SendRefused(o) PROVE TypeInv'
  <2>1. pc[o] = "start" /\ pc' = [pc EXCEPT ![o] = "error"] /\ routed' = routed /\ entries' = entries
    BY <1>4 DEF SendRefused
  <2>2. TypeOK'
    BY <1>4 DEF SendRefused, TypeInv, TypeOK
  <2>3. AttemptsLeft' /\ PausesRunOut'
    BY <1>4, <2>1 DEF SendRefused, TypeInv, TypeOK, AttemptsLeft, PausesRunOut
  <2> QED  BY <2>2, <2>3 DEF TypeInv
<1>5. ASSUME NEW o \in Outputs, SendBegins(o) PROVE TypeInv'
  <2>1. TypeOK'
    BY <1>5 DEF SendBegins, TypeInv, TypeOK
  <2>2. AttemptsLeft'
    BY <1>5, AttemptsType DEF SendBegins, TypeInv, TypeOK, AttemptsLeft
  <2>3. PausesRunOut'
    <3>1. tries[o] = 0 /\ sleep[o] = 0
      BY <1>5 DEF SendBegins, TypeInv, AttemptsLeft, PausesRunOut
    <3> QED  BY <1>5, <3>1 DEF SendBegins, TypeInv, TypeOK, PausesRunOut
  <2> QED  BY <2>1, <2>2, <2>3 DEF TypeInv
<1>6. ASSUME NEW o \in Outputs, SendSucceeds(o) PROVE TypeInv'
  BY <1>6, TypeSendSucceeds
<1>7. ASSUME NEW o \in Outputs, SendFails(o) PROVE TypeInv'
  BY <1>7, TypeSendFails
<1>8. ASSUME NEW o \in Outputs, Wake(o) PROVE TypeInv'
  BY <1>8 DEF Wake, TypeInv, TypeOK, AttemptsLeft, PausesRunOut
<1>9. CASE Tick
  <2>1. PICK most \in Nat : most = Larger(InitialBackoff, MaxBackoff)
    BY Positive
  <2>2. /\ openFor' \in [Outputs -> 0..Cooldown] /\ sleep' \in [Outputs -> 0..most]
        /\ \A o \in Outputs : sleep'[o] <= sleep[o] /\ (sleep[o] = 0 => sleep'[o] = 0)
    <3>1. openFor \in [Outputs -> 0..Cooldown] /\ sleep \in [Outputs -> 0..most]
      BY <2>1 DEF TypeInv, TypeOK
    <3>2. openFor' = Elapse(openFor) /\ sleep' = Elapse(sleep)
      BY <1>9 DEF Tick
    <3>3. \A o \in Outputs : sleep'[o] = IF sleep[o] > 0 THEN sleep[o] - 1 ELSE 0
      BY <3>2 DEF Elapse
    <3> QED  BY <3>1, <3>2, <3>3, Positive, ElapseType
  <2>3. UNCHANGED <<adapters, failures, streak, routing, pc, tries, backoff, ranging, work, outcome, got>>
    BY <1>9 DEF Tick
  <2>4. \A o \in Outputs : tries'[o] > 1 => sleep'[o] <= MaxBackoff
    <3>1. \A o \in Outputs : sleep[o] \in Nat /\ sleep'[o] \in Nat /\ MaxBackoff \in Nat
      BY <2>1, <2>2, Positive DEF TypeInv, TypeOK
    <3> QED  BY <2>2, <2>3, <3>1 DEF TypeInv, TypeOK
  <2>5. sleep' \in [Outputs -> 0..Larger(InitialBackoff, MaxBackoff)]
    BY <2>1, <2>2
  <2>6. AttemptsLeft' /\ PausesRunOut'
    BY ONLY TypeInv, <2>2, <2>3 DEF TypeInv, AttemptsLeft, PausesRunOut, work, got
  <2> QED  BY ONLY TypeInv, <2>2, <2>3, <2>4, <2>5, <2>6 DEF TypeInv, TypeOK, work, got, ranging
<1>10. ASSUME NEW o \in Outputs, AddAdapter(o) PROVE TypeInv'
  BY <1>10 DEF AddAdapter, TypeInv, TypeOK, AttemptsLeft, PausesRunOut
<1>11. ASSUME NEW o \in Outputs, RemoveAdapter(o) PROVE TypeInv'
  BY <1>11 DEF RemoveAdapter, TypeInv, TypeOK, AttemptsLeft, PausesRunOut
<1>12. CASE UNCHANGED vars
  BY <1>12 DEF vars, TypeInv, TypeOK, AttemptsLeft, PausesRunOut
<1> QED
  BY <1>1, <1>2, <1>3, <1>4, <1>5, <1>6, <1>7, <1>8, <1>9, <1>10, <1>11, <1>12
     DEF Next, SendStep

LEMMA TypeInvariant == Spec => []TypeInv
BY TypeInit, TypeStep, PTL DEF Spec

\* The attempts, pauses and failure counts of every output stay within its configuration:
\* a sink gets at most Retries copies of an entry in one Route, a breaker never rests at
\* MaxFailures, and no pause is longer than MaxBackoff but the first, which is InitialBackoff.
THEOREM TypeCorrect == Spec => []TypeOK
<1>1. TypeInv => TypeOK
  BY DEF TypeInv
<1> QED  BY <1>1, TypeInvariant, PTL

-----------------------------------------------------------------------------
(* The circuit breaker: its count never exceeds the failures in a row. *)

StreakInv == \A o \in Outputs : failures[o] <= streak[o]

\* One more failure: the count and the streak grow together, or the circuit opens.
LEMMA FailureStreak ==
  ASSUME TypeInv, StreakInv, NEW o \in Outputs, OnFailure(o)
  PROVE  /\ StreakInv'
         /\ \A p \in Outputs : openFor[p] < openFor'[p] => streak'[p] = MaxFailures
<1>1. /\ failures \in [Outputs -> 0..MaxFailures - 1]
      /\ openFor \in [Outputs -> 0..Cooldown]
      /\ streak \in [Outputs -> 0..MaxFailures]
      /\ \A p \in Outputs : failures[p] <= streak[p]
  BY DEF TypeInv, TypeOK, StreakInv
<1>2. CASE o \notin Configured
  BY <1>1, <1>2 DEF OnFailure, breakers, StreakInv
<1>3. CASE o \in Configured
  <2> DEFINE trips == failures[o] + 1 >= MaxFailures
  <2>1. /\ failures' = [failures EXCEPT ![o] = IF trips THEN 0 ELSE @ + 1]
        /\ openFor' = [openFor EXCEPT ![o] = IF trips THEN Cooldown ELSE @]
        /\ streak' = [streak EXCEPT ![o] = Smaller(@ + 1, MaxFailures)]
    BY <1>3 DEF OnFailure
  <2>2. failures'[o] <= streak'[o] /\ (openFor[o] < openFor'[o] => streak'[o] = MaxFailures)
    BY <1>1, <2>1, Positive DEF Smaller
  <2>3. \A p \in Outputs \ {o} : UNCHANGED <<failures[p], openFor[p], streak[p]>>
    BY <1>1, <2>1
  <2>4. \A p \in Outputs : openFor[p] \in Nat
    BY <1>1
  <2> QED  BY ONLY <1>1, <2>2, <2>3, <2>4 DEF StreakInv
<1> QED  BY <1>2, <1>3

LEMMA StreakStep ==
  ASSUME TypeInv, StreakInv, [Next]_vars
  PROVE  /\ StreakInv'
         /\ \A o \in Outputs : openFor[o] < openFor'[o] => streak'[o] = MaxFailures
<1> DEFINE Goal == /\ StreakInv'
                   /\ \A o \in Outputs : openFor[o] < openFor'[o] => streak'[o] = MaxFailures
<1>1. \A o \in Outputs : /\ openFor[o] \in Nat /\ openFor[o] >= 0
                         /\ streak[o] \in Nat /\ streak[o] >= 0
  BY Positive DEF TypeInv, TypeOK
<1>2. CASE UNCHANGED breakers
  BY <1>1, <1>2 DEF breakers, StreakInv
<1>3. ASSUME NEW o \in Outputs, SendSucceeds(o) PROVE Goal
  <2>1. /\ failures' = [failures EXCEPT ![o] = 0] /\ streak' = [streak EXCEPT ![o] = 0]
        /\ openFor' = openFor
    BY <1>3 DEF SendSucceeds, OnSuccess
  <2>2. failures \in [Outputs -> 0..MaxFailures - 1] /\ streak \in [Outputs -> 0..MaxFailures]
    BY DEF TypeInv, TypeOK
  <2> QED  BY <1>1, <2>1, <2>2 DEF StreakInv
<1>4. ASSUME NEW o \in Outputs, SendFails(o) PROVE Goal
  BY <1>4, FailureStreak DEF SendFails
<1>5. CASE Tick
  <2>1. /\ \A o \in Outputs : openFor'[o] = IF openFor[o] > 0 THEN openFor[o] - 1 ELSE 0
        /\ UNCHANGED <<failures, streak>>
    BY <1>5 DEF Tick, Elapse
  <2> QED  BY <1>1, <2>1 DEF StreakInv
<1> QED
  BY <1>2, <1>3, <1>4, <1>5
     DEF Next, SendStep, Route, RouteEntry, LabelFound, LabelMissed, RangeBegins, RangeEnds,
         RouteEntryTo, RouteReturns, SendRefused, SendBegins, Wake, AddAdapter, RemoveAdapter, vars

\* Streaks cover the failure counts in every state.
LEMMA StreakInvariant == Spec => []StreakInv
<1>1. Init => StreakInv
  BY DEF Init, StreakInv
<1>2. TypeInv /\ StreakInv /\ [Next]_vars => StreakInv'
  BY StreakStep
<1> QED  BY <1>1, <1>2, TypeInvariant, PTL DEF Spec

\* A circuit opens only at the end of MaxFailures failed sends in a row.
THEOREM CircuitOpensOnStreak == Spec => OpensOnlyOnStreak
<1>1. TypeInv /\ StreakInv /\ [Next]_vars =>
        [\A o \in Outputs : openFor[o] < openFor'[o] => streak'[o] = MaxFailures]_vars
  BY StreakStep
<1> QED  BY <1>1, TypeInvariant, StreakInvariant, PTL DEF Spec, OpensOnlyOnStreak

-----------------------------------------------------------------------------
(* Delivery.  Divided says what an output was given; Taken what its sink has of *)
(* that, and how often; Sent that a goroutine exists for every output that was  *)
(* given something, and ends well only if all of it was taken; Ended what the   *)
(* result of Route says of the goroutines.                                      *)

Divided ==
  /\ \A o \in Outputs : \A n \in Range(batch[o]) : n \in 1..routed /\ o \in MayReach(n)
  /\ \A n \in 1..routed : \A o \in MustReach(n) : o \in Outputs /\ n \in Range(batch[o])

Taken ==
  \A o \in Outputs : \A n \in DOMAIN entries :
    /\ copies[o][n] <= failed[o] + (IF pc[o] = "ok" THEN 1 ELSE 0)
    /\ copies[o][n] > 0 => n \in Range(batch[o])

Sent ==
  \A o \in Outputs :
    /\ pc[o] = "ok" /\ Kind[o] # "stdout" => \A n \in Range(batch[o]) : copies[o][n] > 0
    /\ routed = Len(entries) /\ batch[o] # <<>> => pc[o] # "none"

Ended ==
  /\ routing => outcome = "none"
  /\ ~routing => routed = Len(entries) /\ \A o \in Outputs : pc[o] \in {"none", "ok", "error"}
  /\ outcome = "nil" => \A o \in Outputs : pc[o] # "error"

DeliveryInv == Divided /\ Taken /\ Sent /\ Ended

LEMMA DeliveryInit == Init => DeliveryInv
<1> SUFFICES ASSUME Init PROVE DeliveryInv
  OBVIOUS
<1>1. entries = <<>> /\ DOMAIN entries = {} /\ Len(entries) = 0 /\ routed = 0
  BY EmptySeq DEF Init
<1>2. Range(<<>>) = {} /\ 1..0 = {}
  BY EmptySeq DEF Range
<1>3. Divided
  BY <1>1, <1>2 DEF Init, Divided
<1>4. Taken
  BY <1>1 DEF Taken
<1>5. Sent
  BY DEF Init, Sent
<1>6. Ended
  BY <1>1 DEF Init, Ended
<1> QED  BY <1>3, <1>4, <1>5, <1>6 DEF DeliveryInv

\* One entry more is divided: it goes where it must and only where it may.
LEMMA DividedEntry ==
  ASSUME TypeInv, Divided, Routing, NEW os \in SUBSET Outputs, NEW how \in Looks,
         RouteEntryTo(os, how),
         how.named => os = {Entry.output},
         ~how.named => how.always \subseteq os /\ os \subseteq how.ever
  PROVE  Divided'
<1>1. /\ batch' = [o \in Outputs |-> IF o \in os THEN Append(batch[o], routed') ELSE batch[o]]
      /\ routed' = routed + 1 /\ present' = Append(present, how) /\ entries' = entries
  BY DEF RouteEntryTo
<1>2. /\ Len(entries) \in Nat /\ DOMAIN entries = 1..Len(entries)
      /\ routed \in Nat /\ routed < Len(entries)
  BY LenProperties DEF TypeInv, TypeOK, Routing
<1>3. PICK k \in Nat : k = routed + 1
  BY <1>2
<1>4. /\ \A n \in 1..routed : present'[n] = present[n]
      /\ present'[k] = how
  <2>1. present \in [1..routed -> Looks]
    BY DEF TypeInv, TypeOK
  <2> QED  BY <1>1, <1>2, <1>3, <2>1, PresentGrows
<1>5. \A n \in 1..routed : MustReach(n)' = MustReach(n) /\ MayReach(n)' = MayReach(n)
  BY <1>1, <1>4 DEF MustReach, MayReach
<1>6. MustReach(k)' \subseteq os /\ os \subseteq MayReach(k)'
  BY <1>1, <1>3, <1>4 DEF MustReach, MayReach, Entry
<1>7. \A o \in Outputs : Range(batch'[o]) = Range(batch[o]) \cup (IF o \in os THEN {k} ELSE {})
  <2> SUFFICES ASSUME NEW o \in Outputs
               PROVE  Range(batch'[o]) = Range(batch[o]) \cup (IF o \in os THEN {k} ELSE {})
    OBVIOUS
  <2>1. batch[o] \in Seq(DOMAIN entries) /\ k \in DOMAIN entries
    BY <1>2, <1>3 DEF TypeInv, TypeOK
  <2>2. Range(Append(batch[o], k)) = Range(batch[o]) \cup {k}
    BY ONLY <2>1, RangeOfAppend
  <2>3. batch'[o] = IF o \in os THEN Append(batch[o], k) ELSE batch[o]
    BY <1>1, <1>3
  <2> QED  BY ONLY <2>2, <2>3
<1>8. 1..routed' = 1..routed \cup {k} /\ k \notin 1..routed
  BY <1>1, <1>2, <1>3
<1>9. \A o \in Outputs : \A n \in Range(batch'[o]) : n \in 1..routed' /\ o \in MayReach(n)'
  BY ONLY Divided, <1>5, <1>6, <1>7, <1>8 DEF Divided
<1>10. \A n \in 1..routed' : \A o \in MustReach(n)' : o \in Outputs /\ n \in Range(batch'[o])
  BY ONLY Divided, os \in SUBSET Outputs, <1>5, <1>6, <1>7, <1>8 DEF Divided
<1> QED  BY <1>9, <1>10 DEF Divided

\* Only Route and the loop over the batch give an output anything.
LEMMA DividedStep == TypeInv /\ Divided /\ [Next]_vars => Divided'
<1> SUFFICES ASSUME TypeInv, Divided, [Next]_vars PROVE Divided'
  OBVIOUS
<1>1. CASE UNCHANGED work
  BY <1>1 DEF work, Divided, MustReach, MayReach
<1>2. ASSUME NEW b \in Batches, Route(b) PROVE Divided'
  <2>1. Range(<<>>) = {} /\ 1..0 = {}
    BY EmptySeq DEF Range
  <2> QED  BY <1>2, <2>1 DEF Route, Divided
<1>3. CASE RouteEntry
  <2>1. CASE Routing /\ Entry.output \in adapters /\ RouteEntryTo({Entry.output}, ByLabel) /\ ByLabel \in Looks
    <3>1. {Entry.output} \in SUBSET Outputs
      BY <2>1 DEF TypeInv, TypeOK
    <3>2. ByLabel.named
      BY DEF ByLabel
    <3> QED  BY <2>1, <3>1, <3>2, DividedEntry
  <2>2. ASSUME Routing, ByRange \in Looks, NEW os \in SUBSET Outputs,
               always \subseteq os, os \subseteq ever, RouteEntryTo(os, ByRange)
        PROVE  Divided'
    <3>1. ~ByRange.named /\ ByRange.always = always /\ ByRange.ever = ever
      BY DEF ByRange
    <3> QED  BY <2>2, <3>1, DividedEntry
  <2> QED  BY <1>1, <1>3, <2>1, <2>2, RouteEntryCases
<1> QED
  BY <1>1, <1>2, <1>3
     DEF Next, SendStep, RouteReturns, SendRefused, SendBegins, SendSucceeds, SendFails, Wake,
         Tick, AddAdapter, RemoveAdapter, vars

\* What a Send does to the copies: one more of each entry that the sink took.
LEMMA SendTakes ==
  ASSUME TypeInv, NEW o \in Outputs,
         NEW x \in Outcomes(Kind[o], entries, batch[o]), Takes(o, x.taken)
  PROVE  /\ x.taken \subseteq Range(batch[o])
         /\ \A n \in DOMAIN entries :
              copies'[o][n] = IF n \in x.taken THEN copies[o][n] + 1 ELSE copies[o][n]
         /\ \A p \in Outputs \ {o} : copies'[p] = copies[p]
         /\ x.ok /\ Kind[o] # "stdout" => x.taken = Range(batch[o])
<1>1. Kind[o] \in {"loki", "elasticsearch", "stdout"}
  BY RouterAssumption
<1>2. x.taken \subseteq Range(batch[o])
  BY <1>1, TakenFromBatch
<1>3. x.ok /\ Kind[o] # "stdout" => x.taken = Range(batch[o])
  BY <1>1, OkMeansTaken
<1>4. copies \in [Outputs -> [DOMAIN entries -> 0..Retries]]
  BY DEF TypeInv, TypeOK
<1>5. copies'[o] = [n \in DOMAIN entries |-> IF n \in x.taken THEN copies[o][n] + 1 ELSE copies[o][n]]
  BY <1>4 DEF Takes
<1>6. \A p \in Outputs \ {o} : copies'[p] = copies[p]
  BY <1>4 DEF Takes
<1> QED  BY <1>2, <1>3, <1>5, <1>6

\* A sink has an entry twice only at the price of a failed Send.
LEMMA TakenStep == TypeInv /\ Taken /\ [Next]_vars => Taken'
<1> SUFFICES ASSUME TypeInv, Taken, [Next]_vars PROVE Taken'
  OBVIOUS
<1>1. \A o \in Outputs : failed[o] \in Nat /\ \A n \in DOMAIN entries : copies[o][n] \in Nat
  BY Positive DEF TypeInv, TypeOK
<1>2. CASE UNCHANGED <<work, got, pc>>
  BY <1>2 DEF work, got, Taken
<1>3. ASSUME NEW b \in Batches, Route(b) PROVE Taken'
  BY <1>3 DEF Route, Taken
<1>4. CASE RouteEntry
  <2>1. /\ Routing /\ UNCHANGED <<entries, copies, failed>>
        /\ \A o \in Outputs : pc'[o] # "ok"
    <3>1. Routing => \A o \in Outputs : pc[o] = "none"
      <4>1. Routing => routed < Len(entries)
        BY DEF Routing
      <4> QED  BY <4>1 DEF TypeInv, AttemptsLeft
    <3> QED  BY <1>4, <3>1, RouteEntryCases DEF RouteEntryTo, got, senders, work
  <2>2. \A o \in Outputs : \A n \in DOMAIN entries : copies[o][n] <= 0
    BY <2>1 DEF TypeInv, AttemptsLeft, Routing
  <2> QED  BY <1>1, <2>1, <2>2 DEF Taken
<1>5. ASSUME NEW o \in Outputs, SendRefused(o) \/ SendBegins(o) \/ Wake(o) PROVE Taken'
  <2>1. /\ UNCHANGED <<work, got>>
        /\ \A p \in Outputs : pc'[p] = "ok" => pc[p] = "ok"
        /\ pc[o] # "ok" /\ \A p \in Outputs \ {o} : pc'[p] = pc[p]
        /\ pc'[o] # "ok"
    BY <1>5 DEF SendRefused, SendBegins, Wake, TypeInv, TypeOK
  <2> QED  BY <1>1, <2>1 DEF Taken, work, got
<1>6. ASSUME NEW o \in Outputs, SendSucceeds(o) PROVE Taken'
  <2>1. PICK x \in Outcomes(Kind[o], entries, batch[o]) : x.ok /\ Takes(o, x.taken)
    BY <1>6 DEF SendSucceeds
  <2>2. /\ UNCHANGED <<entries, batch, failed>> /\ pc[o] = "send" /\ pc'[o] = "ok"
        /\ \A p \in Outputs \ {o} : pc'[p] = pc[p]
    BY <1>6 DEF SendSucceeds, TypeInv, TypeOK, work
  <2>3. /\ x.taken \subseteq Range(batch[o])
        /\ \A n \in DOMAIN entries :
             copies'[o][n] = IF n \in x.taken THEN copies[o][n] + 1 ELSE copies[o][n]
        /\ \A p \in Outputs \ {o} : copies'[p] = copies[p]
    BY <2>1, SendTakes
  <2> QED  BY ONLY Taken, <1>1, <2>2, <2>3 DEF Taken
<1>7. ASSUME NEW o \in Outputs, SendFails(o) PROVE Taken'
  <2>1. PICK x \in Outcomes(Kind[o], entries, batch[o]) : ~x.ok /\ Takes(o, x.taken)
    BY <1>7 DEF SendFails
  <2>2. /\ UNCHANGED <<entries, batch>> /\ pc[o] = "send" /\ pc'[o] # "ok"
        /\ failed'[o] = failed[o] + 1
        /\ \A p \in Outputs \ {o} : pc'[p] = pc[p] /\ failed'[p] = failed[p]
    BY <1>7 DEF SendFails, AfterFailure, TypeInv, TypeOK, work
  <2>3. /\ x.taken \subseteq Range(batch[o])
        /\ \A n \in DOMAIN entries :
             copies'[o][n] = IF n \in x.taken THEN copies[o][n] + 1 ELSE copies[o][n]
        /\ \A p \in Outputs \ {o} : copies'[p] = copies[p]
    BY <2>1, SendTakes
  <2> QED  BY ONLY Taken, <1>1, <2>2, <2>3 DEF Taken
<1> QED
  BY <1>2, <1>3, <1>4, <1>5, <1>6, <1>7
     DEF Next, SendStep, RouteReturns, Tick, AddAdapter, RemoveAdapter, vars, senders

\* A goroutine that ends well has had every entry of its batch taken.
LEMMA SentStep == TypeInv /\ Sent /\ [Next]_vars => Sent'
<1> SUFFICES ASSUME TypeInv, Sent, [Next]_vars PROVE Sent'
  OBVIOUS
<1>1. /\ Len(entries) \in Nat /\ DOMAIN entries = 1..Len(entries)
      /\ routed \in Nat
      /\ \A o \in Outputs : Range(batch[o]) \subseteq DOMAIN entries
      /\ \A o \in Outputs : \A n \in DOMAIN entries : copies[o][n] \in Nat
  BY LenProperties, RangeOfSeq, Positive DEF TypeInv, TypeOK
<1>2. CASE UNCHANGED <<work, got, pc>>
  BY <1>2 DEF work, got, Sent
<1>3. ASSUME NEW b \in Batches, Route(b) PROVE Sent'
  BY <1>3 DEF Route, Sent
<1>4. CASE RouteEntry
  <2>1. CASE UNCHANGED <<work, got, senders>>
    BY <1>2, <2>1 DEF senders
  <2>2. CASE /\ entries' = entries
             /\ \A o \in Outputs :
                  pc'[o] = IF routed' = Len(entries) /\ batch'[o] # <<>> THEN "start" ELSE "none"
    BY <2>2 DEF Sent
  <2> QED  BY <1>4, <2>1, <2>2, RouteEntryCases DEF RouteEntryTo
<1>5. ASSUME NEW o \in Outputs, SendRefused(o) \/ SendBegins(o) \/ Wake(o) PROVE Sent'
  <2>1. /\ UNCHANGED <<work, got>>
        /\ pc'[o] \notin {"ok", "none"} /\ \A p \in Outputs \ {o} : pc'[p] = pc[p]
    BY <1>5 DEF SendRefused, SendBegins, Wake, TypeInv, TypeOK
  <2> QED  BY <2>1 DEF Sent, work, got
<1>6. ASSUME NEW o \in Outputs, SendSucceeds(o) PROVE Sent'
  <2>1. PICK x \in Outcomes(Kind[o], entries, batch[o]) : x.ok /\ Takes(o, x.taken)
    BY <1>6 DEF SendSucceeds
  <2>2. /\ UNCHANGED <<entries, batch, routed>> /\ pc'[o] = "ok"
        /\ \A p \in Outputs \ {o} : pc'[p] = pc[p]
    BY <1>6 DEF SendSucceeds, TypeInv, TypeOK, work
  <2>3. /\ \A p \in Outputs \ {o} : copies'[p] = copies[p]
        /\ Kind[o] # "stdout" => \A n \in Range(batch[o]) : copies'[o][n] = copies[o][n] + 1
    BY <1>1, <2>1, SendTakes
  <2>4. Kind[o] # "stdout" => \A n \in Range(batch'[o]) : copies'[o][n] > 0
    BY <1>1, <2>2, <2>3
  <2> QED  BY <2>2, <2>3, <2>4 DEF Sent
<1>7. ASSUME NEW o \in Outputs, SendFails(o) PROVE Sent'
  <2>1. PICK x \in Outcomes(Kind[o], entries, batch[o]) : ~x.ok /\ Takes(o, x.taken)
    BY <1>7 DEF SendFails
  <2>2. /\ UNCHANGED <<entries, batch, routed>> /\ pc'[o] \notin {"ok", "none"}
        /\ \A p \in Outputs \ {o} : pc'[p] = pc[p]
    BY <1>7 DEF SendFails, AfterFailure, TypeInv, TypeOK, work
  <2>3. \A p \in Outputs \ {o} : copies'[p] = copies[p]
    BY <2>1, SendTakes
  <2> QED  BY <2>2, <2>3 DEF Sent
<1> QED
  BY <1>2, <1>3, <1>4, <1>5, <1>6, <1>7
     DEF Next, SendStep, RouteReturns, Tick, AddAdapter, RemoveAdapter, vars, senders

\* Route returns nil only if no goroutine ended in an error.
LEMMA EndedStep == TypeInv /\ Ended /\ [Next]_vars => Ended'
<1> SUFFICES ASSUME TypeInv, Ended, [Next]_vars PROVE Ended'
  OBVIOUS
<1>1. CASE UNCHANGED <<routing, outcome, entries, routed, pc>>
  BY <1>1 DEF Ended
<1>2. ASSUME NEW b \in Batches, Route(b) PROVE Ended'
  BY <1>2 DEF Route, Ended
<1>3. CASE RouteEntry
  <2>1. CASE UNCHANGED <<senders, work, routing, outcome>>
    BY <1>1, <2>1 DEF senders, work
  <2>2. CASE Routing /\ UNCHANGED <<routing, outcome>> /\ \A o \in Outputs : pc'[o] \in {"start", "none"}
    BY <2>2 DEF Routing, Ended
  <2> QED  BY <1>3, <2>1, <2>2, RouteEntryCases DEF RouteEntryTo
<1>4. CASE RouteReturns
  <2>1. Len(entries) \in Nat /\ routed \in 0..Len(entries)
    BY LenProperties DEF TypeInv, TypeOK
  <2> QED  BY <1>4, <2>1 DEF RouteReturns, Routing, Ended, senders, work
<1>5. ASSUME NEW o \in Outputs, SendStep(o) PROVE Ended'
  <2>1. pc[o] \in {"start", "send", "sleep"} /\ UNCHANGED <<routing, outcome>>
    BY <1>5 DEF SendStep, SendRefused, SendBegins, SendSucceeds, SendFails, Wake
  <2> QED  BY <2>1 DEF Ended
<1> QED
  BY <1>1, <1>2, <1>3, <1>4, <1>5
     DEF Next, Tick, AddAdapter, RemoveAdapter, vars, senders, work

LEMMA DeliveryInvariant == Spec => []DeliveryInv
<1>1. TypeInv /\ DeliveryInv /\ [Next]_vars => DeliveryInv'
  BY DividedStep, TakenStep, SentStep, EndedStep DEF DeliveryInv
<1> QED  BY <1>1, DeliveryInit, TypeInvariant, PTL DEF Spec

\* When Route returns nil, every entry is at each Loki and Elasticsearch sink it had to
\* reach: the one its label names, if it was there, else all that stayed while they were
\* ranged over, whatever adapters came and went and whatever the sinks answered.
THEOREM NilMeansDeliveredHolds == Spec => []NilMeansDelivered
<1>1. TypeInv /\ DeliveryInv => NilMeansDelivered
  <2> SUFFICES ASSUME TypeInv, DeliveryInv, outcome = "nil",
                      NEW n \in DOMAIN entries, NEW o \in MustReach(n), Kind[o] # "stdout"
               PROVE  copies[o][n] > 0
    BY DEF NilMeansDelivered
  <2>1. /\ ~routing /\ routed = Len(entries)
        /\ \A p \in Outputs : pc[p] \in {"none", "ok", "error"} /\ pc[p] # "error"
    BY DEF DeliveryInv, Ended, TypeInv, TypeOK
  <2>2. o \in Outputs /\ n \in Range(batch[o])
    <3>1. n \in 1..routed
      BY <2>1, LenProperties DEF TypeInv, TypeOK
    <3> QED  BY <3>1 DEF DeliveryInv, Divided
  <2>3. batch[o] # <<>>
    <3>1. Range(<<>>) = {}
      BY EmptySeq DEF Range
    <3> QED  BY <2>2, <3>1
  <2> QED  BY <2>1, <2>2, <2>3 DEF DeliveryInv, Sent
<1> QED  BY <1>1, TypeInvariant, DeliveryInvariant, PTL

\* A sink gets an entry once, and once more at most for every Send to it that failed; it
\* never gets an entry whose label was found to name another adapter.
THEOREM DuplicatesNeedFailuresHolds == Spec => []DuplicatesNeedFailures
<1>1. TypeInv /\ DeliveryInv => DuplicatesNeedFailures
  <2> SUFFICES ASSUME TypeInv, DeliveryInv, NEW o \in Outputs, NEW n \in DOMAIN entries
               PROVE  /\ copies[o][n] <= failed[o] + 1
                      /\ copies[o][n] > 0 => o \in MayReach(n)
    BY DEF DuplicatesNeedFailures
  <2>1. copies[o][n] \in Nat /\ failed[o] \in Nat
    BY Positive DEF TypeInv, TypeOK
  <2>2. copies[o][n] <= failed[o] + 1
    BY <2>1 DEF DeliveryInv, Taken
  <2>3. copies[o][n] > 0 => o \in MayReach(n)
    BY DEF DeliveryInv, Taken, Divided
  <2> QED  BY <2>2, <2>3
<1> QED  BY <1>1, TypeInvariant, DeliveryInvariant, PTL
=============================================================================
