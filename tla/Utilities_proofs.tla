-------------------------- MODULE Utilities_proofs --------------------------
(***************************************************************************)
(* Proofs about the two packages that no other uses: Queue, for every       *)
(* finite set of goroutines, every capacity (0 too) and every batch size,   *)
(* and RateLimiter, for every rate and every burst.                         *)
(***************************************************************************)
EXTENDS Queue, RateLimiter, SequenceTheorems, FiniteSetTheorems, WellFoundedInduction, TLAPS

-----------------------------------------------------------------------------
(* Elements of sequences. *)

\* Append adds one element to what a channel or slice holds.
LEMMA RangeOfAppend ==
  ASSUME NEW S, NEW s \in Seq(S), NEW e \in S
  PROVE  Range(Append(s, e)) = Range(s) \cup {e}
<1> DEFINE u == <<e>>
<1>1. u \in Seq(S) /\ Range(u) = {e}
  BY DEF Range
<1>2. Append(s, e) = s \o u
  BY AppendIsConcat
<1> HIDE DEF u
<1> QED  BY <1>1, <1>2, RangeConcatenation

\* Receiving takes the head and leaves the tail.
LEMMA RangeOfTail ==
  ASSUME NEW S, NEW s \in Seq(S), s # <<>>
  PROVE  Range(s) = {Head(s)} \cup Range(Tail(s))
<1>1. Tail(s) \in Seq(S) /\ 1 \in 1..Len(s) /\ Len(s) \in 1..Len(s) /\ Head(s) = s[1]
  BY HeadTailProperties, EmptySeq
<1> DEFINE u == <<s[1]>>
<1>2. s = u \o Tail(s)
  <2>1. SubSeq(s, 1, Len(s)) = <<s[1]>> \o SubSeq(s, 1 + 1, Len(s))
    BY <1>1, SubSeqRecursiveFirst
  <2> QED  BY <2>1, SubSeqFull, TailIsSubSeq
<1>3. u \in Seq(S) /\ Range(u) = {s[1]}
  <2>1. s[1] \in S
    BY <1>1, ElementOfSeq
  <2> QED  BY ONLY <2>1 DEF Range
<1> HIDE DEF u
<1> DEFINE v == Tail(s)
<1>4. Range(u \o v) = Range(u) \cup Range(v)
  <2>1. u \in Seq(S) /\ v \in Seq(S)
    BY <1>1, <1>3
  <2> HIDE DEF v
  <2> QED  BY ONLY <2>1, RangeConcatenation
<1> QED  BY <1>1, <1>2, <1>3, <1>4

-----------------------------------------------------------------------------
(* The lists of the condition variables. *)

Distinct(w) == \A i, j \in DOMAIN w : w[i] = w[j] => i = j

\* Who begins to wait goes to the end of a list he is not on.
LEMMA DistinctAppend ==
  ASSUME NEW w \in Seq(Threads), NEW t \in Threads, Distinct(w), t \notin Range(w)
  PROVE  /\ Append(w, t) \in Seq(Threads) /\ Distinct(Append(w, t))
         /\ Range(Append(w, t)) = Range(w) \cup {t}
<1> DEFINE v == Append(w, t)
<1>1. /\ Len(w) \in Nat /\ v \in Seq(Threads)
      /\ DOMAIN w = 1..Len(w) /\ DOMAIN v = 1..Len(w) + 1
      /\ \A i \in 1..Len(w) : v[i] = w[i] /\ w[i] \in Range(w)
      /\ v[Len(w) + 1] = t
  BY AppendProperties, LenProperties DEF Range
<1>2. Range(v) = Range(w) \cup {t}
  BY RangeOfAppend
<1> HIDE DEF v
<1>3. 1..Len(w) + 1 = 1..Len(w) \cup {Len(w) + 1}
  BY ONLY <1>1
<1>4. Distinct(v)
  BY <1>1, <1>3 DEF Distinct
<1> QED  BY <1>1, <1>2, <1>4 DEF v

\* A Signal takes one waiter from the list.
LEMMA DistinctOldest ==
  ASSUME NEW w \in Seq(Threads), Distinct(w)
  PROVE  /\ WithoutOldest(w) \in Seq(Threads) /\ Distinct(WithoutOldest(w))
         /\ Oldest(w) \subseteq Range(w)
         /\ Range(WithoutOldest(w)) = Range(w) \ Oldest(w)
         /\ WithoutOldest(w) # <<>> => \E u \in Threads : Oldest(w) = {u}
<1>1. CASE w = <<>>
  BY <1>1 DEF WithoutOldest, Oldest
<1>2. CASE w # <<>>
  <2> DEFINE v == Tail(w)
  <2>1. /\ Len(w) \in Nat /\ Len(w) > 0
        /\ DOMAIN w = 1..Len(w) /\ DOMAIN v = 1..Len(w) - 1
        /\ \A i \in 1..Len(w) - 1 : v[i] = w[i + 1]
        /\ Head(w) = w[1] /\ Head(w) \in Threads /\ v \in Seq(Threads)
    BY <1>2, HeadTailProperties, LenProperties, EmptySeq
  <2>2. Range(w) = {Head(w)} \cup Range(v)
    BY <1>2, RangeOfTail
  <2> HIDE DEF v
  <2>3. Distinct(v)
    <3> SUFFICES ASSUME NEW i \in DOMAIN v, NEW j \in DOMAIN v, v[i] = v[j] PROVE i = j
      BY DEF Distinct
    <3>1. i + 1 \in DOMAIN w /\ j + 1 \in DOMAIN w /\ w[i + 1] = w[j + 1]
      BY <2>1
    <3> QED  BY <2>1, <3>1 DEF Distinct
  <2>4. Head(w) \notin Range(v)
    <3> SUFFICES ASSUME NEW i \in DOMAIN v, v[i] = Head(w) PROVE FALSE
      BY DEF Range
    <3>1. i + 1 \in DOMAIN w /\ 1 \in DOMAIN w /\ w[i + 1] = w[1] /\ i + 1 # 1
      BY <2>1
    <3> QED  BY <3>1 DEF Distinct
  <2> QED  BY <1>2, <2>1, <2>2, <2>3, <2>4 DEF WithoutOldest, Oldest, v
<1> QED  BY <1>1, <1>2

-----------------------------------------------------------------------------
(* Type correctness.  The items are the numbers of the last pushes, in their order, *)
(* and every push on its way still has its number to come.                         *)

ItemsInv ==
  /\ items \in Seq(Nat) /\ Len(items) <= Capacity
  /\ Len(items) <= accepted /\ accepted \in Nat
  /\ \A i \in 1..Len(items) : items[i] = accepted - Len(items) + i

Places == {"idle", "ready", "waiting"}

WaitInv ==
  /\ pc \in [Threads -> Places] /\ op \in [Threads -> Ops]
  /\ waitEmpty \in Seq(Threads) /\ Distinct(waitEmpty)
  /\ waitFull \in Seq(Threads) /\ Distinct(waitFull)
  /\ Range(waitEmpty) = {t \in Waiting : op[t] \in {"pop", "popBatch"}}
  /\ Range(waitFull) = {t \in Waiting : op[t] = "push"}
  /\ closed => waitEmpty = <<>> /\ waitFull = <<>>

Bounded == accepted + Cardinality(Pushing) <= MaxEntries

QueueInv ==
  /\ ItemsInv
  /\ WaitInv
  /\ Bounded
  /\ closed \in BOOLEAN
  /\ orphan \in [Threads -> BOOLEAN]

\* The goroutines in some place are finitely many.
LEMMA FiniteThreads ==
  ASSUME NEW S \in SUBSET Threads
  PROVE  IsFiniteSet(S) /\ Cardinality(S) \in Nat
BY QueueAssumption, FS_Subset, FS_CardinalityType

\* A sequence of consecutive numbers holds all of them.
LEMMA NumbersRange ==
  ASSUME NEW s \in Seq(Nat), NEW a \in Nat, Len(s) <= a,
         \A i \in 1..Len(s) : s[i] = a - Len(s) + i
  PROVE  Range(s) = (a - Len(s) + 1)..a /\ Len(s) \in Nat
<1>1. DOMAIN s = 1..Len(s) /\ Len(s) \in Nat
  BY LenProperties
<1>2. ASSUME NEW x \in Range(s) PROVE x \in (a - Len(s) + 1)..a
  <2>1. PICK i \in 1..Len(s) : x = s[i]
    BY <1>1 DEF Range
  <2> QED  BY <1>1, <2>1
<1>3. ASSUME NEW x \in (a - Len(s) + 1)..a PROVE x \in Range(s)
  <2> DEFINE i == x - (a - Len(s))
  <2>1. i \in 1..Len(s) /\ x = a - Len(s) + i
    BY <1>1
  <2>2. x = s[i]
    BY <2>1
  <2> QED  BY <1>1, <2>1, <2>2 DEF Range
<1> QED  BY <1>1, <1>2, <1>3

\* Push puts the next number at the end.
LEMMA ItemsAppend ==
  ASSUME ItemsInv, HasRoom, items' = Append(items, accepted + 1), accepted' = accepted + 1
  PROVE  ItemsInv'
<1>1. /\ Len(items) \in Nat /\ items' \in Seq(Nat) /\ Len(items') = Len(items) + 1
      /\ \A i \in 1..Len(items) : items'[i] = items[i]
      /\ items'[Len(items) + 1] = accepted + 1
  BY AppendProperties, LenProperties DEF ItemsInv
<1>2. \A i \in 1..Len(items) + 1 : i \in 1..Len(items) \/ i = Len(items) + 1
  BY <1>1
<1> QED  BY <1>1, <1>2, QueueAssumption DEF ItemsInv, HasRoom

\* Pop and PopBatch take the oldest items.
LEMMA ItemsTake ==
  ASSUME ItemsInv, NEW n \in 0..Len(items), items' = SubSeq(items, n + 1, Len(items)),
         UNCHANGED accepted
  PROVE  /\ ItemsInv' /\ Len(items') = Len(items) - n
         /\ Range(SubSeq(items, 1, n)) = (accepted - Len(items) + 1)..(accepted - Len(items) + n)
         /\ Range(items') = (accepted - Len(items) + n + 1)..accepted
<1>1. Len(items) \in Nat /\ n \in Nat /\ \A i \in 1..Len(items) : items[i] \in Nat
  BY LenProperties, ElementOfSeq DEF ItemsInv
<1>2. /\ items' \in Seq(Nat) /\ Len(items') = Len(items) - n
      /\ \A i \in 1..Len(items) - n : items'[i] = items[n + i]
  <2> DEFINE m == n + 1
             l == Len(items)
  <2>1. m \in Int /\ l \in Int /\ \A i \in m..l : items[i] \in Nat
    BY <1>1
  <2>2. /\ SubSeq(items, m, l) \in Seq(Nat)
        /\ Len(SubSeq(items, m, l)) = IF m <= l THEN l - m + 1 ELSE 0
        /\ \A i \in 1..l - m + 1 : SubSeq(items, m, l)[i] = items[m + i - 1]
    BY <2>1, SubSeqProperties
  <2>3. l - m + 1 = l - n /\ (IF m <= l THEN l - m + 1 ELSE 0) = l - n
    BY <1>1
  <2>4. \A i \in 1..l - n : items'[i] = items[m + i - 1]
    BY <2>2, <2>3
  <2>5. \A i \in 1..l - n : m + i - 1 = n + i
    BY <1>1
  <2>6. Len(items') = l - n
    BY <2>2, <2>3
  <2>7. ASSUME NEW i \in 1..l - n PROVE items'[i] = items[n + i]
    <3>1. m + i - 1 = n + i
      BY <2>5
    <3>2. items'[i] = items[m + i - 1]
      BY <2>4
    <3> HIDE DEF m
    <3> QED  BY ONLY <3>1, <3>2
  <2>8. items' \in Seq(Nat)
    BY <2>2
  <2> QED  BY <2>6, <2>7, <2>8
<1>3. ItemsInv'
  <2>1. accepted' = accepted /\ accepted \in Nat /\ Capacity \in Nat
        /\ Len(items) <= accepted /\ Len(items) <= Capacity
        /\ \A i \in 1..Len(items) : items[i] = accepted - Len(items) + i
    BY QueueAssumption DEF ItemsInv
  <2>2. Len(items') <= accepted' /\ Len(items') <= Capacity
    BY <1>1, <1>2, <2>1
  <2>3. ASSUME NEW i \in 1..Len(items') PROVE items'[i] = accepted' - Len(items') + i
    <3>1. i \in 1..Len(items) - n /\ n + i \in 1..Len(items)
      BY <1>1, <1>2
    <3>2. items'[i] = items[n + i]
      BY <1>2, <3>1
    <3>3. items[n + i] = accepted - Len(items) + (n + i)
      BY <2>1, <3>1
    <3>4. Len(items') = Len(items) - n /\ i \in Int
      BY <1>1, <1>2, <3>1
    <3>5. accepted - Len(items) + (n + i) = accepted' - Len(items') + i
      BY ONLY <1>1, <2>1, <3>4
    <3> QED  BY <3>2, <3>3, <3>5
  <2> QED  BY <1>2, <2>1, <2>2, <2>3 DEF ItemsInv
<1> DEFINE b == SubSeq(items, 1, n)
<1>4. b \in Seq(Nat) /\ Len(b) = n /\ \A i \in 1..n : b[i] = items[i]
  BY <1>1, SubSeqProperties
<1> HIDE DEF b
<1>5. DOMAIN b = 1..n /\ \A i \in 1..n : b[i] = accepted - Len(items) + i
  <2>1. DOMAIN b = 1..n
    BY <1>4, LenProperties
  <2>2. \A i \in 1..Len(items) : items[i] = accepted - Len(items) + i
    BY DEF ItemsInv
  <2>3. 1..n \subseteq 1..Len(items)
    BY ONLY <1>1
  <2> QED  BY ONLY <1>4, <2>1, <2>2, <2>3
<1>6. Range(b) = (accepted - Len(items) + 1)..(accepted - Len(items) + n)
  <2>1. ASSUME NEW x \in (accepted - Len(items) + 1)..(accepted - Len(items) + n)
        PROVE  x \in Range(b)
    <3>1. x - (accepted - Len(items)) \in 1..n
      BY <1>1 DEF ItemsInv
    <3>2. b[x - (accepted - Len(items))] = x
      BY <1>1, <1>5, <3>1 DEF ItemsInv
    <3> QED  BY <1>5, <3>1, <3>2 DEF Range
  <2>2. ASSUME NEW i \in 1..n
        PROVE  b[i] \in (accepted - Len(items) + 1)..(accepted - Len(items) + n)
    BY <1>1, <1>5 DEF ItemsInv
  <2> QED  BY <1>5, <2>1, <2>2 DEF Range
<1>7. Range(items') = (accepted - Len(items) + n + 1)..accepted
  <2> DEFINE rest == items'
             last == accepted'
  <2>1. /\ rest \in Seq(Nat) /\ last \in Nat /\ Len(rest) <= last
        /\ \A i \in 1..Len(rest) : rest[i] = last - Len(rest) + i
    BY <1>3 DEF ItemsInv
  <2> HIDE DEF rest, last
  <2>2. Range(rest) = (last - Len(rest) + 1)..last
    BY <2>1, NumbersRange
  <2>3. last - Len(rest) + 1 = accepted - Len(items) + n + 1 /\ last = accepted
    <3>1. Len(rest) = Len(items) - n /\ last = accepted
      BY <1>2 DEF rest, last
    <3>2. Len(items) \in Nat /\ n \in Nat /\ accepted \in Nat
      BY <1>1 DEF ItemsInv
    <3> QED  BY ONLY <3>1, <3>2
  <2>4. Range(rest) = (accepted - Len(items) + n + 1)..accepted
    BY <2>2, <2>3
  <2> QED  BY <2>4 DEF rest
<1> QED  BY <1>2, <1>3, <1>6, <1>7 DEF b

-----------------------------------------------------------------------------
(* What a critical section does to those who wait and to those who are on their way. *)

Consumers == Ready({"pop", "popBatch"})
Producers == Ready({"push"})

\* t leaves the mutex and wakes some that wait.
LEMMA Leaves ==
  ASSUME WaitInv, NEW t \in Threads, pc[t] = "ready", NEW where \in {"idle", "waiting"},
         NEW woken \in SUBSET Waiting, Leave(t, where, woken), UNCHANGED op
  PROVE  /\ pc' \in [Threads -> Places]
         /\ t \notin Waiting /\ t \notin woken
         /\ Waiting' = (Waiting \ woken) \cup (IF where = "waiting" THEN {t} ELSE {})
         /\ Consumers' = (Consumers \ {t}) \cup {u \in woken : op[u] \in {"pop", "popBatch"}}
         /\ Producers' = (Producers \ {t}) \cup {u \in woken : op[u] = "push"}
         /\ Pushing' = IF where = "idle" THEN Pushing \ {t} ELSE Pushing
<1>1. /\ pc \in [Threads -> Places] /\ t \notin Waiting
      /\ \A u \in woken : u \in Threads /\ pc[u] = "waiting" /\ u # t
  BY DEF WaitInv, Waiting
<1>2. pc' \in [Threads -> Places]
  BY <1>1 DEF Leave, Places
<1>3. /\ pc'[t] = where
      /\ \A u \in woken : pc'[u] = "ready"
      /\ \A u \in Threads \ (woken \cup {t}) : pc'[u] = pc[u]
  BY <1>1 DEF Leave
<1>4. Waiting' = (Waiting \ woken) \cup (IF where = "waiting" THEN {t} ELSE {})
  BY <1>1, <1>3 DEF Waiting
<1>5. /\ Consumers' = (Consumers \ {t}) \cup {u \in woken : op[u] \in {"pop", "popBatch"}}
      /\ Producers' = (Producers \ {t}) \cup {u \in woken : op[u] = "push"}
  BY <1>1, <1>3 DEF Consumers, Producers, Ready
<1>6. Pushing' = IF where = "idle" THEN Pushing \ {t} ELSE Pushing
  BY <1>1, <1>3 DEF Pushing
<1> QED  BY <1>1, <1>2, <1>4, <1>5, <1>6

\* Push and TryPush end with a Signal of notEmpty.
LEMMA WaitSignalEmpty ==
  ASSUME WaitInv, NEW t \in Threads, Enters(t, {"push", "tryPush"}), SignalEmpty(t),
         UNCHANGED waitFull
  PROVE  /\ WaitInv' /\ Pushing' = Pushing \ {t}
         /\ Producers' = Producers \ {t}
         /\ Consumers' = Consumers \cup Oldest(waitEmpty)
         /\ Oldest(waitEmpty) \cap Consumers = {}
         /\ waitEmpty' # <<>> => \E u \in Threads : Oldest(waitEmpty) = {u}
<1>1. /\ pc[t] = "ready" /\ op[t] \in {"push", "tryPush"}
      /\ UNCHANGED <<closed, op>>
      /\ Leave(t, "idle", Oldest(waitEmpty)) /\ waitEmpty' = WithoutOldest(waitEmpty)
  BY DEF Enters, SignalEmpty
<1>2. /\ waitEmpty' \in Seq(Threads) /\ Distinct(waitEmpty')
      /\ Oldest(waitEmpty) \subseteq Range(waitEmpty)
      /\ Range(waitEmpty') = Range(waitEmpty) \ Oldest(waitEmpty)
      /\ waitEmpty' # <<>> => \E u \in Threads : Oldest(waitEmpty) = {u}
  BY <1>1, DistinctOldest DEF WaitInv
<1>3. Oldest(waitEmpty) \subseteq Waiting /\ \A u \in Oldest(waitEmpty) : op[u] \in {"pop", "popBatch"}
  BY <1>2 DEF WaitInv
<1>4. /\ pc' \in [Threads -> Places]
      /\ Waiting' = Waiting \ Oldest(waitEmpty)
      /\ Consumers' = (Consumers \ {t}) \cup {u \in Oldest(waitEmpty) : op[u] \in {"pop", "popBatch"}}
      /\ Producers' = (Producers \ {t}) \cup {u \in Oldest(waitEmpty) : op[u] = "push"}
      /\ Pushing' = Pushing \ {t}
  BY <1>1, <1>3, Leaves
<1>5. t \notin Consumers /\ Oldest(waitEmpty) \cap Consumers = {}
  BY <1>1, <1>3 DEF Consumers, Ready, Waiting
<1>6. closed' => waitEmpty' = <<>> /\ waitFull' = <<>>
  BY <1>1 DEF WaitInv, WithoutOldest
<1>7. WaitInv'
  BY <1>1, <1>2, <1>3, <1>4, <1>6 DEF WaitInv
<1> QED  BY <1>2, <1>3, <1>4, <1>5, <1>7

\* Pop and TryPop end with a Signal of notFull.
LEMMA WaitSignalFull ==
  ASSUME WaitInv, NEW t \in Threads, Enters(t, {"pop", "tryPop"}), SignalFull(t),
         UNCHANGED waitEmpty
  PROVE  /\ WaitInv' /\ Pushing' = Pushing
         /\ Consumers' = Consumers \ {t}
         /\ Producers' = Producers \cup Oldest(waitFull)
         /\ Oldest(waitFull) \cap Producers = {}
         /\ waitFull' # <<>> => \E u \in Threads : Oldest(waitFull) = {u}
<1>1. /\ pc[t] = "ready" /\ op[t] \in {"pop", "tryPop"}
      /\ UNCHANGED <<closed, op>>
      /\ Leave(t, "idle", Oldest(waitFull)) /\ waitFull' = WithoutOldest(waitFull)
  BY DEF Enters, SignalFull
<1>2. /\ waitFull' \in Seq(Threads) /\ Distinct(waitFull')
      /\ Oldest(waitFull) \subseteq Range(waitFull)
      /\ Range(waitFull') = Range(waitFull) \ Oldest(waitFull)
      /\ waitFull' # <<>> => \E u \in Threads : Oldest(waitFull) = {u}
  BY <1>1, DistinctOldest DEF WaitInv
<1>3. Oldest(waitFull) \subseteq Waiting /\ \A u \in Oldest(waitFull) : op[u] = "push"
  BY <1>2 DEF WaitInv
<1>4. /\ pc' \in [Threads -> Places]
      /\ Waiting' = Waiting \ Oldest(waitFull)
      /\ Consumers' = (Consumers \ {t}) \cup {u \in Oldest(waitFull) : op[u] \in {"pop", "popBatch"}}
      /\ Producers' = (Producers \ {t}) \cup {u \in Oldest(waitFull) : op[u] = "push"}
      /\ Pushing' = Pushing \ {t}
  BY <1>1, <1>3, Leaves
<1>5. t \notin Producers /\ t \notin Pushing /\ Oldest(waitFull) \cap Producers = {}
  BY <1>1, <1>3 DEF Producers, Ready, Waiting, Pushing
<1>6. closed' => waitEmpty' = <<>> /\ waitFull' = <<>>
  BY <1>1 DEF WaitInv, WithoutOldest
<1>7. WaitInv'
  BY <1>1, <1>2, <1>3, <1>4, <1>6 DEF WaitInv
<1> QED  BY <1>2, <1>3, <1>4, <1>5, <1>7

\* PopBatch ends with a Broadcast to notFull.
LEMMA WaitBroadcastFull ==
  ASSUME WaitInv, NEW t \in Threads, Enters(t, {"popBatch"}), BroadcastFull(t),
         UNCHANGED waitEmpty
  PROVE  /\ WaitInv' /\ Pushing' = Pushing
         /\ Consumers' = Consumers \ {t} /\ waitFull' = <<>>
<1>1. /\ pc[t] = "ready" /\ op[t] = "popBatch"
      /\ UNCHANGED <<closed, op>>
      /\ Leave(t, "idle", Range(waitFull)) /\ waitFull' = <<>>
  BY DEF Enters, BroadcastFull
<1>2. Range(waitFull) \subseteq Waiting /\ \A u \in Range(waitFull) : op[u] = "push"
  BY DEF WaitInv
<1>3. /\ pc' \in [Threads -> Places]
      /\ Waiting' = Waiting \ Range(waitFull)
      /\ Consumers' = (Consumers \ {t}) \cup {u \in Range(waitFull) : op[u] \in {"pop", "popBatch"}}
      /\ Pushing' = Pushing \ {t}
  BY <1>1, <1>2, Leaves
<1>4. <<>> \in Seq(Threads) /\ Distinct(<<>>) /\ Range(<<>>) = {}
  BY DEF Distinct, Range
<1>5. WaitInv'
  BY <1>1, <1>2, <1>3, <1>4 DEF WaitInv
<1> QED  BY <1>1, <1>2, <1>3, <1>5 DEF Pushing

\* A call that fails.
LEMMA WaitFails ==
  ASSUME WaitInv, NEW t \in Threads, pc[t] = "ready", Fails(t), UNCHANGED <<closed, op>>
  PROVE  /\ WaitInv' /\ Pushing' = Pushing \ {t}
         /\ Consumers' = Consumers \ {t} /\ Producers' = Producers \ {t}
<1>1. /\ pc' \in [Threads -> Places] /\ Waiting' = Waiting
      /\ Consumers' = Consumers \ {t} /\ Producers' = Producers \ {t}
      /\ Pushing' = Pushing \ {t}
  <2>1. Leave(t, "idle", {}) /\ UNCHANGED op
    BY DEF Fails
  <2> DEFINE none == {}
             where == "idle"
  <2>2. none \in SUBSET Waiting /\ where \in {"idle", "waiting"} /\ Leave(t, where, none)
    BY <2>1
  <2>3. where = "idle" /\ none = {}
    OBVIOUS
  <2> HIDE DEF none, where
  <2>4. /\ pc' \in [Threads -> Places]
        /\ Waiting' = (Waiting \ none) \cup (IF where = "waiting" THEN {t} ELSE {})
        /\ Consumers' = (Consumers \ {t}) \cup {u \in none : op[u] \in {"pop", "popBatch"}}
        /\ Producers' = (Producers \ {t}) \cup {u \in none : op[u] = "push"}
        /\ Pushing' = IF where = "idle" THEN Pushing \ {t} ELSE Pushing
    BY <2>1, <2>2, Leaves
  <2> QED  BY <2>3, <2>4
<1>2. WaitInv'
  BY <1>1 DEF Fails, WaitInv
<1> QED  BY <1>1, <1>2

\* A producer begins to wait.
LEMMA WaitPushWaits ==
  ASSUME WaitInv, NEW t \in Threads, PushWaits(t)
  PROVE  WaitInv' /\ Pushing' = Pushing /\ Consumers' = Consumers
<1>1. /\ pc[t] = "ready" /\ op[t] = "push" /\ ~closed /\ UNCHANGED <<closed, op, waitEmpty>>
      /\ Leave(t, "waiting", {}) /\ waitFull' = Append(waitFull, t)
  BY DEF PushWaits, Enters
<1>2. /\ pc' \in [Threads -> Places] /\ Waiting' = Waiting \cup {t}
      /\ Consumers' = Consumers \ {t} /\ Pushing' = Pushing /\ t \notin Waiting
  BY <1>1, Leaves
<1>3. /\ waitFull' \in Seq(Threads) /\ Distinct(waitFull')
      /\ Range(waitFull') = Range(waitFull) \cup {t}
  BY <1>1, <1>2, DistinctAppend DEF WaitInv
<1>4. WaitInv'
  BY <1>1, <1>2, <1>3 DEF WaitInv
<1> QED  BY <1>1, <1>2, <1>4 DEF Consumers, Ready

\* A consumer begins to wait.
LEMMA WaitPopWaits ==
  ASSUME WaitInv, NEW t \in Threads, PopWaits(t)
  PROVE  WaitInv' /\ Pushing' = Pushing /\ Producers' = Producers
<1>1. /\ pc[t] = "ready" /\ op[t] \in {"pop", "popBatch"} /\ ~closed
      /\ UNCHANGED <<closed, op, waitFull>>
      /\ Leave(t, "waiting", {}) /\ waitEmpty' = Append(waitEmpty, t)
  BY DEF PopWaits, Enters
<1>2. /\ pc' \in [Threads -> Places] /\ Waiting' = Waiting \cup {t}
      /\ Producers' = Producers \ {t} /\ Pushing' = Pushing /\ t \notin Waiting
  BY <1>1, Leaves
<1>3. /\ waitEmpty' \in Seq(Threads) /\ Distinct(waitEmpty')
      /\ Range(waitEmpty') = Range(waitEmpty) \cup {t}
  BY <1>1, <1>2, DistinctAppend DEF WaitInv
<1>4. WaitInv'
  BY <1>1, <1>2, <1>3 DEF WaitInv
<1> QED  BY <1>1, <1>2, <1>4 DEF Producers, Ready

\* A call, Close and Clear.
LEMMA WaitOthers ==
  ASSUME WaitInv,
         \/ \E t \in Threads, o \in Ops : Call(t, o)
         \/ \E t \in Threads : GiveUp(t)
         \/ Clear \/ Close \/ UNCHANGED vars
  PROVE  WaitInv' /\ Consumers \subseteq Consumers' /\ Producers \subseteq Producers'
<1>1. ASSUME NEW t \in Threads, NEW o \in Ops, Call(t, o)
      PROVE  WaitInv' /\ Consumers \subseteq Consumers' /\ Producers \subseteq Producers'
  <2>1. /\ pc \in [Threads -> Places] /\ op \in [Threads -> Ops] /\ pc[t] = "idle"
        /\ pc' = [pc EXCEPT ![t] = "ready"] /\ op' = [op EXCEPT ![t] = o]
        /\ UNCHANGED <<closed, waitEmpty, waitFull>>
    BY <1>1 DEF Call, WaitInv
  <2>2. pc' \in [Threads -> Places] /\ op' \in [Threads -> Ops]
    BY <2>1 DEF Places
  <2>3. /\ pc'[t] = "ready"
        /\ \A u \in Threads \ {t} : pc'[u] = pc[u] /\ op'[u] = op[u]
    BY <2>1
  <2>4. /\ {u \in Waiting' : op'[u] \in {"pop", "popBatch"}} = {u \in Waiting : op[u] \in {"pop", "popBatch"}}
        /\ {u \in Waiting' : op'[u] = "push"} = {u \in Waiting : op[u] = "push"}
    BY <2>1, <2>3 DEF Waiting
  <2>5. Consumers \subseteq Consumers' /\ Producers \subseteq Producers'
    BY <2>1, <2>3 DEF Consumers, Producers, Ready
  <2> QED  BY <2>1, <2>2, <2>4, <2>5 DEF WaitInv
<1>2. ASSUME NEW t \in Threads, GiveUp(t)
      PROVE  WaitInv' /\ Consumers \subseteq Consumers' /\ Producers \subseteq Producers'
  BY <1>2 DEF GiveUp, WaitInv, Waiting, Consumers, Producers, Ready
<1>3. ASSUME NEW W \in SUBSET Waiting, UNCHANGED op,
             pc' = [u \in Threads |-> IF u \in W THEN "ready" ELSE pc[u]]
      PROVE  /\ pc' \in [Threads -> Places] /\ Waiting' = Waiting \ W
             /\ Consumers \subseteq Consumers' /\ Producers \subseteq Producers'
  <2>1. pc \in [Threads -> Places]
    BY DEF WaitInv
  <2>2. pc' \in [Threads -> Places]
    BY <1>3, <2>1 DEF Places
  <2>3. \A u \in Threads : pc'[u] = IF u \in W THEN "ready" ELSE pc[u]
    BY <1>3
  <2>4. Waiting' = Waiting \ W
    BY <2>3 DEF Waiting
  <2>5. Consumers \subseteq Consumers' /\ Producers \subseteq Producers'
    BY <1>3, <2>3 DEF Consumers, Producers, Ready
  <2> QED  BY <2>2, <2>4, <2>5
<1>4. <<>> \in Seq(Threads) /\ Distinct(<<>>) /\ Range(<<>>) = {}
  BY DEF Distinct, Range
<1>5. CASE Clear
  <2>1. Range(waitFull) \in SUBSET Waiting
    BY DEF WaitInv
  <2>2. /\ pc' = [u \in Threads |-> IF u \in Range(waitFull) THEN "ready" ELSE pc[u]]
        /\ waitFull' = <<>> /\ UNCHANGED <<closed, waitEmpty, op>>
    BY <1>5 DEF Clear
  <2>3. /\ pc' \in [Threads -> Places] /\ Waiting' = Waiting \ Range(waitFull)
        /\ Consumers \subseteq Consumers' /\ Producers \subseteq Producers'
    BY <1>3, <2>1, <2>2
  <2>4. WaitInv'
    BY <1>4, <2>1, <2>2, <2>3 DEF WaitInv
  <2> QED  BY <2>3, <2>4
<1>6. CASE Close
  <2>1. /\ pc' = [u \in Threads |-> IF u \in Waiting THEN "ready" ELSE pc[u]]
        /\ waitFull' = <<>> /\ waitEmpty' = <<>> /\ UNCHANGED op
    BY <1>6 DEF Close, Waiting
  <2>2. /\ pc' \in [Threads -> Places] /\ Waiting' = {}
        /\ Consumers \subseteq Consumers' /\ Producers \subseteq Producers'
    BY <1>3, <2>1
  <2>3. WaitInv'
    BY <1>4, <2>1, <2>2 DEF WaitInv
  <2> QED  BY <2>2, <2>3
<1>7. CASE UNCHANGED vars
  BY <1>7 DEF vars, WaitInv, Waiting, Consumers, Producers, Ready
<1> QED  BY <1>1, <1>2, <1>5, <1>6, <1>7

-----------------------------------------------------------------------------
(* The invariant: the items, the lists, the pushes to come, and the wake-ups. *)

LEMMA OneLess ==
  ASSUME NEW S \in SUBSET Threads, NEW t \in S
  PROVE  Cardinality(S \ {t}) = Cardinality(S) - 1
BY FiniteThreads, FS_RemoveElement

LEMMA OneMore ==
  ASSUME NEW S \in SUBSET Threads, NEW t \in Threads \ S
  PROVE  Cardinality(S \cup {t}) = Cardinality(S) + 1
BY FiniteThreads, FS_AddElement

LEMMA NotMore ==
  ASSUME NEW S \in SUBSET Threads, NEW T \in SUBSET S
  PROVE  Cardinality(T) <= Cardinality(S)
BY FiniteThreads, FS_Subset

LEMMA Counts ==
  /\ Consumers \in SUBSET Threads /\ Producers \in SUBSET Threads /\ Pushing \in SUBSET Threads
  /\ Cardinality(Consumers) \in Nat /\ Cardinality(Producers) \in Nat
  /\ Cardinality(Pushing) \in Nat
<1>1. Consumers \in SUBSET Threads /\ Producers \in SUBSET Threads /\ Pushing \in SUBSET Threads
  BY DEF Consumers, Producers, Ready, Pushing
<1> QED  BY <1>1, FiniteThreads

\* Consumers on their way are enough for the items, producers for the free places.
EmptyOK == waitEmpty # <<>> => Len(items) <= Cardinality(Consumers)
FullOK == waitFull # <<>> => Capacity - Len(items) <= Cardinality(Producers)

AllInv == QueueInv /\ EmptyOK /\ FullOK

LEMMA StepPush ==
  ASSUME AllInv, NEW t \in Threads, PushItem(t)
  PROVE  AllInv'
<1>1. /\ Enters(t, {"push", "tryPush"}) /\ HasRoom /\ SignalEmpty(t)
      /\ pc[t] = "ready" /\ op[t] \in {"push", "tryPush"}
      /\ items' = Append(items, accepted + 1) /\ accepted' = accepted + 1
      /\ UNCHANGED <<waitFull, closed, orphan>>
  BY DEF PushItem, AppendItem, Enters
<1>2. /\ WaitInv' /\ Pushing' = Pushing \ {t}
      /\ Producers' = Producers \ {t}
      /\ Consumers' = Consumers \cup Oldest(waitEmpty)
      /\ Oldest(waitEmpty) \cap Consumers = {}
      /\ waitEmpty' # <<>> => \E u \in Threads : Oldest(waitEmpty) = {u}
  BY <1>1, WaitSignalEmpty DEF AllInv, QueueInv
<1>3. ItemsInv' /\ Len(items') = Len(items) + 1 /\ Len(items) \in Nat /\ accepted \in Nat
  BY <1>1, ItemsAppend, AppendProperties, LenProperties DEF AllInv, QueueInv, ItemsInv
<1>4. Bounded'
  <2>1. t \in Pushing
    BY <1>1 DEF Pushing
  <2>2. Cardinality(Pushing') = Cardinality(Pushing) - 1
    BY <1>2, <2>1, OneLess, Counts
  <2> QED  BY <1>1, <1>3, <2>2, Counts, QueueAssumption DEF AllInv, QueueInv, Bounded
<1>5. EmptyOK'
  <2> SUFFICES ASSUME waitEmpty' # <<>> PROVE Len(items') <= Cardinality(Consumers')
    BY DEF EmptyOK
  <2>1. PICK u \in Threads : Oldest(waitEmpty) = {u}
    BY <1>2
  <2>2. waitEmpty # <<>>
    BY <2>1 DEF Oldest
  <2>3. u \in Threads \ Consumers
    BY <1>2, <2>1
  <2>4. Cardinality(Consumers') = Cardinality(Consumers) + 1
    BY <1>2, <2>1, <2>3, OneMore, Counts
  <2> QED  BY <1>3, <2>2, <2>4, Counts DEF AllInv, EmptyOK
<1>6. FullOK'
  <2> SUFFICES ASSUME waitFull # <<>> PROVE Capacity - Len(items') <= Cardinality(Producers')
    BY <1>1 DEF FullOK
  <2>1. Cardinality(Producers') >= Cardinality(Producers) - 1
    <3>1. CASE t \in Producers
      BY <1>2, <3>1, OneLess, Counts
    <3>2. CASE t \notin Producers
      <4>1. Producers' = Producers
        BY <1>2, <3>2
      <4> QED  BY <4>1, Counts
    <3> QED  BY <3>1, <3>2
  <2>2. Capacity - Len(items) <= Cardinality(Producers)
    BY DEF AllInv, FullOK
  <2>3. Cardinality(Producers') \in Int
    BY <1>2, FiniteThreads, Counts
  <2> QED  BY <1>3, <2>1, <2>2, <2>3, Counts, QueueAssumption
<1> QED  BY <1>1, <1>2, <1>3, <1>4, <1>5, <1>6 DEF AllInv, QueueInv

LEMMA StepPop ==
  ASSUME AllInv, NEW t \in Threads, PopItem(t)
  PROVE  AllInv'
<1>1. /\ Enters(t, {"pop", "tryPop"}) /\ items # <<>> /\ SignalFull(t)
      /\ pc[t] = "ready" /\ op[t] \in {"pop", "tryPop"}
      /\ items' = Tail(items)
      /\ UNCHANGED <<waitEmpty, closed, orphan, accepted>>
  BY DEF PopItem, Enters
<1>2. /\ WaitInv' /\ Pushing' = Pushing
      /\ Consumers' = Consumers \ {t}
      /\ Producers' = Producers \cup Oldest(waitFull)
      /\ Oldest(waitFull) \cap Producers = {}
      /\ waitFull' # <<>> => \E u \in Threads : Oldest(waitFull) = {u}
  BY <1>1, WaitSignalFull DEF AllInv, QueueInv
<1>3. /\ ItemsInv' /\ Len(items') = Len(items) - 1 /\ Len(items) \in Nat \ {0}
  <2>1. items \in Seq(Nat) /\ Len(items) \in Nat \ {0} /\ 1 \in 0..Len(items)
    BY <1>1, EmptySeq DEF AllInv, QueueInv, ItemsInv
  <2>2. items' = SubSeq(items, 1 + 1, Len(items))
    BY <1>1, <2>1, TailIsSubSeq
  <2> QED  BY <1>1, <2>1, <2>2, ItemsTake DEF AllInv, QueueInv
<1>4. Bounded'
  BY <1>1, <1>2 DEF AllInv, QueueInv, Bounded
<1>5. EmptyOK'
  <2>1. Cardinality(Consumers') >= Cardinality(Consumers) - 1
    <3>1. CASE t \in Consumers
      BY <1>2, <3>1, OneLess, Counts
    <3>2. CASE t \notin Consumers
      <4>1. Consumers' = Consumers
        BY <1>2, <3>2
      <4> QED  BY <4>1, Counts
    <3> QED  BY <3>1, <3>2
  <2>2. Cardinality(Consumers') \in Int
    BY <1>2, FiniteThreads, Counts
  <2> QED  BY <1>1, <1>3, <2>1, <2>2, Counts DEF AllInv, EmptyOK
<1>6. FullOK'
  <2> SUFFICES ASSUME waitFull' # <<>> PROVE Capacity - Len(items') <= Cardinality(Producers')
    BY DEF FullOK
  <2>1. PICK u \in Threads : Oldest(waitFull) = {u}
    BY <1>2
  <2>2. waitFull # <<>>
    BY <2>1 DEF Oldest
  <2>3. u \in Threads \ Producers
    BY <1>2, <2>1
  <2>4. Cardinality(Producers') = Cardinality(Producers) + 1
    BY <1>2, <2>1, <2>3, OneMore, Counts
  <2> QED  BY <1>3, <2>2, <2>4, Counts, QueueAssumption DEF AllInv, FullOK
<1> QED  BY <1>1, <1>2, <1>3, <1>4, <1>5, <1>6 DEF AllInv, QueueInv

LEMMA BatchLength ==
  ASSUME ItemsInv, items # <<>>
  PROVE  BatchLen \in 1..Len(items) /\ Len(items) \in Nat
<1>1. Len(items) \in Nat \ {0}
  BY EmptySeq DEF ItemsInv
<1> QED  BY <1>1, QueueAssumption DEF BatchLen

LEMMA StepPopBatch ==
  ASSUME AllInv, NEW t \in Threads, PopBatch(t)
  PROVE  AllInv'
<1>1. /\ Enters(t, {"popBatch"}) /\ items # <<>> /\ BroadcastFull(t)
      /\ pc[t] = "ready" /\ op[t] = "popBatch"
      /\ items' = SubSeq(items, BatchLen + 1, Len(items))
      /\ UNCHANGED <<waitEmpty, closed, orphan, accepted>>
  BY DEF PopBatch, Enters
<1>2. /\ WaitInv' /\ Pushing' = Pushing /\ Consumers' = Consumers \ {t} /\ waitFull' = <<>>
  BY <1>1, WaitBroadcastFull DEF AllInv, QueueInv
<1>3. BatchLen \in 1..Len(items) /\ Len(items) \in Nat
  BY <1>1, BatchLength DEF AllInv, QueueInv
<1>4. ItemsInv' /\ Len(items') = Len(items) - BatchLen
  <2>1. BatchLen \in 0..Len(items)
    BY <1>3
  <2> HIDE DEF BatchLen
  <2> QED  BY <1>1, <2>1, ItemsTake DEF AllInv, QueueInv
<1>5. Bounded'
  BY <1>1, <1>2 DEF AllInv, QueueInv, Bounded
<1>6. EmptyOK'
  <2>1. t \in Consumers
    BY <1>1 DEF Consumers, Ready
  <2>2. Cardinality(Consumers') = Cardinality(Consumers) - 1
    BY <1>2, <2>1, OneLess, Counts
  <2> QED  BY <1>1, <1>3, <1>4, <2>2, Counts DEF AllInv, EmptyOK
<1>7. FullOK'
  BY <1>2 DEF FullOK
<1> QED  BY <1>1, <1>2, <1>4, <1>5, <1>6, <1>7 DEF AllInv, QueueInv

\* Steps that leave the items alone, or take them all, and count no push.
LEMMA StepRest ==
  ASSUME AllInv, NEW t \in Threads, PushWaits(t) \/ PushFails(t) \/ PopWaits(t) \/ PopFails(t)
  PROVE  AllInv'
<1>1. /\ UNCHANGED <<items, accepted, closed, orphan>> /\ pc[t] = "ready" /\ WaitInv
  BY DEF PushWaits, PushFails, PopWaits, PopFails, Enters, Fails, AllInv, QueueInv
<1>2. ItemsInv' /\ Len(items) \in Nat
  BY <1>1, LenProperties DEF AllInv, QueueInv, ItemsInv
<1>3. CASE PushWaits(t)
  <2>1. WaitInv' /\ Pushing' = Pushing /\ Consumers' = Consumers
    BY <1>1, <1>3, WaitPushWaits
  <2>2. Capacity - Len(items) <= 0 /\ UNCHANGED waitEmpty
    BY <1>2, <1>3, QueueAssumption DEF PushWaits, HasRoom
  <2>3. Cardinality(Producers') \in Nat
    BY FiniteThreads DEF Producers, Ready
  <2>4. EmptyOK'
    BY <1>1, <2>1, <2>2 DEF AllInv, EmptyOK
  <2>5. FullOK'
    BY <1>1, <1>2, <2>2, <2>3, QueueAssumption DEF FullOK
  <2>6. Bounded'
    BY <1>1, <2>1 DEF AllInv, QueueInv, Bounded
  <2> QED  BY <1>1, <1>2, <2>1, <2>4, <2>5, <2>6 DEF AllInv, QueueInv
<1>4. CASE PopWaits(t)
  <2>1. WaitInv' /\ Pushing' = Pushing /\ Producers' = Producers
    BY <1>1, <1>4, WaitPopWaits
  <2>2. Len(items) = 0 /\ UNCHANGED waitFull
    BY <1>4 DEF PopWaits
  <2>3. Cardinality(Consumers') \in Nat
    BY FiniteThreads DEF Consumers, Ready
  <2>4. EmptyOK'
    BY <1>1, <2>2, <2>3 DEF EmptyOK
  <2>5. FullOK'
    BY <1>1, <2>1, <2>2 DEF AllInv, FullOK
  <2>6. Bounded'
    BY <1>1, <2>1 DEF AllInv, QueueInv, Bounded
  <2> QED  BY <1>1, <1>2, <2>1, <2>4, <2>5, <2>6 DEF AllInv, QueueInv
<1>5. CASE PushFails(t) \/ PopFails(t)
  <2>1. Fails(t) /\ UNCHANGED <<closed, op, waitEmpty, waitFull>>
    BY <1>5 DEF PushFails, PopFails, Enters, Fails
  <2>2. /\ WaitInv' /\ Pushing' = Pushing \ {t}
        /\ Consumers' = Consumers \ {t} /\ Producers' = Producers \ {t}
    BY <1>1, <2>1, WaitFails
  <2>3. Bounded'
    <3>1. Cardinality(Pushing') <= Cardinality(Pushing) /\ Cardinality(Pushing') \in Nat
      BY <2>2, NotMore, Counts, FiniteThreads
    <3> QED  BY <1>1, <3>1, Counts, QueueAssumption DEF AllInv, QueueInv, Bounded, ItemsInv
  <2>4. EmptyOK'
    <3>1. CASE Len(items) = 0
      <4>1. Cardinality(Consumers') \in Nat
        BY FiniteThreads DEF Consumers, Ready
      <4> QED  BY <1>1, <3>1, <4>1 DEF EmptyOK
    <3>2. CASE t \notin Consumers
      <4>1. Consumers' = Consumers
        BY <2>2, <3>2
      <4> QED  BY <1>1, <2>1, <4>1 DEF AllInv, EmptyOK
    <3>3. Len(items) = 0 \/ t \notin Consumers
      BY <1>5 DEF PushFails, PopFails, Enters, Consumers, Ready
    <3> QED  BY <3>1, <3>2, <3>3
  <2>5. FullOK'
    <3>1. CASE closed
      BY <2>1, <3>1 DEF FullOK, AllInv, QueueInv, WaitInv
    <3>2. CASE t \notin Producers
      <4>1. Producers' = Producers
        BY <2>2, <3>2
      <4> QED  BY <1>1, <2>1, <4>1 DEF AllInv, FullOK
    <3>3. closed \/ t \notin Producers
      BY <1>5 DEF PushFails, PopFails, Enters, Producers, Ready
    <3> QED  BY <3>1, <3>2, <3>3
  <2> QED  BY <1>1, <1>2, <2>2, <2>3, <2>4, <2>5 DEF AllInv, QueueInv
<1> QED  BY <1>3, <1>4, <1>5

LEMMA StepOthers ==
  ASSUME AllInv,
         \/ \E t \in Threads, o \in Ops : Call(t, o)
         \/ \E t \in Threads : GiveUp(t)
         \/ Clear \/ Close \/ UNCHANGED vars
  PROVE  AllInv'
<1>1. WaitInv' /\ Consumers \subseteq Consumers' /\ Producers \subseteq Producers'
  BY WaitOthers DEF AllInv, QueueInv
<1>2. /\ Cardinality(Consumers) <= Cardinality(Consumers') /\ Cardinality(Consumers') \in Nat
      /\ Cardinality(Producers) <= Cardinality(Producers') /\ Cardinality(Producers') \in Nat
  <2>1. Consumers' \in SUBSET Threads /\ Producers' \in SUBSET Threads
    BY DEF Consumers, Producers, Ready
  <2> QED  BY <1>1, <2>1, NotMore, FiniteThreads
<1>3. /\ closed' \in BOOLEAN /\ orphan' \in [Threads -> BOOLEAN] /\ UNCHANGED accepted
  BY DEF AllInv, QueueInv, Call, GiveUp, Clear, Close, vars
<1>4. Len(items) \in Nat /\ accepted \in Nat
  BY LenProperties DEF AllInv, QueueInv, ItemsInv
<1>5. Bounded'
  <2>1. ASSUME NEW t \in Threads, NEW o \in Ops, Call(t, o) PROVE Bounded'
    <3>1. /\ pc[t] = "idle" /\ pc' = [pc EXCEPT ![t] = "ready"] /\ op' = [op EXCEPT ![t] = o]
          /\ pc \in [Threads -> Places] /\ op \in [Threads -> Ops]
          /\ o \in {"push", "tryPush"} => accepted + Cardinality(Pushing) < MaxEntries
      BY <2>1 DEF Call, AllInv, QueueInv, WaitInv
    <3>2. t \in Threads \ Pushing
      BY <3>1 DEF Pushing
    <3>3. CASE o \in {"push", "tryPush"}
      <4>1. Pushing' = Pushing \cup {t}
        BY <3>1, <3>3 DEF Pushing
      <4>2. Cardinality(Pushing') = Cardinality(Pushing) + 1
        BY <3>2, <4>1, OneMore, Counts
      <4> QED  BY <1>3, <1>4, <3>1, <3>3, <4>2, Counts, QueueAssumption DEF Bounded
    <3>4. CASE o \notin {"push", "tryPush"}
      <4>1. Pushing' = Pushing
        BY <3>1, <3>4 DEF Pushing
      <4> QED  BY <1>3, <4>1 DEF Bounded, AllInv, QueueInv
    <3> QED  BY <3>3, <3>4
  <2>2. CASE Pushing' = Pushing
    BY <1>3, <2>2 DEF Bounded, AllInv, QueueInv
  <2>3. ASSUME NEW t \in Threads, GiveUp(t) PROVE Pushing' = Pushing
    BY <2>3 DEF GiveUp, Pushing
  <2>4. ASSUME Clear \/ Close PROVE Pushing' = Pushing
    <3>1. pc \in [Threads -> Places] /\ Range(waitFull) \subseteq Waiting /\ UNCHANGED op
      BY <2>4 DEF AllInv, QueueInv, WaitInv, Clear, Close
    <3>2. \A u \in Threads : pc'[u] = "idle" <=> pc[u] = "idle"
      BY <2>4, <3>1 DEF Clear, Close, Waiting
    <3> QED  BY <3>1, <3>2 DEF Pushing
  <2>5. ASSUME UNCHANGED vars PROVE Pushing' = Pushing
    BY <2>5 DEF vars, Pushing
  <2> QED  BY <2>1, <2>2, <2>3, <2>4, <2>5
<1>6. CASE UNCHANGED <<items, waitEmpty, waitFull>>
  <2>1. ItemsInv'
    BY <1>3, <1>6 DEF AllInv, QueueInv, ItemsInv
  <2>2. EmptyOK' /\ FullOK'
    BY <1>2, <1>4, <1>6, Counts, QueueAssumption DEF AllInv, EmptyOK, FullOK
  <2> QED  BY <1>1, <1>3, <1>5, <2>1, <2>2 DEF AllInv, QueueInv
<1>7. CASE Clear
  <2>1. items' = <<>> /\ waitFull' = <<>> /\ Len(items') = 0
    BY <1>7 DEF Clear
  <2>2. ItemsInv'
    BY <1>3, <1>4, <2>1, QueueAssumption DEF ItemsInv
  <2>3. EmptyOK' /\ FullOK'
    BY <1>2, <2>1 DEF EmptyOK, FullOK
  <2> QED  BY <1>1, <1>3, <1>5, <2>2, <2>3 DEF AllInv, QueueInv
<1>8. CASE Close
  <2>1. UNCHANGED items /\ waitFull' = <<>> /\ waitEmpty' = <<>>
    BY <1>8 DEF Close
  <2>2. ItemsInv'
    BY <1>3, <2>1 DEF AllInv, QueueInv, ItemsInv
  <2>3. EmptyOK' /\ FullOK'
    BY <2>1 DEF EmptyOK, FullOK
  <2> QED  BY <1>1, <1>3, <1>5, <2>2, <2>3 DEF AllInv, QueueInv
<1> QED  BY <1>6, <1>7, <1>8 DEF Call, GiveUp, vars

LEMMA AllInit == Init => AllInv
<1> SUFFICES ASSUME Init PROVE AllInv
  OBVIOUS
<1>1. <<>> \in Seq(Threads) /\ Distinct(<<>>) /\ Range(<<>>) = {} /\ <<>> \in Seq(Nat)
  BY DEF Distinct, Range
<1>2. ItemsInv
  BY <1>1, QueueAssumption DEF Init, ItemsInv
<1>3. Waiting = {} /\ Pushing = {}
  BY DEF Init, Waiting, Pushing
<1>4. WaitInv
  BY <1>1, <1>3 DEF Init, WaitInv, Places, Ops
<1>5. Bounded
  BY <1>3, FS_EmptySet, QueueAssumption DEF Init, Bounded
<1>6. EmptyOK /\ FullOK
  BY DEF Init, EmptyOK, FullOK
<1> QED  BY <1>2, <1>4, <1>5, <1>6 DEF Init, AllInv, QueueInv

LEMMA AllStep == AllInv /\ [Next]_vars => AllInv'
<1> SUFFICES ASSUME AllInv, [Next]_vars PROVE AllInv'
  OBVIOUS
<1> QED  BY StepPush, StepPop, StepPopBatch, StepRest, StepOthers DEF Next, Section

LEMMA AllInvariant == Spec => []AllInv
BY AllInit, AllStep, PTL DEF Spec

\* The queue never holds more than its capacity, and who waits is on the list of the
\* condition variable that he waits for, for any number of goroutines.
THEOREM TypeCorrect == Spec => []TypeOK
<1>1. AllInv => TypeOK
  <2> SUFFICES ASSUME AllInv PROVE TypeOK
    OBVIOUS
  <2>1. accepted \in 0..MaxEntries
    BY Counts, QueueAssumption DEF AllInv, QueueInv, ItemsInv, Bounded
  <2> QED  BY <2>1 DEF AllInv, QueueInv, ItemsInv, WaitInv, TypeOK, Places
<1> QED  BY <1>1, AllInvariant, PTL

\* No wake-up is lost, for any number of producers and consumers and any capacity:
\* signals, broadcasts, barging calls, orphans and Clear leave nobody waiting for what
\* is there while nobody is on his way to it.
THEOREM NoWakeupIsLost == Spec => []NoLostWakeup
<1>1. AllInv => NoLostWakeup
  BY DEF AllInv, EmptyOK, FullOK, NoLostWakeup, Consumers, Producers
<1> QED  BY <1>1, AllInvariant, PTL

-----------------------------------------------------------------------------
(* Refinement: a push is Accept, a pop is Deliver of the oldest items, or Lose when *)
(* an orphan took them, Clear is Lose of everything and Close is Shut.              *)

LEMMA PushRefines ==
  ASSUME AllInv, NEW t \in Threads, PushItem(t)
  PROVE  Fifo!Next
<1>1. /\ ~closed /\ items' = Append(items, accepted + 1) /\ accepted' = accepted + 1
      /\ UNCHANGED <<closed, taken, gone>> /\ pc[t] = "ready" /\ op[t] \in {"push", "tryPush"}
  BY DEF PushItem, AppendItem, Enters
<1>2. Range(items') = Range(items) \cup {accepted + 1}
  BY <1>1, RangeOfAppend DEF AllInv, QueueInv, ItemsInv
<1>3. accepted < MaxEntries
  <2>1. t \in Pushing
    BY <1>1 DEF Pushing
  <2>2. Cardinality(Pushing) # 0
    BY <2>1, Counts, FiniteThreads, FS_EmptySet
  <2> QED  BY <2>2, Counts, QueueAssumption DEF AllInv, QueueInv, ItemsInv, Bounded
<1>4. Fifo!Accept
  BY <1>1, <1>2, <1>3 DEF Fifo!Accept
<1> QED  BY <1>4 DEF Fifo!Next

\* The oldest n items: all others are younger, and what stays is the rest.
LEMMA OldestItems ==
  ASSUME AllInv, NEW n \in 0..Len(items), items' = SubSeq(items, n + 1, Len(items)),
         UNCHANGED accepted
  PROVE  LET S == Range(SubSeq(items, 1, n))
         IN /\ S \in SUBSET Range(items)
            /\ Range(items') = Range(items) \ S
            /\ \A s \in S, p \in Range(items) \ S : s < p
<1>1. Len(items) \in Nat /\ accepted \in Nat /\ Len(items) <= accepted
  BY LenProperties DEF AllInv, QueueInv, ItemsInv
<1>2. /\ Range(items) = (accepted - Len(items) + 1)..accepted
      /\ Range(SubSeq(items, 1, n)) = (accepted - Len(items) + 1)..(accepted - Len(items) + n)
      /\ Range(items') = (accepted - Len(items) + n + 1)..accepted
  BY ItemsTake, NumbersRange DEF AllInv, QueueInv, ItemsInv
<1> DEFINE lo == accepted - Len(items)
<1>3. lo \in Nat /\ n \in Nat /\ lo + n <= accepted
  BY <1>1
<1> HIDE DEF lo
<1>4. /\ (lo + 1)..(lo + n) \subseteq (lo + 1)..accepted
      /\ (lo + n + 1)..accepted = ((lo + 1)..accepted) \ ((lo + 1)..(lo + n))
      /\ \A s \in (lo + 1)..(lo + n), p \in (lo + n + 1)..accepted : s < p
  BY ONLY <1>1, <1>3
<1> QED  BY <1>2, <1>4 DEF lo

LEMMA PopRefines ==
  ASSUME AllInv, NEW t \in Threads, PopItem(t) \/ PopBatch(t)
  PROVE  Fifo!Next
<1>1. PICK n \in 0..Len(items) :
        /\ items' = SubSeq(items, n + 1, Len(items))
        /\ \/ /\ taken' = taken \cup Range(SubSeq(items, 1, n)) /\ UNCHANGED gone
           \/ /\ gone' = gone \cup Range(SubSeq(items, 1, n)) /\ UNCHANGED taken
  <2>1. CASE PopItem(t)
    <3>1. items \in Seq(Nat) /\ items # <<>> /\ Len(items) \in Nat \ {0}
      BY <2>1, EmptySeq DEF PopItem, AllInv, QueueInv, ItemsInv
    <3>2. items' = SubSeq(items, 1 + 1, Len(items))
      BY <2>1, <3>1, TailIsSubSeq DEF PopItem
    <3> DEFINE b == SubSeq(items, 1, 1)
    <3>3. Range(b) = {Head(items)}
      <4>1. b \in Seq(Nat) /\ Len(b) = 1 /\ b[1] = items[1]
        BY <3>1, SubSeqProperties
      <4>2. Head(items) = items[1]
        BY <3>1
      <4> HIDE DEF b
      <4>3. DOMAIN b = {1}
        BY <4>1, LenProperties
      <4> QED  BY <4>1, <4>2, <4>3 DEF Range
    <3>4. 1 \in 0..Len(items)
      BY <3>1
    <3> QED  BY <2>1, <3>2, <3>3, <3>4 DEF PopItem
  <2>2. CASE PopBatch(t)
    <3>1. BatchLen \in 0..Len(items)
      BY <2>2, BatchLength DEF PopBatch, AllInv, QueueInv
    <3> QED  BY <2>2, <3>1 DEF PopBatch, Batch
  <2> QED  BY <2>1, <2>2
<1> DEFINE S == Range(SubSeq(items, 1, n))
<1>2. UNCHANGED <<closed, accepted>>
  BY DEF PopItem, PopBatch, Enters
<1>3. /\ S \in SUBSET Range(items) /\ Range(items') = Range(items) \ S
      /\ \A s \in S, p \in Range(items) \ S : s < p
  BY <1>1, <1>2, OldestItems
<1> HIDE DEF S
<1>4. CASE taken' = taken \cup S /\ UNCHANGED gone
  <2>1. Fifo!Deliver(S)
    BY <1>2, <1>3, <1>4 DEF Fifo!Deliver
  <2> QED  BY <1>3, <2>1 DEF Fifo!Next
<1>5. CASE gone' = gone \cup S /\ UNCHANGED taken
  <2>1. Fifo!Lose(S)
    BY <1>2, <1>3, <1>5 DEF Fifo!Lose
  <2> QED  BY <1>3, <2>1 DEF Fifo!Next
<1> QED  BY <1>1, <1>4, <1>5 DEF S

\* The queue implements a lossy FIFO queue, as the ingestion buffer does: it delivers in
\* the order of Push, whatever the goroutines do to each other.
THEOREM QueueImplementsLossyFifo == Spec => ImplementsLossyFifo
<1>1. Init => Fifo!Init
  BY DEF Init, Fifo!Init, Range
<1>2. AllInv /\ [Next]_vars => [Fifo!Next]_(Fifo!vars)
  <2> SUFFICES ASSUME AllInv, [Next]_vars PROVE [Fifo!Next]_(Fifo!vars)
    OBVIOUS
  <2>1. CASE Clear
    <3>1. Range(items') = {}
      BY <2>1 DEF Clear, Range
    <3>2. Fifo!Lose(Range(items))
      BY <2>1, <3>1 DEF Clear, Fifo!Lose
    <3> QED  BY <3>2 DEF Fifo!Next
  <2>2. CASE Close
    <3>1. Fifo!Shut
      BY <2>2 DEF Close, Fifo!Shut
    <3> QED  BY <3>1 DEF Fifo!Next
  <2>3. CASE UNCHANGED <<items, closed, accepted, taken, gone>>
    BY <2>3 DEF Fifo!vars
  <2> QED
    BY <2>1, <2>2, <2>3, PushRefines, PopRefines
       DEF Next, Section, Call, GiveUp, PushWaits, PushFails, PopWaits, PopFails, Fails, Enters, vars
<1> QED  BY <1>1, <1>2, AllInvariant, PTL DEF Spec, ImplementsLossyFifo, Fifo!Spec

-----------------------------------------------------------------------------
(* The rate limiter. *)

\* What a key may still get by the ideal bucket, with what its strays took and what it
\* was forgiven.
Ahead(k) == credit[k] + Minute * (strays[k] + forgiven[k])

\* What the bucket b holds, in shares of a token, less the share that may have come in
\* while it was full.
Worth(b) == Minute * tokens[b] + RequestsPerMin * age[b] - (Minute - 1)

\* No two keys have one bucket, and a request that uses the bucket of a key is one of
\* that key: only a removed bucket is used by strays.
OwnBuckets ==
  /\ \A k, l \in Keys : buckets[k] = buckets[l] /\ buckets[k] # None => k = l
  /\ \A r \in Requests, k \in Keys : held[r] = buckets[k] /\ held[r] # None => key[r] = k

\* A bucket is never worth more than the ideal one, and a key without a bucket could
\* have a full one.
NotAhead ==
  \A k \in Keys :
    /\ buckets[k] = None => Ahead(k) >= Burst * Minute - (Minute - 1)
    /\ \A b \in Buckets :
         buckets[k] = b => Ahead(k) >= Burst * Minute \/ Ahead(k) >= Worth(b)

LimiterTypes ==
  /\ buckets \in [Keys -> Buckets \cup {None}]
  /\ tokens \in [Buckets -> 0..Burst]
  /\ age \in [Buckets -> Nat]
  /\ key \in [Requests -> Keys]
  /\ held \in [Requests -> Buckets \cup {None}]
  /\ credit \in [Keys -> Int]
  /\ strays \in [Keys -> Nat]
  /\ forgiven \in [Keys -> Nat]
  /\ \A k \in Keys : credit[k] <= Burst * Minute

LimiterInv == LimiterTypes /\ OwnBuckets /\ NotAhead

\* Products by the numbers of the configuration.
LEMMA LimiterNumbers ==
  /\ Burst \in Nat \ {0} /\ RequestsPerMin \in Nat /\ Minute \in Nat \ {0}
  /\ Burst * Minute \in Nat
  /\ \A n \in Int : Minute * n \in Int /\ RequestsPerMin * n \in Int
  /\ OldAge \in Nat
<1>1. Burst \in Nat \ {0} /\ RequestsPerMin \in Nat /\ Minute \in Nat \ {0}
  BY RateLimiterAssumption
<1> QED  BY <1>1 DEF OldAge, Larger

\* The whole shares of m in n.
LEMMA WholeShares ==
  ASSUME NEW n \in Nat, NEW m \in Nat \ {0}
  PROVE  n \div m \in Nat /\ m * (n \div m) <= n /\ n < m * (n \div m) + m
OBVIOUS

LEMMA Shares ==
  ASSUME NEW m \in Nat \ {0}, NEW a \in Int, NEW b \in Int
  PROVE  /\ m * a \in Int /\ m * b \in Int
         /\ m * (a + b) = m * a + m * b
         /\ m * (a - b) = m * a - m * b
         /\ a <= b => m * a <= m * b
         /\ m * 1 = m
OBVIOUS

LEMMA Products ==
  ASSUME NEW m \in Nat, NEW a \in Int, NEW b \in Int
  PROVE  m * a \in Int /\ m * b \in Int /\ m * (a + b) = m * a + m * b
OBVIOUS

LEMMA Monotone ==
  ASSUME NEW m \in Nat, NEW a \in Int, NEW b \in Int, a <= b
  PROVE  m * a <= m * b
OBVIOUS

\* There is a bucket that nobody has, for a request that has none.
LEMMA FreshIsNew ==
  ASSUME LimiterTypes, NEW r \in Requests, held[r] = None
  PROVE  Fresh \in Buckets /\ Fresh \notin InUse /\ Fresh # None
<1> DEFINE n == Cardinality(Keys) + Cardinality(Requests)
           A == {buckets[k] : k \in Keys}
           B == {held[q] : q \in Requests}
<1>1. IsFiniteSet(Keys) /\ IsFiniteSet(Requests)
  BY RateLimiterAssumption
<1>2. Cardinality(Keys) \in Nat /\ Cardinality(Requests) \in Nat /\ n \in Nat
  BY <1>1, FS_CardinalityType
<1>3. IsFiniteSet(A) /\ Cardinality(A) <= Cardinality(Keys) /\ Cardinality(A) \in Nat
  <2>1. buckets \in Surjection(Keys, A)
    BY DEF LimiterTypes, Surjection
  <2> HIDE DEF A
  <2> QED  BY <1>1, <2>1, FS_Surjection, FS_CardinalityType
<1>4. IsFiniteSet(B) /\ Cardinality(B) <= Cardinality(Requests) /\ Cardinality(B) \in Nat
  <2>1. held \in Surjection(Requests, B)
    BY DEF LimiterTypes, Surjection
  <2> HIDE DEF B
  <2> QED  BY <1>1, <2>1, FS_Surjection, FS_CardinalityType
<1>5. /\ IsFiniteSet(InUse) /\ Cardinality(InUse) \in Nat /\ Cardinality(InUse) <= n
  <2>1. InUse = A \cup B
    BY DEF InUse
  <2> HIDE DEF A, B
  <2>2. /\ IsFiniteSet(A \cup B) /\ Cardinality(A \cup B) \in Nat
        /\ Cardinality(A \cup B) = Cardinality(A) + Cardinality(B) - Cardinality(A \cap B)
    BY <1>3, <1>4, FS_Union, FS_CardinalityType
  <2>3. Cardinality(A \cap B) \in Nat
    BY <1>3, FS_Intersection, FS_CardinalityType
  <2> QED  BY <1>2, <1>3, <1>4, <2>1, <2>2, <2>3
<1>6. 0..n \ InUse # {}
  <2>1. IsFiniteSet(0..n) /\ Cardinality(0..n) = n + 1
    BY <1>2, FS_Interval
  <2> HIDE DEF n
  <2>2. ~(0..n \subseteq InUse)
    <3> SUFFICES ASSUME 0..n \subseteq InUse PROVE FALSE
      OBVIOUS
    <3>1. Cardinality(0..n) <= Cardinality(InUse)
      BY <1>5, FS_Subset
    <3> QED  BY <1>2, <1>5, <2>1, <3>1
  <2> QED  BY <2>2
<1>7. None \in InUse
  BY DEF InUse
<1>8. Buckets \ InUse # {}
  BY <1>2, <1>6, <1>7 DEF Buckets, None
<1> HIDE DEF n
<1>9. \E b \in Buckets \ InUse : \A c \in Buckets \ InUse : b <= c
  <2> DEFINE S == Buckets \ InUse
             R == OpToRel(<,Nat)
  <2>1. S \subseteq Nat /\ S # {}
    BY <1>8, <1>2 DEF Buckets
  <2>2. IsWellFoundedOn(R, Nat)
    BY NatLessThanWellFounded
  <2>3. PICK b \in S : \A c \in S : ~(<<c, b>> \in R)
    <3> HIDE DEF S, R
    <3> QED  BY <2>1, <2>2, WFMin
  <2>4. \A c \in S : ~(c < b)
    BY <2>1, <2>3 DEF OpToRel
  <2> HIDE DEF S
  <2>5. \A c \in S : b <= c
    BY <2>1, <2>4
  <2> QED  BY <2>5 DEF S
<1>10. Fresh \in Buckets \ InUse
  BY <1>9 DEF Fresh
<1> QED  BY <1>7, <1>10

\* A request that is let through by the bucket of its key costs the ideal bucket a
\* token, and leaves the bucket no better than the ideal one.
LEMMA UseOfBucket ==
  ASSUME LimiterTypes, NEW b \in Buckets, Refilled(b) > 0, Refill(b, 1),
         NEW A \in Int, A >= Burst * Minute \/ A >= Worth(b)
  PROVE  A - Minute >= Worth(b)'
<1> DEFINE t == tokens[b]
           a == age[b]
           f == TokensToAdd(b)
           m == Minute
           q == RequestsPerMin
           w == q * a
<1>1. /\ t \in Nat /\ t <= Burst /\ a \in Nat
      /\ Burst \in Nat \ {0} /\ q \in Nat /\ m \in Nat \ {0}
  BY LimiterNumbers DEF LimiterTypes
<1>2. w \in Nat /\ a * q = w
  BY <1>1
<1>3. f \in Nat /\ m * f <= w /\ w < m * f + m
  <2>1. f = w \div m
    BY <1>2 DEF TokensToAdd
  <2> HIDE DEF f, w, m
  <2> QED  BY <1>1, <1>2, <2>1, WholeShares
<1>4. Refilled(b) = (IF Burst < t + f THEN Burst ELSE t + f)
  BY DEF Refilled, Smaller
<1>5. tokens'[b] = Refilled(b) - 1 /\ age'[b] = IF f > 0 THEN 0 ELSE a
  BY DEF Refill, LimiterTypes
<1>6. Worth(b) = m * t + w - (m - 1)
  BY DEF Worth
<1>7. Worth(b)' = m * tokens'[b] + q * age'[b] - (m - 1)
  BY DEF Worth
<1> HIDE DEF t, a, f, w
<1>8. m * Burst = Burst * m /\ q * 0 = 0
  BY <1>1
<1>9. CASE f > 0
  <2> DEFINE u == Refilled(b)
  <2>1. u \in Int /\ u <= Burst /\ u <= t + f
    BY <1>1, <1>3, <1>4
  <2>2. tokens'[b] = u - 1 /\ age'[b] = 0
    BY <1>5, <1>9
  <2> HIDE DEF u
  <2>3. m * (u - 1) = m * u - m /\ m * u \in Int /\ m * u <= m * Burst /\ m * Burst \in Int
    <3>1. m * 1 = m
      BY <1>1
    <3> HIDE DEF m
    <3> QED  BY <1>1, <2>1, <3>1, Shares
  <2>4. m * u <= m * (t + f) /\ m * (t + f) = m * t + m * f /\ m * t \in Int /\ m * f \in Int
    <3> HIDE DEF m
    <3>1. t + f \in Int
      BY <1>1, <1>3
    <3> QED  BY <1>1, <1>3, <2>1, <3>1, Shares
  <2>5. Worth(b)' = m * u - m - (m - 1)
    BY <1>1, <1>7, <1>8, <2>2, <2>3
  <2> HIDE DEF m
  <2>6. CASE A >= Burst * Minute
    BY <1>1, <1>8, <2>3, <2>5, <2>6 DEF m
  <2>7. CASE A >= Worth(b)
    BY <1>1, <1>2, <1>3, <1>6, <2>3, <2>4, <2>5, <2>7 DEF m
  <2> QED  BY <2>6, <2>7
<1>10. CASE f = 0
  <2>1. tokens'[b] = t - 1 /\ age'[b] = a
    BY <1>1, <1>4, <1>5, <1>10
  <2>2. m * (t - 1) = m * t - m /\ m * t \in Int /\ m * t <= m * Burst /\ m * Burst \in Int
    <3>1. m * 1 = m
      BY <1>1
    <3> HIDE DEF m
    <3> QED  BY <1>1, <3>1, Shares
  <2>3. Worth(b)' = m * t - m + w - (m - 1)
    BY <1>1, <1>2, <1>7, <2>1, <2>2 DEF w
  <2>4. w < m
    BY <1>1, <1>2, <1>3, <1>10
  <2> HIDE DEF m
  <2> QED  BY <1>1, <1>2, <1>6, <1>8, <2>2, <2>3, <2>4 DEF m
<1> QED  BY <1>3, <1>9, <1>10

\* A request that is refused changes nothing in its bucket.
LEMMA RefusalOfBucket ==
  ASSUME LimiterTypes, NEW b \in Buckets, Refilled(b) = 0, Refill(b, 0)
  PROVE  tokens' = tokens /\ age' = age
<1> DEFINE t == tokens[b]
           f == TokensToAdd(b)
<1>1. t \in Nat /\ Burst \in Nat \ {0}
  BY LimiterNumbers DEF LimiterTypes
<1>2. f \in Nat
  <2>1. age[b] * RequestsPerMin \in Nat /\ Minute \in Nat \ {0}
    BY LimiterNumbers DEF LimiterTypes
  <2> QED  BY <2>1, WholeShares DEF TokensToAdd
<1>3. Refilled(b) = (IF Burst < t + f THEN Burst ELSE t + f)
  BY DEF Refilled, Smaller
<1>4. /\ tokens' = [tokens EXCEPT ![b] = Refilled(b) - 0]
      /\ age' = [age EXCEPT ![b] = IF f > 0 THEN 0 ELSE age[b]]
  BY DEF Refill
<1> HIDE DEF f
<1>5. t = 0 /\ f = 0
  BY <1>1, <1>2, <1>3
<1> QED  BY <1>4, <1>5 DEF LimiterTypes

LEMMA LimiterInvInit == LimiterInit => LimiterInv
<1> SUFFICES ASSUME LimiterInit PROVE LimiterInv
  OBVIOUS
<1>1. /\ Burst \in Nat \ {0} /\ Minute \in Nat \ {0} /\ Burst * Minute \in Nat
      /\ None \notin Buckets
  BY LimiterNumbers DEF Buckets, None
<1>2. LimiterTypes
  BY <1>1 DEF LimiterInit, LimiterTypes
<1>3. OwnBuckets
  BY <1>1 DEF LimiterInit, OwnBuckets
<1>4. NotAhead
  <2> SUFFICES ASSUME NEW k \in Keys PROVE Ahead(k) >= Burst * Minute - (Minute - 1)
    BY <1>1 DEF NotAhead, LimiterInit
  <2>1. credit[k] = Burst * Minute /\ strays[k] + forgiven[k] = 0 /\ Minute * 0 = 0
    BY <1>1 DEF LimiterInit
  <2> QED  BY <1>1, <2>1 DEF Ahead
<1> QED  BY <1>2, <1>3, <1>4 DEF LimiterInv

\* What a key is ahead by is a number.
LEMMA AheadType ==
  ASSUME LimiterTypes, NEW k \in Keys
  PROVE  Ahead(k) \in Int /\ Minute * (strays[k] + forgiven[k]) \in Nat
<1>1. Minute \in Nat /\ strays[k] + forgiven[k] \in Nat /\ credit[k] \in Int
  BY LimiterNumbers DEF LimiterTypes
<1>2. Minute * (strays[k] + forgiven[k]) \in Nat
  BY <1>1
<1> QED  BY <1>1, <1>2 DEF Ahead

LEMMA WorthType ==
  ASSUME LimiterTypes, NEW b \in Buckets
  PROVE  Worth(b) \in Int
<1>1. Minute * tokens[b] \in Int /\ RequestsPerMin * age[b] \in Int /\ Minute \in Int
  BY LimiterNumbers DEF LimiterTypes
<1> QED  BY <1>1 DEF Worth

\* A bucket that is found, or made for a key that could have a full one.
LEMMA LimiterFinds ==
  ASSUME LimiterInv, NEW r \in Requests, NEW k \in Keys, FindBucket(r, k)
  PROVE  LimiterInv'
<1>1. /\ LimiterTypes /\ OwnBuckets /\ NotAhead /\ held[r] = None
      /\ key' = [key EXCEPT ![r] = k] /\ UNCHANGED <<credit, strays, forgiven>>
  BY DEF LimiterInv, FindBucket
<1>2. \A l \in Keys : Ahead(l)' = Ahead(l)
  BY <1>1 DEF Ahead
<1>3. CASE buckets[k] # None
  <2>1. held' = [held EXCEPT ![r] = buckets[k]] /\ UNCHANGED <<buckets, tokens, age>>
    BY <1>3 DEF FindBucket
  <2>2. LimiterTypes'
    BY <1>1, <2>1 DEF LimiterTypes
  <2>3. OwnBuckets'
    BY <1>1, <1>3, <2>1 DEF OwnBuckets, LimiterTypes
  <2>4. NotAhead'
    BY <1>1, <1>2, <2>1 DEF NotAhead, Worth
  <2> QED  BY <2>2, <2>3, <2>4 DEF LimiterInv
<1>4. CASE buckets[k] = None
  <2>0. PICK b : b = Fresh
    OBVIOUS
  <2>1. /\ held' = [held EXCEPT ![r] = b] /\ buckets' = [buckets EXCEPT ![k] = b]
        /\ tokens' = [tokens EXCEPT ![b] = Burst] /\ age' = [age EXCEPT ![b] = 0]
    BY <1>4, <2>0 DEF FindBucket
  <2>2. b \in Buckets /\ b \notin InUse /\ b # None
    BY <1>1, <2>0, FreshIsNew
  <2>3. \A l \in Keys : buckets[l] # b
    BY <2>2 DEF InUse
  <2>4. \A q \in Requests : held[q] # b
    BY <2>2 DEF InUse
  <2>5. Burst \in 0..Burst /\ Burst \in Nat /\ Minute \in Nat \ {0} /\ Burst * Minute \in Nat
    BY LimiterNumbers
  <2>6. LimiterTypes'
    BY <1>1, <2>1, <2>2, <2>5 DEF LimiterTypes
  <2>7. OwnBuckets'
    BY <1>1, <2>1, <2>2, <2>3, <2>4 DEF OwnBuckets, LimiterTypes
  <2>8. Worth(b)' = Burst * Minute - (Minute - 1)
    <3>1. tokens'[b] = Burst /\ age'[b] = 0
      BY <1>1, <2>1, <2>2 DEF LimiterTypes
    <3>2. RequestsPerMin * 0 = 0 /\ Minute * Burst = Burst * Minute
      BY LimiterNumbers
    <3> QED  BY <2>5, <3>1, <3>2 DEF Worth
  <2>9. \A c \in Buckets : c # b => Worth(c)' = Worth(c)
    BY <1>1, <2>1 DEF Worth, LimiterTypes
  <2>10. ASSUME NEW l \in Keys
         PROVE  /\ buckets'[l] = None => Ahead(l) >= Burst * Minute - (Minute - 1)
                /\ \A c \in Buckets : buckets'[l] = c =>
                     Ahead(l) >= Burst * Minute \/ Ahead(l) >= Worth(c)'
    <3>1. CASE l = k
      <4>1. buckets'[l] = b /\ Ahead(l) >= Burst * Minute - (Minute - 1)
        BY <1>1, <1>4, <2>1, <3>1 DEF NotAhead, LimiterTypes
      <4> QED  BY <2>2, <2>8, <4>1
    <3>2. CASE l # k
      <4>1. buckets'[l] = buckets[l]
        BY <1>1, <2>1, <3>2 DEF LimiterTypes
      <4>2. \A c \in Buckets : buckets[l] = c => Worth(c)' = Worth(c)
        BY <2>3, <2>9
      <4> QED  BY <1>1, <4>1, <4>2 DEF NotAhead
    <3> QED  BY <3>1, <3>2
  <2>11. NotAhead'
    BY <1>2, <2>10 DEF NotAhead
  <2> QED  BY <2>6, <2>7, <2>11 DEF LimiterInv
<1> QED  BY <1>3, <1>4

\* A request that gets through pays with the ideal bucket's token, or is a stray.
LEMMA LimiterAllows ==
  ASSUME LimiterInv, NEW r \in Requests, Allowed(r)
  PROVE  LimiterInv'
<1>0. PICK b, k : b = held[r] /\ k = key[r]
  OBVIOUS
<1>1. /\ LimiterTypes /\ OwnBuckets /\ NotAhead
      /\ b \in Buckets /\ b # None /\ k \in Keys
      /\ Refilled(b) > 0 /\ Refill(b, 1)
      /\ credit' = [credit EXCEPT ![k] = credit[k] - Minute]
      /\ strays' = [strays EXCEPT ![k] = IF buckets[k] = b THEN strays[k] ELSE strays[k] + 1]
      /\ held' = [held EXCEPT ![r] = None] /\ UNCHANGED <<buckets, key, forgiven>>
  BY <1>0 DEF Allowed, LimiterInv, LimiterTypes
<1>2. /\ Minute \in Nat \ {0} /\ Burst \in Nat \ {0} /\ RequestsPerMin \in Nat
      /\ Burst * Minute \in Nat
  BY LimiterNumbers
<1>3. LimiterTypes'
  <2> DEFINE f == TokensToAdd(b)
  <2>1. f \in Nat
    <3>1. age[b] * RequestsPerMin \in Nat
      BY <1>1, <1>2 DEF LimiterTypes
    <3> QED  BY <1>2, <3>1, WholeShares DEF TokensToAdd
  <2>2. Refilled(b) = IF Burst < tokens[b] + f THEN Burst ELSE tokens[b] + f
    BY DEF Refilled, Smaller
  <2> HIDE DEF f
  <2>3. tokens[b] \in 0..Burst
    BY <1>1 DEF LimiterTypes
  <2>4. Refilled(b) - 1 \in 0..Burst
    BY <1>1, <1>2, <2>1, <2>2, <2>3
  <2>5. tokens' \in [Buckets -> 0..Burst] /\ age' \in [Buckets -> Nat]
    BY <1>1, <2>4 DEF Refill, LimiterTypes
  <2>6. /\ credit' \in [Keys -> Int] /\ strays' \in [Keys -> Nat]
        /\ \A l \in Keys : credit'[l] <= Burst * Minute
    BY <1>1, <1>2 DEF LimiterTypes
  <2> QED  BY <1>1, <2>5, <2>6 DEF LimiterTypes
<1>4. OwnBuckets'
  BY <1>1 DEF OwnBuckets, LimiterTypes
<1>5. \A c \in Buckets : c # b => Worth(c)' = Worth(c)
  BY <1>1 DEF Refill, Worth, LimiterTypes
<1>6. \A l \in Keys : l # k => Ahead(l)' = Ahead(l)
  BY <1>1 DEF Ahead, LimiterTypes
<1>7. \A l \in Keys : l # k => buckets[l] # b
  BY <1>0, <1>1 DEF OwnBuckets
<1>8. ASSUME NEW l \in Keys, l # k
      PROVE  /\ buckets[l] = None => Ahead(l)' >= Burst * Minute - (Minute - 1)
             /\ \A c \in Buckets : buckets[l] = c =>
                  Ahead(l)' >= Burst * Minute \/ Ahead(l)' >= Worth(c)'
  BY <1>1, <1>5, <1>6, <1>7, <1>8 DEF NotAhead
<1>9. CASE buckets[k] = b
  <2>1. Ahead(k)' = Ahead(k) - Minute /\ Ahead(k) \in Int
    <3>1. credit'[k] = credit[k] - Minute /\ strays'[k] = strays[k] /\ credit[k] \in Int
      BY <1>1, <1>9 DEF LimiterTypes
    <3> QED  BY <1>1, <1>2, <3>1, AheadType DEF Ahead
  <2>2. Ahead(k) >= Burst * Minute \/ Ahead(k) >= Worth(b)
    BY <1>1, <1>9 DEF NotAhead
  <2>3. Ahead(k) - Minute >= Worth(b)'
    BY <1>1, <2>1, <2>2, UseOfBucket
  <2>4. NotAhead'
    <3> SUFFICES ASSUME NEW l \in Keys
                 PROVE  /\ buckets[l] = None => Ahead(l)' >= Burst * Minute - (Minute - 1)
                        /\ \A c \in Buckets : buckets[l] = c =>
                             Ahead(l)' >= Burst * Minute \/ Ahead(l)' >= Worth(c)'
      BY <1>1 DEF NotAhead
    <3> QED  BY <1>1, <1>8, <1>9, <2>1, <2>3
  <2> QED  BY <1>3, <1>4, <2>4 DEF LimiterInv
<1>10. CASE buckets[k] # b
  <2>1. Ahead(k)' = Ahead(k)
    <3>1. /\ credit'[k] = credit[k] - Minute /\ strays'[k] = strays[k] + 1
          /\ credit[k] \in Int /\ strays[k] \in Nat /\ forgiven[k] \in Nat
          /\ forgiven'[k] = forgiven[k]
      BY <1>1, <1>10 DEF LimiterTypes
    <3> DEFINE s == strays[k] + forgiven[k]
    <3>2. Minute * (s + 1) = Minute * s + Minute /\ Minute * s \in Int
      <4>1. s \in Int /\ 1 \in Int /\ Minute * 1 = Minute
        BY <1>2, <3>1
      <4> HIDE DEF s
      <4> QED  BY <1>2, <4>1, Shares
    <3>3. Ahead(k)' = credit'[k] + Minute * (s + 1) /\ Ahead(k) = credit[k] + Minute * s
      <4>1. strays'[k] + forgiven'[k] = s + 1
        BY <3>1
      <4> HIDE DEF s
      <4>2. Ahead(k)' = credit'[k] + Minute * (strays'[k] + forgiven'[k])
        BY DEF Ahead
      <4> QED  BY <4>1, <4>2 DEF Ahead, s
    <3> HIDE DEF s
    <3> QED  BY <1>2, <3>1, <3>2, <3>3
  <2>2. \A c \in Buckets : buckets[k] = c => Worth(c)' = Worth(c)
    BY <1>5, <1>10
  <2>3. NotAhead'
    <3> SUFFICES ASSUME NEW l \in Keys
                 PROVE  /\ buckets[l] = None => Ahead(l)' >= Burst * Minute - (Minute - 1)
                        /\ \A c \in Buckets : buckets[l] = c =>
                             Ahead(l)' >= Burst * Minute \/ Ahead(l)' >= Worth(c)'
      BY <1>1 DEF NotAhead
    <3>1. CASE l = k
      BY <1>1, <2>1, <2>2, <3>1 DEF NotAhead
    <3>2. CASE l # k
      BY <1>8, <3>2
    <3> QED  BY <3>1, <3>2
  <2> QED  BY <1>3, <1>4, <2>3 DEF LimiterInv
<1> QED  BY <1>9, <1>10

LEMMA LimiterRefuses ==
  ASSUME LimiterInv, NEW r \in Requests, Refused(r)
  PROVE  LimiterInv'
<1>1. /\ LimiterTypes /\ OwnBuckets /\ NotAhead
      /\ held[r] \in Buckets /\ Refilled(held[r]) = 0 /\ Refill(held[r], 0)
      /\ held' = [held EXCEPT ![r] = None] /\ UNCHANGED <<buckets, key, credit, strays, forgiven>>
  BY DEF Refused, LimiterInv, LimiterTypes
<1>2. tokens' = tokens /\ age' = age
  BY <1>1, RefusalOfBucket
<1>3. LimiterTypes'
  BY <1>1, <1>2 DEF LimiterTypes
<1>4. OwnBuckets'
  BY <1>1 DEF OwnBuckets, LimiterTypes
<1>5. NotAhead'
  BY <1>1, <1>2 DEF NotAhead, Ahead, Worth
<1> QED  BY <1>3, <1>4, <1>5 DEF LimiterInv

\* A refill never fills a bucket above the burst, nor by more than what came in; one
\* that the cleanup removes has what five minutes bring.
LEMMA RefillBounds ==
  ASSUME LimiterTypes, NEW b \in Buckets
  PROVE  /\ Refilled(b) \in 0..Burst
         /\ Minute * Refilled(b) <= Minute * tokens[b] + RequestsPerMin * age[b]
         /\ Outdated(b) => Refilled(b) = Burst \/ Refilled(b) >= 5 * RequestsPerMin
<1> DEFINE m == Minute
           q == RequestsPerMin
           a == age[b]
           t == tokens[b]
           f == TokensToAdd(b)
           w == q * a
           u == Refilled(b)
<1>1. m \in Nat \ {0} /\ q \in Nat /\ Burst \in Nat /\ a \in Nat /\ t \in 0..Burst
  BY LimiterNumbers DEF LimiterTypes
<1>2. w \in Nat /\ a * q = w
  BY <1>1
<1>3. f \in Nat /\ m * f <= w /\ w < m * f + m
  <2>1. f = w \div m
    BY <1>2 DEF TokensToAdd
  <2> HIDE DEF f, w, m
  <2> QED  BY <1>1, <1>2, <2>1, WholeShares
<1>4. u = (IF Burst < t + f THEN Burst ELSE t + f)
  BY DEF Refilled, Smaller
<1>5. Outdated(b) => 5 * m <= a
  <2>1. Outdated(b) => a > 5 * m
    BY DEF Outdated
  <2> HIDE DEF a, m
  <2> QED  BY <1>1, <2>1
<1> HIDE DEF f, t, u, a
<1>6. u \in 0..Burst /\ u <= t + f
  BY <1>1, <1>3, <1>4
<1>7. m * u <= m * t + w
  <2> HIDE DEF m, w
  <2>1. t + f \in Int /\ u \in Int /\ t \in Int /\ f \in Int
    BY <1>1, <1>3, <1>6
  <2>2. m * u <= m * (t + f) /\ m * (t + f) = m * t + m * f /\ m * t \in Int /\ m * f \in Int
        /\ m * u \in Int
    BY <1>1, <1>6, <2>1, Shares
  <2> QED  BY <1>2, <1>3, <2>2
<1>8. ASSUME Outdated(b) PROVE f >= 5 * q
  <2> SUFFICES ASSUME f + 1 <= 5 * q PROVE FALSE
    BY <1>1, <1>3
  <2>1. q * (5 * m) <= w
    <3> DEFINE n == 5 * m
    <3>1. n \in Int /\ a \in Int /\ n <= a
      BY <1>1, <1>5, <1>8
    <3> HIDE DEF n, q
    <3>2. q * n <= q * a
      BY <1>1, <3>1, Monotone
    <3> QED  BY <3>2 DEF n, w
  <2>2. m * (f + 1) <= m * (5 * q) /\ m * (f + 1) = m * f + m * 1
    <3> DEFINE n == 5 * q
    <3>1. n \in Int /\ f \in Int /\ f + 1 \in Int /\ 1 \in Int /\ f + 1 <= n
      BY <1>1, <1>3
    <3> HIDE DEF n, m
    <3> QED  BY <1>1, <3>1, Shares
  <2>3. m * (5 * q) = q * (5 * m) /\ m * 1 = m /\ q * (5 * m) \in Int
    BY <1>1
  <2>4. m * f \in Int
    BY <1>1, <1>3
  <2> DEFINE x == q * (5 * m)
             y == m * f
             z == m * (f + 1)
  <2>5. x \in Int /\ y \in Int /\ x <= w /\ z <= x /\ z = y + m
    BY <2>1, <2>2, <2>3, <2>4
  <2>6. w < y + m
    BY <1>3
  <2> HIDE DEF x, y, z, w, m
  <2> QED  BY <1>1, <1>2, <2>5, <2>6
<1>9. Outdated(b) => u = Burst \/ u >= 5 * q
  <2> SUFFICES ASSUME Outdated(b), u # Burst PROVE u >= 5 * q
    OBVIOUS
  <2>1. u = t + f /\ f >= 5 * q /\ 5 * q \in Int
    BY <1>1, <1>4, <1>8
  <2> QED  BY <1>1, <1>3, <2>1
<1> QED  BY <1>6, <1>7, <1>9 DEF u, t, a

\* What a removal forgives makes up for what the removed bucket was not worth.
LEMMA ForgivenIsEnough ==
  ASSUME LimiterTypes, NEW b \in Buckets, Outdated(b)
  PROVE  Worth(b) + Minute * Unfilled >= Burst * Minute - (Minute - 1)
<1> DEFINE m == Minute
           v == Minute * tokens[b] + RequestsPerMin * age[b]
           u == Refilled(b)
           d == Unfilled
<1>1. m \in Nat \ {0} /\ Burst \in Nat /\ Burst * m \in Nat /\ u \in 0..Burst /\ m * u <= v /\ v \in Int
  <2>1. u \in 0..Burst /\ m * u <= v
    BY RefillBounds
  <2>2. Minute * tokens[b] \in Int /\ RequestsPerMin * age[b] \in Int
    BY LimiterNumbers DEF LimiterTypes
  <2> QED  BY <2>1, <2>2, LimiterNumbers
<1>2. Worth(b) = v - (m - 1)
  <2>1. Minute * tokens[b] \in Int /\ RequestsPerMin * age[b] \in Int /\ Minute \in Int
    BY LimiterNumbers DEF LimiterTypes
  <2> QED  BY <2>1 DEF Worth
<1>3. d \in Nat /\ Burst <= u + d
  <2>1. u = Burst \/ u >= 5 * RequestsPerMin
    BY RefillBounds
  <2> HIDE DEF u
  <2> QED  BY <1>1, <2>1, LimiterNumbers DEF Unfilled, Larger
<1> HIDE DEF m, v, u, d
<1>4. m * Burst <= m * (u + d) /\ m * (u + d) = m * u + m * d
      /\ m * u \in Int /\ m * d \in Int /\ m * Burst \in Int
  <2>1. u \in Int /\ d \in Int /\ Burst \in Int /\ u + d \in Int
    BY <1>1, <1>3
  <2> QED  BY <1>1, <1>3, <2>1, Shares
<1>5. m * Burst = Burst * m
  BY <1>1
<1>6. Worth(b) + m * d >= Burst * m - (m - 1)
  BY <1>1, <1>2, <1>4, <1>5
<1> QED  BY <1>6 DEF m, d

\* A key whose bucket is removed could have a full one: what is forgiven is no less than
\* what the bucket lacks.
LEMMA LimiterCleans ==
  ASSUME LimiterInv, Cleanup
  PROVE  LimiterInv'
<1>1. /\ LimiterTypes /\ OwnBuckets /\ NotAhead
      /\ buckets' = [k \in Keys |-> IF Removed(k) THEN None ELSE buckets[k]]
      /\ forgiven' = [k \in Keys |-> IF Removed(k)
                                     THEN forgiven[k] + Unfilled ELSE forgiven[k]]
      /\ UNCHANGED <<tokens, age, key, held, credit, strays>>
  BY DEF LimiterInv, Cleanup
<1>2. ASSUME NEW k \in Keys, Removed(k)
      PROVE  /\ buckets[k] \in Buckets /\ buckets'[k] = None
             /\ forgiven'[k] = forgiven[k] + Unfilled /\ forgiven[k] \in Nat
             /\ Unfilled \in Nat /\ Outdated(buckets[k])
  <2>1. buckets[k] \in Buckets /\ forgiven[k] \in Nat /\ Outdated(buckets[k])
    BY <1>1, <1>2 DEF LimiterTypes, Removed
  <2>2. Unfilled \in Nat
    BY LimiterNumbers DEF Unfilled, Larger
  <2> QED  BY <1>1, <1>2, <2>1, <2>2
<1>3. ASSUME NEW k \in Keys, ~Removed(k)
      PROVE  buckets'[k] = buckets[k] /\ forgiven'[k] = forgiven[k]
  BY <1>1, <1>3
<1>4. LimiterTypes'
  <2>1. \A k \in Keys : buckets'[k] \in Buckets \cup {None} /\ forgiven'[k] \in Nat
    <3> SUFFICES ASSUME NEW k \in Keys
                 PROVE  buckets'[k] \in Buckets \cup {None} /\ forgiven'[k] \in Nat
      OBVIOUS
    <3>1. CASE Removed(k)
      BY <1>2, <3>1
    <3>2. CASE ~Removed(k)
      BY <1>1, <1>3, <3>2 DEF LimiterTypes
    <3> QED  BY <3>1, <3>2
  <2>2. buckets' \in [Keys -> Buckets \cup {None}] /\ forgiven' \in [Keys -> Nat]
    BY <1>1, <2>1
  <2> QED  BY <1>1, <2>2 DEF LimiterTypes
<1>5. OwnBuckets'
  BY <1>1 DEF OwnBuckets
<1>6. \A b : Worth(b)' = Worth(b)
  BY <1>1 DEF Worth
<1>7. ASSUME NEW k \in Keys
      PROVE  /\ buckets'[k] = None => Ahead(k)' >= Burst * Minute - (Minute - 1)
             /\ \A b \in Buckets : buckets'[k] = b =>
                  Ahead(k)' >= Burst * Minute \/ Ahead(k)' >= Worth(b)
  <2>1. CASE Removed(k)
    <3> DEFINE b == buckets[k]
               s == strays[k] + forgiven[k]
               d == Unfilled
    <3>1. /\ b \in Buckets /\ buckets'[k] = None /\ d \in Nat /\ s \in Nat
          /\ strays'[k] + forgiven'[k] = s + d
      <4>1. strays[k] \in Nat /\ strays'[k] = strays[k]
        BY <1>1 DEF LimiterTypes
      <4> QED  BY <1>2, <2>1, <4>1
    <3>2. Worth(b) + Minute * d >= Burst * Minute - (Minute - 1) /\ Worth(b) \in Int
      BY <1>1, <1>2, <2>1, ForgivenIsEnough, WorthType
    <3>3. Ahead(k) >= Burst * Minute \/ Ahead(k) >= Worth(b)
      BY <1>1, <3>1 DEF NotAhead
    <3>4. Ahead(k)' = credit[k] + Minute * (s + d) /\ Ahead(k) = credit[k] + Minute * s
          /\ credit[k] \in Int /\ Ahead(k) \in Int
      <4>1. Ahead(k)' = credit'[k] + Minute * (strays'[k] + forgiven'[k])
        BY DEF Ahead
      <4>2. Ahead(k) = credit[k] + Minute * s
        BY DEF Ahead
      <4> HIDE DEF s, d
      <4> QED  BY <1>1, <3>1, <4>1, <4>2, AheadType DEF LimiterTypes
    <3> HIDE DEF b, s, d
    <3>5. Minute * (s + d) = Minute * s + Minute * d /\ Minute * s \in Int /\ Minute * d \in Nat
      <4>1. Minute \in Nat \ {0} /\ s \in Int /\ d \in Int
        BY <3>1, LimiterNumbers
      <4>2. Minute * d \in Nat
        BY <3>1, <4>1
      <4> QED  BY <4>1, <4>2, Shares
    <3>6. Ahead(k)' = Ahead(k) + Minute * d
      BY <3>4, <3>5
    <3>7. Ahead(k)' >= Burst * Minute - (Minute - 1)
      <4>1. Burst * Minute \in Int /\ Minute \in Nat \ {0}
        BY LimiterNumbers
      <4> QED  BY <3>2, <3>3, <3>4, <3>5, <3>6, <4>1
    <3>8. None \notin Buckets
      BY DEF None, Buckets
    <3> QED  BY <3>1, <3>7, <3>8
  <2>2. CASE ~Removed(k)
    <3>1. buckets'[k] = buckets[k] /\ Ahead(k)' = Ahead(k)
      BY <1>1, <1>3, <2>2 DEF Ahead
    <3> QED  BY <1>1, <3>1 DEF NotAhead
  <2> QED  BY <2>1, <2>2
<1>8. NotAhead'
  BY <1>6, <1>7 DEF NotAhead
<1> QED  BY <1>4, <1>5, <1>8 DEF LimiterInv

\* With time the ideal bucket fills as fast as any.
LEMMA LimiterTicks ==
  ASSUME LimiterInv, Tick
  PROVE  LimiterInv'
<1> DEFINE full == Burst * Minute
<1>1. /\ LimiterTypes /\ OwnBuckets /\ NotAhead
      /\ age' = [b \in Buckets |-> IF b \in InUse THEN Smaller(OldAge, age[b] + 1) ELSE age[b]]
      /\ credit' = [k \in Keys |-> Smaller(full, credit[k] + RequestsPerMin)]
      /\ strays' = [k \in Keys |-> IF credit'[k] = full THEN 0 ELSE strays[k]]
      /\ forgiven' = [k \in Keys |-> IF credit'[k] = full THEN 0 ELSE forgiven[k]]
      /\ UNCHANGED <<buckets, tokens, key, held>>
  BY DEF LimiterInv, Tick
<1>2. /\ RequestsPerMin \in Nat /\ Minute \in Nat \ {0} /\ full \in Nat /\ OldAge \in Nat
      /\ Burst \in Nat
  BY LimiterNumbers
<1> HIDE DEF full
<1>3. LimiterTypes'
  <2>1. age' \in [Buckets -> Nat]
    BY <1>1, <1>2 DEF LimiterTypes, Smaller
  <2>2. /\ credit' \in [Keys -> Int]
        /\ strays' \in [Keys -> Nat] /\ forgiven' \in [Keys -> Nat]
        /\ \A k \in Keys : credit'[k] <= full
    BY <1>1, <1>2 DEF LimiterTypes, Smaller
  <2> QED  BY <1>1, <2>1, <2>2 DEF LimiterTypes, full
<1>4. OwnBuckets'
  BY <1>1 DEF OwnBuckets
<1>5. ASSUME NEW k \in Keys, credit'[k] = full PROVE Ahead(k)' = full
  <2>1. strays'[k] + forgiven'[k] = 0 /\ Minute * 0 = 0
    BY <1>1, <1>2, <1>5
  <2> QED  BY <1>2, <1>5, <2>1 DEF Ahead
<1>6. ASSUME NEW k \in Keys, credit'[k] # full PROVE Ahead(k)' = Ahead(k) + RequestsPerMin
  <2>1. /\ credit'[k] = credit[k] + RequestsPerMin /\ credit[k] \in Int
        /\ strays'[k] = strays[k] /\ forgiven'[k] = forgiven[k]
    BY <1>1, <1>6 DEF LimiterTypes, Smaller
  <2> QED  BY <1>1, <1>2, <2>1, AheadType DEF Ahead
<1>7. ASSUME NEW b \in Buckets
      PROVE  Worth(b)' <= Worth(b) + RequestsPerMin /\ Worth(b) \in Int /\ Worth(b)' \in Int
  <2> DEFINE a == age[b]
             e == age'[b]
             q == RequestsPerMin
  <2>1. a \in Nat /\ e \in Nat /\ e <= a + 1
    BY <1>1, <1>2 DEF LimiterTypes, Smaller
  <2> HIDE DEF a, e
  <2>2. q * e <= q * (a + 1) /\ q * (a + 1) = q * a + q * 1 /\ q * e \in Int /\ q * a \in Int
    <3>1. q \in Nat /\ e \in Int /\ a + 1 \in Int /\ a \in Int /\ 1 \in Int
      BY <1>2, <2>1
    <3> HIDE DEF q
    <3> QED  BY <2>1, <3>1, Products, Monotone
  <2>3. Minute * tokens[b] \in Int /\ tokens'[b] = tokens[b] /\ q * 1 = q
    BY <1>1, <1>2 DEF LimiterTypes
  <2>4. /\ Worth(b) = Minute * tokens[b] + q * a - (Minute - 1)
        /\ Worth(b)' = Minute * tokens[b] + q * e - (Minute - 1)
    BY <2>3 DEF Worth, a, e
  <2> DEFINE v == Minute * tokens[b]
             x == q * a
             y == q * e
  <2>5. v \in Int /\ x \in Int /\ y \in Int /\ y <= x + q /\ q \in Int
        /\ Worth(b) = v + x - (Minute - 1) /\ Worth(b)' = v + y - (Minute - 1)
    BY <1>2, <2>2, <2>3, <2>4
  <2> HIDE DEF v, x, y, q
  <2>6. Worth(b)' <= Worth(b) + q /\ Worth(b) \in Int /\ Worth(b)' \in Int
    BY <1>2, <2>5
  <2> QED  BY <2>6 DEF q
<1>8. NotAhead'
  <2> SUFFICES ASSUME NEW k \in Keys
               PROVE  /\ buckets[k] = None => Ahead(k)' >= full - (Minute - 1)
                      /\ \A b \in Buckets :
                           buckets[k] = b => Ahead(k)' >= full \/ Ahead(k)' >= Worth(b)'
    BY <1>1 DEF NotAhead, full
  <2>1. CASE credit'[k] = full
    BY <1>2, <1>5, <2>1
  <2>2. CASE credit'[k] # full
    <3>1. Ahead(k)' = Ahead(k) + RequestsPerMin /\ Ahead(k) \in Int
      BY <1>1, <1>6, <2>2, AheadType
    <3>2. ASSUME buckets[k] = None PROVE Ahead(k)' >= full - (Minute - 1)
      <4>1. Ahead(k) >= full - (Minute - 1)
        BY <1>1, <3>2 DEF NotAhead, full
      <4> QED  BY <1>2, <3>1, <4>1
    <3>3. ASSUME NEW b \in Buckets, buckets[k] = b
          PROVE  Ahead(k)' >= full \/ Ahead(k)' >= Worth(b)'
      <4>1. Ahead(k) >= full \/ Ahead(k) >= Worth(b)
        BY <1>1, <3>3 DEF NotAhead, full
      <4> QED  BY <1>2, <1>7, <3>1, <4>1
    <3> QED  BY <3>2, <3>3
  <2> QED  BY <2>1, <2>2
<1> QED  BY <1>3, <1>4, <1>8 DEF LimiterInv

LEMMA LimiterInvStep == LimiterInv /\ [LimiterNext]_limiterVars => LimiterInv'
<1> SUFFICES ASSUME LimiterInv, [LimiterNext]_limiterVars PROVE LimiterInv'
  OBVIOUS
<1>1. ASSUME NEW r \in Requests, NEW k \in Keys, FindBucket(r, k) PROVE LimiterInv'
  BY <1>1, LimiterFinds
<1>2. ASSUME NEW r \in Requests, Use(r) PROVE LimiterInv'
  BY <1>2, LimiterAllows, LimiterRefuses DEF Use
<1>3. CASE Cleanup \/ Tick
  BY <1>3, LimiterCleans, LimiterTicks
<1>4. CASE Stop \/ UNCHANGED limiterVars
  <2>1. UNCHANGED <<buckets, tokens, age, key, held, credit, strays, forgiven>>
    BY <1>4 DEF Stop, limiterVars
  <2> QED  BY <2>1 DEF LimiterInv, LimiterTypes, OwnBuckets, NotAhead, Ahead, Worth
<1> QED  BY <1>1, <1>2, <1>3, <1>4 DEF LimiterNext

LEMMA LimiterInvIsEnough ==
  ASSUME LimiterInv
  PROVE  NeverMoreGenerous
<1> SUFFICES ASSUME NEW k \in Keys PROVE Ahead(k) > -Minute
  BY DEF NeverMoreGenerous, Ahead
<1>1. LimiterTypes /\ NotAhead
  BY DEF LimiterInv
<1>2. /\ Burst * Minute \in Nat /\ Minute \in Nat \ {0} /\ Ahead(k) \in Int
  BY <1>1, LimiterNumbers, AheadType
<1>3. CASE buckets[k] = None
  BY <1>1, <1>2, <1>3 DEF NotAhead
<1>4. CASE buckets[k] # None
  <2> DEFINE b == buckets[k]
             v == Minute * tokens[b]
             x == RequestsPerMin * age[b]
  <2>1. b \in Buckets /\ (Ahead(k) >= Burst * Minute \/ Ahead(k) >= Worth(b))
    BY <1>1, <1>4 DEF NotAhead, LimiterTypes
  <2> HIDE DEF b
  <2>2. v \in Nat /\ x \in Nat
    <3>1. tokens[b] \in Nat /\ age[b] \in Nat
      BY <1>1, <2>1 DEF LimiterTypes
    <3> QED  BY <3>1, LimiterNumbers
  <2>3. Worth(b) = v + x - (Minute - 1)
    BY DEF Worth
  <2> HIDE DEF v, x
  <2> QED  BY <1>2, <2>1, <2>2, <2>3
<1> QED  BY <1>3, <1>4

\* In no stretch of time does a key get a whole request more through than burst and rate
\* allow, but for its strays and, for each removal of its bucket, the part of the burst
\* that five minutes do not bring in: for any number of keys and requests, any rate and any
\* burst.
THEOREM NeverMoreGenerousHolds == LimiterSpec => []NeverMoreGenerous
BY LimiterInvInit, LimiterInvStep, LimiterInvIsEnough, PTL DEF LimiterSpec
=============================================================================
