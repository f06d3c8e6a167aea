---------------------------- MODULE Dedup_proofs ----------------------------
(***************************************************************************)
(* Proofs about the deduplication engine (module Dedup), for any messages,  *)
(* context, expiry time and limits, from the lemmas about the template      *)
(* miner in Profiles_proofs.                                                *)
(***************************************************************************)
EXTENDS Dedup, Profiles_proofs

-----------------------------------------------------------------------------
(* The context window. *)

\* The last n elements of a sequence.
LEMMA LastOfProperties ==
  ASSUME NEW S, NEW s \in Seq(S), NEW n \in Nat
  PROVE  /\ LastOf(n, s) \in Seq(S)
         /\ Len(LastOf(n, s)) = IF Len(s) <= n THEN Len(s) ELSE n
         /\ \A i \in 1..Len(LastOf(n, s)) :
              LastOf(n, s)[i] = s[Len(s) - Len(LastOf(n, s)) + i]
<1>1. Len(s) \in Nat /\ \A i \in 1..Len(s) : s[i] \in S
  BY LenProperties, ElementOfSeq
<1>2. CASE Len(s) <= n
  BY <1>1, <1>2 DEF LastOf
<1>3. CASE Len(s) > n
  <2> DEFINE m == Len(s) - n + 1
  <2>1. m \in Int /\ Len(s) \in Int /\ m > 1 /\ Len(s) - m + 1 = n
    BY <1>1, <1>3
  <2>2. LastOf(n, s) = SubSeq(s, m, Len(s))
    BY <1>1, <1>3 DEF LastOf
  <2>3. \A i \in m..Len(s) : s[i] \in S
    BY <1>1, <2>1
  <2> HIDE DEF m
  <2>4. /\ SubSeq(s, m, Len(s)) \in Seq(S)
        /\ Len(SubSeq(s, m, Len(s))) = IF m <= Len(s) THEN Len(s) - m + 1 ELSE 0
        /\ \A i \in 1..Len(s) - m + 1 : SubSeq(s, m, Len(s))[i] = s[m + i - 1]
    BY <2>1, <2>3, SubSeqProperties
  <2>5. Len(LastOf(n, s)) = n
    BY <1>3, <2>1, <2>2, <2>4
  <2>6. ASSUME NEW i \in 1..n PROVE LastOf(n, s)[i] = s[Len(s) - n + i]
    <3>1. m + i - 1 = Len(s) - n + i
      BY <1>1, <2>1
    <3> QED  BY <2>1, <2>2, <2>4, <3>1
  <2>7. LastOf(n, s) \in Seq(S)
    BY <2>2, <2>4
  <2>8. n = IF Len(s) <= n THEN Len(s) ELSE n
    BY <1>1, <1>3
  <2> QED  BY <2>5, <2>6, <2>7, <2>8
<1>4. Len(s) <= n \/ Len(s) > n
  BY <1>1
<1> QED  BY <1>2, <1>3, <1>4

\* The window is long enough for the context that is taken from it.
LEMMA LastOfLast ==
  ASSUME NEW S, NEW s \in Seq(S), NEW n \in Nat, NEW k \in Nat, k <= n
  PROVE  LastOf(k, LastOf(n, s)) = LastOf(k, s)
<1> DEFINE w == LastOf(n, s)
           a == LastOf(k, w)
           b == LastOf(k, s)
<1>1. /\ Len(s) \in Nat
      /\ w \in Seq(S) /\ Len(w) = IF Len(s) <= n THEN Len(s) ELSE n
      /\ \A i \in 1..Len(w) : w[i] = s[Len(s) - Len(w) + i]
  BY LastOfProperties, LenProperties
<1>2. /\ b \in Seq(S) /\ Len(b) = IF Len(s) <= k THEN Len(s) ELSE k
      /\ \A i \in 1..Len(b) : b[i] = s[Len(s) - Len(b) + i]
  BY LastOfProperties
<1> HIDE DEF w, b
<1>3. /\ a \in Seq(S) /\ Len(a) = IF Len(w) <= k THEN Len(w) ELSE k
      /\ \A i \in 1..Len(a) : a[i] = w[Len(w) - Len(a) + i]
  BY <1>1, LastOfProperties
<1> HIDE DEF a
<1>4. Len(a) = Len(b) /\ Len(a) \in Nat /\ Len(w) \in Nat /\ Len(a) <= Len(w)
  BY <1>1, <1>2, <1>3
<1>5. ASSUME NEW i \in 1..Len(a) PROVE a[i] = b[i]
  <2>1. Len(w) - Len(a) + i \in 1..Len(w)
    BY <1>4
  <2>2. Len(s) - Len(w) + (Len(w) - Len(a) + i) = Len(s) - Len(b) + i
    <3>1. i \in Nat /\ Len(s) \in Nat
      BY <1>1, <1>4
    <3> QED  BY ONLY <1>4, <3>1
  <2>3. a[i] = w[Len(w) - Len(a) + i] /\ b[i] = s[Len(s) - Len(b) + i]
    BY <1>2, <1>3, <1>4
  <2>4. w[Len(w) - Len(a) + i] = s[Len(s) - Len(w) + (Len(w) - Len(a) + i)]
    BY <1>1, <2>1
  <2> QED  BY <2>2, <2>3, <2>4
<1>6. a = b
  BY <1>2, <1>3, <1>4, <1>5, SeqEqual
<1> QED  BY <1>6 DEF a, b, w

\* Sliding the window over one more element.
LEMMA SlideKeepsLast ==
  ASSUME NEW S, NEW s \in Seq(S), NEW e \in S
  PROVE  Slide(LastOf(3 * ContextLines, s), e) = LastOf(3 * ContextLines, Append(s, e))
<1> DEFINE n == 3 * ContextLines
           w == LastOf(n, s)
           a == Append(w, e)
           t == Append(s, e)
           b == LastOf(n, t)
           x == Slide(w, e)
<1>1. n \in Nat
  BY DedupAssumption
<1> HIDE DEF n
<1>2. /\ Len(s) \in Nat
      /\ w \in Seq(S) /\ Len(w) = IF Len(s) <= n THEN Len(s) ELSE n
      /\ \A i \in 1..Len(w) : w[i] = s[Len(s) - Len(w) + i]
  BY <1>1, LastOfProperties, LenProperties
<1>3. /\ t \in Seq(S) /\ Len(t) = Len(s) + 1
      /\ \A i \in 1..Len(s) : t[i] = s[i]
      /\ t[Len(s) + 1] = e
  BY AppendProperties
<1> HIDE DEF w, t
<1>4. /\ b \in Seq(S) /\ Len(b) = IF Len(t) <= n THEN Len(t) ELSE n
      /\ \A i \in 1..Len(b) : b[i] = t[Len(t) - Len(b) + i]
  BY <1>1, <1>3, LastOfProperties
<1>5. /\ a \in Seq(S) /\ a # <<>> /\ Len(a) = Len(w) + 1
      /\ \A i \in 1..Len(w) : a[i] = w[i]
      /\ a[Len(w) + 1] = e
  BY <1>2, AppendProperties
<1>6. x = IF Len(a) > n THEN Tail(a) ELSE a
  BY DEF Slide, n
<1> HIDE DEF a, b, x
<1>7. ASSUME NEW i \in 1..Len(a) PROVE a[i] = t[Len(t) - Len(a) + i]
  <2>1. CASE i = Len(w) + 1
    <3>1. Len(t) - Len(a) + i = Len(s) + 1
      BY <1>2, <1>3, <1>5, <2>1
    <3> QED  BY <1>3, <1>5, <2>1, <3>1
  <2>2. CASE i # Len(w) + 1
    <3>1. i \in 1..Len(w)
      BY <1>2, <1>5, <2>2
    <3>2. Len(s) - Len(w) + i \in 1..Len(s) /\ Len(t) - Len(a) + i = Len(s) - Len(w) + i
      BY <1>1, <1>2, <1>3, <1>5, <3>1
    <3> QED  BY <1>2, <1>3, <1>5, <3>1, <3>2
  <2> QED  BY <2>1, <2>2
<1>8. x = b
  <2>1. CASE Len(s) < n
    <3>1. x = a /\ Len(a) = Len(b)
      BY <1>1, <1>2, <1>3, <1>4, <1>5, <1>6, <2>1
    <3>2. \A i \in 1..Len(a) : a[i] = b[i]
      BY <1>4, <1>7, <3>1
    <3>3. a = b
      BY <1>4, <1>5, <3>1, <3>2, SeqEqual
    <3> QED  BY <3>1, <3>3
  <2>2. CASE Len(s) >= n
    <3>1. x = Tail(a) /\ Len(a) = n + 1 /\ Len(b) = n
      BY <1>1, <1>2, <1>3, <1>4, <1>5, <1>6, <2>2
    <3>2. x \in Seq(S) /\ Len(x) = n /\ \A i \in 1..n : x[i] = a[i + 1]
      BY <1>1, <1>5, <3>1, HeadTailProperties
    <3>3. ASSUME NEW i \in 1..n PROVE x[i] = b[i]
      <4>1. i + 1 \in 1..Len(a) /\ Len(t) - Len(a) + (i + 1) = Len(t) - Len(b) + i
        BY <1>1, <1>2, <1>3, <3>1
      <4>2. a[i + 1] = t[Len(t) - Len(a) + (i + 1)]
        BY <1>7, <4>1
      <4> QED  BY <1>4, <3>1, <3>2, <4>1, <4>2
    <3> QED  BY <1>4, <3>1, <3>2, <3>3, SeqEqual
  <2> QED  BY <1>1, <1>2, <2>1, <2>2
<1> QED  BY <1>8 DEF x, b, w, t, n

\* The window holds the last novel entries.
WindowInv ==
  /\ novel \in Seq(Nat)
  /\ window = LastOf(3 * ContextLines, novel)

LEMMA AppendTwice ==
  ASSUME NEW S, NEW c \in Seq(S), NEW e \in S
  PROVE  Append(Append(c, e), e) = c \o <<e, e>>
<1> DEFINE v == <<e, e>>
           a == Append(c, e)
           b == Append(a, e)
           d == c \o v
<1>1. v \in Seq(S) /\ Len(v) = 2 /\ v[1] = e /\ v[2] = e
  OBVIOUS
<1>2. /\ Len(c) \in Nat
      /\ a \in Seq(S) /\ Len(a) = Len(c) + 1
      /\ \A i \in 1..Len(c) : a[i] = c[i]
      /\ a[Len(c) + 1] = e
  BY AppendProperties, LenProperties
<1> HIDE DEF v, a
<1>3. /\ b \in Seq(S) /\ Len(b) = Len(a) + 1
      /\ \A i \in 1..Len(a) : b[i] = a[i]
      /\ b[Len(a) + 1] = e
  BY <1>2, AppendProperties
<1>4. /\ d \in Seq(S) /\ Len(d) = Len(c) + Len(v)
      /\ \A i \in 1..Len(c) + Len(v) : d[i] = IF i <= Len(c) THEN c[i] ELSE v[i - Len(c)]
  BY <1>1, ConcatProperties
<1> HIDE DEF b, d
<1>5. ASSUME NEW i \in 1..Len(c) + 2 PROVE b[i] = d[i]
  <2>1. i \in 1..Len(c) + Len(v)
    BY <1>1
  <2>2. CASE i <= Len(c)
    <3>1. i \in 1..Len(c) /\ i \in 1..Len(a)
      BY <1>2, <2>2
    <3> QED  BY <1>2, <1>3, <1>4, <2>1, <2>2, <3>1
  <2>3. CASE i = Len(c) + 1
    <3>1. i \in 1..Len(a) /\ ~(i <= Len(c)) /\ i - Len(c) = 1
      BY <1>2, <2>3
    <3>2. b[i] = e
      BY <1>2, <1>3, <2>3, <3>1
    <3> QED  BY <1>1, <1>4, <2>1, <3>1, <3>2
  <2>4. CASE i = Len(c) + 2
    <3>1. i = Len(a) + 1 /\ ~(i <= Len(c)) /\ i - Len(c) = 2
      BY <1>2, <2>4
    <3>2. b[i] = e
      BY <1>3, <3>1
    <3> QED  BY <1>1, <1>4, <2>1, <3>1, <3>2
  <2> QED  BY <1>2, <2>2, <2>3, <2>4
<1>6. b = d
  BY <1>1, <1>2, <1>3, <1>4, <1>5, SeqEqual
<1> QED  BY <1>6 DEF a, b, d, v

\* The context of an entry, and the entry itself.
LEMMA ContextOfWindow ==
  ASSUME WindowInv, NEW n \in Nat
  PROVE  /\ Append(GetContext(n), n) = LastOf(ContextLines, novel) \o <<n, n>>
         /\ Append(GetContext(n), n) # <<>>
<1> DEFINE c == LastOf(ContextLines, novel)
<1>1. LastOf(ContextLines, window) = c
  <2>1. ContextLines \in Nat /\ 3 * ContextLines \in Nat /\ ContextLines <= 3 * ContextLines
    BY DedupAssumption
  <2> QED  BY <2>1, LastOfLast DEF WindowInv
<1>2. c \in Seq(Nat)
  BY DedupAssumption, LastOfProperties DEF WindowInv
<1>3. GetContext(n) = Append(c, n)
  BY <1>1 DEF GetContext
<1> HIDE DEF c
<1>4. Append(c, n) \in Seq(Nat)
  BY <1>2, AppendProperties
<1>5. Append(Append(c, n), n) # <<>>
  BY <1>4, AppendProperties
<1>6. Append(Append(c, n), n) = c \o <<n, n>>
  BY <1>2, AppendTwice
<1> QED  BY <1>3, <1>5, <1>6 DEF c

\* Only a novel entry moves the window, and it moves it by itself.
LEMMA NovelSlides ==
  ASSUME WindowInv, NEW e \in Entries, Novel(e), Len(log) \in Nat
  PROVE  WindowInv'
<1> DEFINE n == Len(log) + 1
<1>1. n \in Nat
  OBVIOUS
<1>2. novel' = Append(novel, n) /\ window' = Slide(window, n)
  BY DEF Novel
<1> HIDE DEF n
<1>3. novel' \in Seq(Nat)
  BY <1>1, <1>2, AppendProperties DEF WindowInv
<1>4. Slide(LastOf(3 * ContextLines, novel), n) = LastOf(3 * ContextLines, Append(novel, n))
  BY <1>1, SlideKeepsLast DEF WindowInv
<1> QED  BY <1>2, <1>3, <1>4 DEF WindowInv

LEMMA WindowIsEmpty == <<>> \in Seq(Nat) /\ LastOf(3 * ContextLines, <<>>) = <<>>
<1>1. <<>> \in Seq(Nat) /\ Len(<<>>) = 0 /\ 0 <= 3 * ContextLines
  BY DedupAssumption, EmptySeq
<1> QED  BY <1>1 DEF LastOf

-----------------------------------------------------------------------------
(* The miner inside the engine: what the reader of the output has seen. *)

LogEntry == [entry : Entries, cluster : Nat, emitted : BOOLEAN]

\* The reader has seen message m, or another message of its cluster before it.
Shown(m) == \E k \in DOMAIN log : log[k].entry.msg = m /\ Represented(k)

\* Every cluster has an entry that was output, whichever entry made it.
ClustersAreShown ==
  \A id \in 1..Len(drain.clusters) :
    \E j \in DOMAIN log : log[j].cluster = id /\ log[j].emitted

\* Every message in the cache is shown: this is what makes it safe to suppress its
\* repetitions.
CacheIsShown == \A m \in DOMAIN fingerprints : Shown(m)

LogInv == log \in Seq(LogEntry)

EngineInv ==
  /\ LogInv
  /\ WindowInv
  /\ TreeInv(drain)
  /\ ClustersAreShown
  /\ CacheIsShown
  /\ SuppressedHasRepresentative

\* Note adds an entry; the entries before it keep their numbers and their
\* representatives.
LEMMA LogGrows ==
  ASSUME LogInv, NEW e \in Entries, NEW id \in Nat, NEW o, Note(e, id, o)
  PROVE  /\ LogInv' /\ Len(log) \in Nat
         /\ DOMAIN log = 1..Len(log) /\ DOMAIN log' = 1..Len(log) + 1
         /\ Len(log') = Len(log) + 1
         /\ \A i \in 1..Len(log) : log'[i] = log[i] /\ (Represented(i) => Represented(i)')
         /\ log'[Len(log) + 1].entry = e
         /\ log'[Len(log) + 1].cluster = id
         /\ log'[Len(log) + 1].emitted <=> o # <<>>
<1> DEFINE r == [entry |-> e, cluster |-> id, emitted |-> o # <<>>]
<1>1. r \in LogEntry /\ r.entry = e /\ r.cluster = id /\ (r.emitted <=> o # <<>>)
  BY DEF LogEntry
<1>2. log' = Append(log, r) /\ log \in Seq(LogEntry)
  BY DEF Note, LogInv
<1> HIDE DEF r
<1>3. /\ Len(log) \in Nat /\ DOMAIN log = 1..Len(log)
      /\ log' \in Seq(LogEntry) /\ Len(log') = Len(log) + 1
      /\ \A i \in 1..Len(log) : log'[i] = log[i]
      /\ log'[Len(log) + 1] = r
  BY <1>1, <1>2, AppendProperties, LenProperties
<1>4. DOMAIN log' = 1..Len(log) + 1
  BY <1>3, LenProperties
<1>5. ASSUME NEW i \in 1..Len(log), Represented(i) PROVE Represented(i)'
  <2>1. \A j \in 1..i : log'[j] = log[j]
    BY <1>3
  <2>2. i \in 1..i /\ \A j \in 1..i - 1 : j \in 1..i
    BY <1>3
  <2> QED  BY <1>5, <2>1, <2>2 DEF Represented
<1> QED  BY <1>1, <1>3, <1>4, <1>5 DEF LogInv

\* What is shown stays shown.
LEMMA ShownGrows ==
  ASSUME LogInv, NEW e \in Entries, NEW id \in Nat, NEW o, Note(e, id, o),
         NEW m, Shown(m)
  PROVE  Shown(m)'
<1>1. PICK k \in DOMAIN log : log[k].entry.msg = m /\ Represented(k)
  BY DEF Shown
<1>2. k \in DOMAIN log' /\ log'[k] = log[k] /\ Represented(k)'
  <2>1. /\ Len(log) \in Nat /\ k \in 1..Len(log) /\ DOMAIN log' = 1..Len(log) + 1
        /\ log'[k] = log[k] /\ Represented(k)'
    BY <1>1, LogGrows
  <2> QED  BY <2>1
<1> QED  BY <1>1, <1>2 DEF Shown

\* The new entry is represented, or its message is shown already: then nothing is
\* suppressed without an example.
LEMMA SuppressionIsJustified ==
  ASSUME EngineInv, NEW e \in Entries, NEW id \in Nat, NEW o, Note(e, id, o),
         NEW n, n = Len(log), Shown(e.msg) \/ Represented(n + 1)'
  PROVE  SuppressedHasRepresentative'
<1>1. /\ n \in Nat /\ DOMAIN log = 1..n /\ DOMAIN log' = 1..n + 1
      /\ \A i \in 1..n : log'[i] = log[i] /\ (Represented(i) => Represented(i)')
      /\ log'[n + 1].entry = e
  BY LogGrows DEF EngineInv
<1> SUFFICES ASSUME NEW i \in DOMAIN log'
             PROVE  \/ Represented(i)'
                    \/ \E k \in 1..i - 1 : /\ log'[k].entry.msg = log'[i].entry.msg
                                           /\ Represented(k)'
  BY DEF SuppressedHasRepresentative
<1>2. CASE i \in 1..n
  <2>1. \/ Represented(i)
        \/ \E k \in 1..i - 1 : log[k].entry.msg = log[i].entry.msg /\ Represented(k)
    BY <1>1, <1>2 DEF EngineInv, SuppressedHasRepresentative
  <2>2. CASE Represented(i)
    BY <1>1, <1>2, <2>2
  <2>3. ASSUME NEW k \in 1..i - 1,
               log[k].entry.msg = log[i].entry.msg, Represented(k)
        PROVE  log'[k].entry.msg = log'[i].entry.msg /\ Represented(k)'
    <3>1. k \in 1..n
      BY <1>1, <1>2
    <3> QED  BY <1>1, <1>2, <2>3, <3>1
  <2> QED  BY <2>1, <2>2, <2>3
<1>3. CASE i = n + 1
  <2>1. CASE Shown(e.msg)
    <3>1. PICK k \in DOMAIN log : log[k].entry.msg = e.msg /\ Represented(k)
      BY <2>1 DEF Shown
    <3>2. k \in 1..i - 1
      BY <1>1, <1>3, <3>1
    <3>3. log'[k] = log[k] /\ Represented(k)' /\ log'[i].entry = e
      BY <1>1, <1>3, <3>1
    <3> QED  BY <3>1, <3>2, <3>3
  <2>2. CASE Represented(n + 1)'
    BY <1>3, <2>2
  <2> QED  BY <2>1, <2>2
<1> QED  BY <1>1, <1>2, <1>3

\* A repetition is suppressed because its message is shown.
LEMMA DuplicateKeeps ==
  ASSUME EngineInv, NEW e \in Entries, Duplicate(e)
  PROVE  EngineInv'
<1>1. Note(e, 0, <<>>) /\ UNCHANGED <<drain, fingerprints>> /\ e.msg \in DOMAIN fingerprints
  BY DEF Duplicate, Live
<1>2. /\ LogInv' /\ Len(log) \in Nat
      /\ DOMAIN log = 1..Len(log) /\ DOMAIN log' = 1..Len(log) + 1
      /\ \A i \in 1..Len(log) : log'[i] = log[i]
  BY <1>1, LogGrows DEF EngineInv
<1>3. ClustersAreShown'
  <2> SUFFICES ASSUME NEW id \in 1..Len(drain.clusters)
               PROVE  \E j \in DOMAIN log' : log'[j].cluster = id /\ log'[j].emitted
    BY <1>1 DEF ClustersAreShown
  <2>1. PICK j \in DOMAIN log : log[j].cluster = id /\ log[j].emitted
    BY DEF EngineInv, ClustersAreShown
  <2>2. j \in DOMAIN log' /\ log'[j] = log[j]
    BY <1>2, <2>1
  <2> QED  BY <2>1, <2>2
<1>4. CacheIsShown'
  BY <1>1, ShownGrows DEF EngineInv, CacheIsShown
<1>5. SuppressedHasRepresentative'
  BY <1>1, SuppressionIsJustified DEF EngineInv, CacheIsShown
<1>6. TreeInv(drain)'
  BY <1>1 DEF EngineInv
<1>7. WindowInv'
  BY DEF Duplicate, EngineInv, WindowInv
<1> QED  BY <1>2, <1>3, <1>4, <1>5, <1>6, <1>7 DEF EngineInv

\* A novel entry is output, or its cluster was there before it.
LEMMA NovelKeeps ==
  ASSUME EngineInv, NEW e \in Entries, Novel(e)
  PROVE  EngineInv'
<1> DEFINE id == ClusterOf(drain, e.msg)
           c == Len(drain.clusters)
<1>0. PICK n : n = Len(log)
  OBVIOUS
<1>1. e.msg \in Messages
  BY DedupAssumption DEF Msgs
<1>2. TreeInv(drain) /\ c \in Nat
  BY LenProperties DEF EngineInv, TreeInv
<1>3. /\ TreeInv(drain')
      /\ \/ id = 0 /\ drain' = drain /\ ~CreatesCluster(drain, e.msg)
         \/ id = c + 1 /\ Len(drain'.clusters) = c + 1 /\ CreatesCluster(drain, e.msg)
         \/ id \in 1..c /\ Len(drain'.clusters) = c /\ ~CreatesCluster(drain, e.msg)
  <2>1. drain' = AddLogMessage(drain, e.msg)
    BY DEF Novel
  <2>2. TreeInv(drain')
    BY <1>1, <1>2, <2>1, Mined
  <2>3. CASE id = 0 /\ ~CreatesCluster(drain, e.msg) /\ drain' = drain
    BY <2>2, <2>3
  <2>4. CASE /\ id = c + 1 /\ CreatesCluster(drain, e.msg)
             /\ drain'.clusters = Append(drain.clusters, [template |-> Tokenize(e.msg), size |-> 1])
    <3>1. Len(drain'.clusters) = c + 1
      BY <1>2, <2>4 DEF TreeInv
    <3> QED  BY <2>2, <2>4, <3>1
  <2>5. CASE /\ id \in 1..c /\ ~CreatesCluster(drain, e.msg)
             /\ Len(drain.clusters[id].template) = Len(Tokenize(e.msg))
             /\ drain' = Absorb(drain, id, Tokenize(e.msg))
    <3>1. Len(drain'.clusters) = c
      BY <1>1, <1>2, <2>5, AbsorbKeeps
    <3> QED  BY <2>2, <2>5, <3>1
  <2> QED  BY <1>1, <1>2, <2>1, <2>3, <2>4, <2>5, Mined
<1>4. id \in Nat
  BY <1>2, <1>3
<1>5. /\ Note(e, id, out')
      /\ id = 0 \/ CreatesCluster(drain, e.msg) => out' # <<>>
      /\ DOMAIN fingerprints' = DOMAIN fingerprints \cup {e.msg}
  <2>1. n + 1 \in Nat /\ <<n + 1>> # <<>>
    BY <1>0, LenProperties DEF EngineInv, LogInv
  <2>2. Append(GetContext(n + 1), n + 1) # <<>>
    BY <2>1, ContextOfWindow DEF EngineInv
  <2>3. CASE Severe(e)
    BY <1>0, <2>2, <2>3 DEF Novel, Remember
  <2>4. CASE ~Severe(e)
    BY <1>0, <2>1, <2>4 DEF Novel, SkipByTemplate, Remember
  <2> QED  BY <2>3, <2>4
<1> HIDE DEF id, c
<1>6. /\ LogInv' /\ n \in Nat
      /\ DOMAIN log = 1..n /\ DOMAIN log' = 1..n + 1
      /\ \A i \in 1..n : log'[i] = log[i]
      /\ log'[n + 1].entry = e /\ log'[n + 1].cluster = id
      /\ log'[n + 1].emitted <=> out' # <<>>
  BY <1>0, <1>4, <1>5, LogGrows DEF EngineInv
<1>7. ClustersAreShown'
  <2> SUFFICES ASSUME NEW k \in 1..Len(drain'.clusters)
               PROVE  \E j \in DOMAIN log' : log'[j].cluster = k /\ log'[j].emitted
    BY DEF ClustersAreShown
  <2>1. CASE k \in 1..c
    <3>1. PICK j \in DOMAIN log : log[j].cluster = k /\ log[j].emitted
      BY <2>1 DEF EngineInv, ClustersAreShown, c
    <3>2. j \in DOMAIN log' /\ log'[j] = log[j]
      BY <1>6, <3>1
    <3> QED  BY <3>1, <3>2
  <2>2. CASE k = c + 1 /\ id = c + 1 /\ CreatesCluster(drain, e.msg)
    <3>1. n + 1 \in DOMAIN log'
      BY <1>6
    <3> QED  BY <1>5, <1>6, <2>2, <3>1
  <2>3. k \in 1..c \/ (k = c + 1 /\ id = c + 1 /\ CreatesCluster(drain, e.msg))
    <3>1. CASE Len(drain'.clusters) = c
      BY <3>1
    <3>2. CASE Len(drain'.clusters) = c + 1 /\ id = c + 1 /\ CreatesCluster(drain, e.msg)
      BY <1>2, <3>2 DEF c
    <3> QED  BY <1>3, <3>1, <3>2 DEF c
  <2> QED  BY <2>1, <2>2, <2>3
<1>8. Represented(n + 1)'
  <2>1. CASE out' # <<>>
    BY <1>6, <2>1 DEF Represented
  <2>2. CASE out' = <<>>
    <3>1. id \in 1..c
      BY <1>3, <1>5, <2>2
    <3>2. PICK j \in DOMAIN log : log[j].cluster = id /\ log[j].emitted
      BY <3>1 DEF EngineInv, ClustersAreShown, c
    <3>3. j \in 1..(n + 1) - 1 /\ log'[j] = log[j] /\ id # 0
      BY <1>2, <1>6, <3>1, <3>2
    <3> QED  BY <1>6, <3>2, <3>3 DEF Represented
  <2> QED  BY <2>1, <2>2
<1>9. CacheIsShown'
  <2> SUFFICES ASSUME NEW m \in DOMAIN fingerprints' PROVE Shown(m)'
    BY DEF CacheIsShown
  <2>1. CASE m = e.msg
    <3>1. n + 1 \in DOMAIN log'
      BY <1>6
    <3> QED  BY <1>6, <1>8, <2>1, <3>1 DEF Shown
  <2>2. CASE m # e.msg
    <3>1. Shown(m)
      BY <1>5, <2>2 DEF EngineInv, CacheIsShown
    <3> QED  BY <1>4, <1>5, <3>1, ShownGrows DEF EngineInv
  <2> QED  BY <2>1, <2>2
<1>10. SuppressedHasRepresentative'
  BY <1>0, <1>4, <1>5, <1>8, SuppressionIsJustified
<1>11. WindowInv'
  BY <1>0, <1>6, NovelSlides DEF EngineInv
<1> QED  BY <1>3, <1>6, <1>7, <1>9, <1>10, <1>11 DEF EngineInv

LEMMA EngineInvInit == Init => EngineInv
<1>1. <<>> \in Seq(LogEntry) /\ Len(<<>>) = 0 /\ DOMAIN <<>> = {}
  BY EmptySeq
<1> QED  BY <1>1, WindowIsEmpty, EmptyTree DEF Init, EngineInv, WindowInv, LogInv, ClustersAreShown, CacheIsShown,
            SuppressedHasRepresentative, EmptyCache

\* A cache that only shrinks keeps it, while nothing is processed.
LEMMA EngineQuiet ==
  ASSUME EngineInv, DOMAIN fingerprints' \subseteq DOMAIN fingerprints,
         UNCHANGED <<drain, log, window, novel>>
  PROVE  EngineInv'
<1>1. TreeInv(drain)' /\ WindowInv' /\ LogInv'
  BY DEF EngineInv, TreeInv, WindowInv, LogInv
<1>2. ClustersAreShown'
  BY DEF EngineInv, ClustersAreShown
<1>3. \A i : Represented(i)' <=> Represented(i)
  BY DEF Represented
<1>4. CacheIsShown'
  BY <1>3 DEF EngineInv, CacheIsShown, Shown
<1>5. SuppressedHasRepresentative'
  BY <1>3 DEF EngineInv, SuppressedHasRepresentative
<1> QED  BY <1>1, <1>2, <1>4, <1>5 DEF EngineInv

LEMMA EngineInvStep == EngineInv /\ [Next]_vars => EngineInv'
<1> SUFFICES ASSUME EngineInv, [Next]_vars PROVE EngineInv'
  OBVIOUS
<1>1. ASSUME NEW e \in Entries, Process(e) PROVE EngineInv'
  BY <1>1, DuplicateKeeps, NovelKeeps DEF Process
<1>2. CASE Cleanup
  <2>1. DOMAIN fingerprints' \subseteq DOMAIN fingerprints
    BY <1>2 DEF Cleanup, Unexpired
  <2>2. UNCHANGED <<drain, log, window, novel>>
    BY <1>2 DEF Cleanup
  <2> QED  BY <2>1, <2>2, EngineQuiet
<1>3. CASE Tick
  <2>1. DOMAIN fingerprints' = DOMAIN fingerprints /\ UNCHANGED <<drain, log, window, novel>>
    BY <1>3 DEF Tick
  <2> QED  BY <2>1, EngineQuiet
<1>4. CASE Reset
  <2>1. <<>> \in Seq(LogEntry) /\ Len(<<>>) = 0 /\ DOMAIN <<>> = {}
    BY EmptySeq
  <2> QED  BY <1>4, <2>1, WindowIsEmpty, EmptyTree DEF Reset, EngineInv, WindowInv, LogInv, ClustersAreShown, CacheIsShown,
              SuppressedHasRepresentative, EmptyCache
<1>5. CASE Close \/ UNCHANGED vars
  <2>1. UNCHANGED <<fingerprints, drain, log, window, novel>>
    BY <1>5 DEF Close, vars
  <2> QED  BY <2>1, EngineQuiet
<1> QED  BY <1>1, <1>2, <1>3, <1>4, <1>5 DEF Next

\* Nothing is suppressed of which the reader has seen no example, for any entries,
\* cache lifetime and miner configuration: an entry that was not output has a
\* predecessor of its template that was, or repeats a message for which this holds,
\* whatever was cleaned up, reset or generalised in between.
THEOREM SuppressedHasRepresentativeHolds == Spec => []SuppressedHasRepresentative
<1>1. EngineInv => SuppressedHasRepresentative
  BY DEF EngineInv
<1> QED  BY <1>1, EngineInvInit, EngineInvStep, PTL DEF Spec

-----------------------------------------------------------------------------
(* The cache and the clock. *)

\* A message is in the cache, unexpired, while its last novel occurrence is no older
\* than the TTL, and expires exactly then.
AgeInv ==
  /\ DOMAIN fingerprints \subseteq Msgs
  /\ \A m \in DOMAIN fingerprints : fingerprints[m] \in -1..TTL
  /\ age \in [Msgs -> 0..TTL + 1]
  /\ \A m \in Msgs : /\ Live(m) <=> age[m] <= TTL
                     /\ Live(m) => fingerprints[m] + age[m] = TTL

LEMMA AgeInvInit == Init => AgeInv
<1> SUFFICES ASSUME Init PROVE AgeInv
  OBVIOUS
<1>1. DOMAIN fingerprints = {} /\ age = [m \in Msgs |-> TTL + 1]
  BY DEF Init, EmptyCache
<1>2. TTL \in Nat
  BY DedupAssumption
<1> QED  BY <1>1, <1>2 DEF AgeInv, Live

LEMMA AgeInvStep == AgeInv /\ [Next]_vars => AgeInv'
<1> SUFFICES ASSUME AgeInv, [Next]_vars PROVE AgeInv'
  OBVIOUS
<1>1. TTL \in Nat \ {0}
  BY DedupAssumption
<1>2. ASSUME NEW e \in Entries, Novel(e) PROVE AgeInv'
  <2> DEFINE m == e.msg
  <2>1. m \in Msgs
    BY DEF Msgs
  <2>2. /\ DOMAIN fingerprints' = DOMAIN fingerprints \cup {m}
        /\ fingerprints'[m] = TTL
        /\ \A k \in DOMAIN fingerprints : k # m => fingerprints'[k] = fingerprints[k]
        /\ age' = [age EXCEPT ![m] = 0]
    BY <1>2 DEF Novel, Remember
  <2> HIDE DEF m
  <2>3. /\ age' \in [Msgs -> 0..TTL + 1]
        /\ age'[m] = 0
        /\ \A k \in Msgs : k # m => age'[k] = age[k]
    BY <1>1, <2>1, <2>2 DEF AgeInv
  <2>4. ASSUME NEW k \in Msgs
        PROVE  /\ Live(k)' <=> age'[k] <= TTL
               /\ Live(k)' => fingerprints'[k] + age'[k] = TTL
    BY <1>1, <2>1, <2>2, <2>3 DEF AgeInv, Live
  <2>5. DOMAIN fingerprints' \subseteq Msgs /\ \A k \in DOMAIN fingerprints' : fingerprints'[k] \in -1..TTL
    BY <1>1, <2>1, <2>2 DEF AgeInv
  <2> QED  BY <2>3, <2>4, <2>5 DEF AgeInv, Live
<1>3. CASE Cleanup
  <2>1. /\ DOMAIN fingerprints' = {k \in DOMAIN fingerprints : fingerprints[k] >= 0}
        /\ \A k \in DOMAIN fingerprints' : fingerprints'[k] = fingerprints[k]
        /\ age' = age
    BY <1>3 DEF Cleanup, Unexpired
  <2> QED  BY <2>1 DEF AgeInv, Live
<1>4. CASE Tick
  <2>1. /\ DOMAIN fingerprints' = DOMAIN fingerprints
        /\ \A k \in DOMAIN fingerprints : fingerprints'[k] =
             IF fingerprints[k] < 0 THEN fingerprints[k] ELSE fingerprints[k] - 1
    BY <1>4 DEF Tick
  <2>2. /\ age' = [k \in Msgs |-> IF age[k] > TTL THEN age[k] ELSE age[k] + 1]
        /\ \A k \in Msgs : age[k] \in 0..TTL + 1
    BY <1>4 DEF Tick, AgeInv
  <2>3. /\ age' \in [Msgs -> 0..TTL + 1]
        /\ \A k \in Msgs : age'[k] = IF age[k] > TTL THEN age[k] ELSE age[k] + 1
    BY <1>1, <2>2
  <2>4. ASSUME NEW k \in DOMAIN fingerprints
        PROVE  fingerprints[k] \in -1..TTL /\ fingerprints'[k] \in -1..TTL
    <3>1. fingerprints[k] \in -1..TTL
      BY DEF AgeInv
    <3> QED  BY <1>1, <2>1, <3>1
  <2>5. ASSUME NEW k \in Msgs
        PROVE  /\ Live(k)' <=> age'[k] <= TTL
               /\ Live(k)' => fingerprints'[k] + age'[k] = TTL
    <3>1. CASE Live(k)
      <4>1. k \in DOMAIN fingerprints /\ fingerprints[k] >= 0 /\ fingerprints[k] + age[k] = TTL
        BY <3>1 DEF AgeInv, Live
      <4>2. fingerprints'[k] = fingerprints[k] - 1 /\ age'[k] = age[k] + 1
        BY <1>1, <2>1, <2>2, <2>3, <2>4, <4>1
      <4>3. fingerprints[k] \in Int /\ age[k] \in Int
        BY <1>1, <2>2, <2>4, <4>1
      <4> QED  BY <1>1, <2>1, <4>1, <4>2, <4>3 DEF Live
    <3>2. CASE ~Live(k)
      <4>1. age[k] > TTL /\ age'[k] = age[k]
        BY <1>1, <2>2, <2>3, <3>2 DEF AgeInv
      <4>2. ~Live(k)'
        BY <1>1, <2>1, <2>4, <3>2 DEF Live
      <4> QED  BY <1>1, <2>2, <4>1, <4>2
    <3> QED  BY <3>1, <3>2
  <2>6. DOMAIN fingerprints' \subseteq Msgs /\ \A k \in DOMAIN fingerprints' : fingerprints'[k] \in -1..TTL
    BY <2>1, <2>4 DEF AgeInv
  <2> QED  BY <2>3, <2>5, <2>6 DEF AgeInv, Live
<1>5. CASE Reset
  <2>1. DOMAIN fingerprints' = {} /\ age' = [m \in Msgs |-> TTL + 1]
    BY <1>5 DEF Reset, EmptyCache
  <2> QED  BY <1>1, <2>1 DEF AgeInv, Live
<1>6. ASSUME UNCHANGED <<fingerprints, age>> PROVE AgeInv'
  BY <1>6 DEF AgeInv, Live
<1>7. ASSUME NEW e \in Entries, Duplicate(e) PROVE UNCHANGED <<fingerprints, age>>
  BY <1>7 DEF Duplicate
<1>8. CASE Close \/ UNCHANGED vars
  BY <1>6, <1>8 DEF Close, vars
<1> QED  BY <1>2, <1>3, <1>4, <1>5, <1>6, <1>7, <1>8 DEF Next, Process

\* The step that processes e is a Process step of e.
LEMMA ProcessingIsProcess ==
  ASSUME LogInv, [Next]_vars, NEW e \in Entries, Processing(e)
  PROVE  Duplicate(e) \/ Novel(e)
<1>1. Len(log) \in Nat
  BY LenProperties DEF LogInv
<1>2. Len(log') = Len(log) + 1 /\ log'[Len(log')].entry = e
  BY DEF Processing
<1>3. log' # log
  BY <1>1, <1>2
<1>4. ~Reset
  <2>1. Len(<<>>) = 0
    OBVIOUS
  <2> QED  BY <1>1, <1>2, <2>1 DEF Reset
<1>5. PICK f \in Entries : Duplicate(f) \/ Novel(f)
  BY <1>3, <1>4 DEF Next, Process, Cleanup, Tick, Close, vars
<1>6. \E id, o : Note(f, id, o)
  BY <1>5 DEF Duplicate, Novel
<1>7. \A id, o : Note(f, id, o) => f = e
  <2> SUFFICES ASSUME NEW id, NEW o, Note(f, id, o) PROVE f = e
    OBVIOUS
  <2> DEFINE r == [entry |-> f, cluster |-> id, emitted |-> o # <<>>]
  <2>1. log' = Append(log, r) /\ r.entry = f
    BY DEF Note
  <2> HIDE DEF r
  <2>2. log'[Len(log) + 1] = r
    BY <1>1, <2>1 DEF LogInv
  <2> QED  BY <1>2, <2>1, <2>2
<1> QED  BY <1>5, <1>6, <1>7

\* The cache suppresses every repetition within the TTL, whatever the level of the
\* entry and however cleanups, ticks and resets are interleaved.
THEOREM NoRepeatWithinTTLHolds == Spec => NoRepeatWithinTTL
<1>1. EngineInv /\ AgeInv /\ [Next]_vars =>
        [\A e \in Entries : Processing(e) /\ age[e.msg] <= TTL => out' = <<>>]_vars
  <2> SUFFICES ASSUME EngineInv, AgeInv, [Next]_vars,
                      NEW e \in Entries, Processing(e), age[e.msg] <= TTL
               PROVE  out' = <<>>
    OBVIOUS
  <2>1. Live(e.msg)
    BY DEF AgeInv, Msgs
  <2>2. Duplicate(e)
    BY <2>1, ProcessingIsProcess DEF EngineInv, Novel
  <2> QED  BY <2>2 DEF Duplicate
<1> QED  BY <1>1, EngineInvInit, EngineInvStep, AgeInvInit, AgeInvStep, PTL
         DEF Spec, NoRepeatWithinTTL

\* A severe entry that is novel is output after its whole context, in order, for any
\* window size: neither a known template nor the sliding window takes anything away.
THEOREM SevereIsOutputWithContextHolds == Spec => SevereIsOutputWithContext
<1>1. EngineInv /\ AgeInv /\ [Next]_vars =>
        [\A e \in Entries :
           Processing(e) /\ Severe(e) /\ age[e.msg] > TTL =>
             LET n == Len(log')
             IN out' = LastOf(ContextLines, novel) \o <<n, n>>]_vars
  <2> SUFFICES ASSUME EngineInv, AgeInv, [Next]_vars,
                      NEW e \in Entries, Processing(e), Severe(e), age[e.msg] > TTL
               PROVE  out' = LastOf(ContextLines, novel) \o <<Len(log'), Len(log')>>
    OBVIOUS
  <2>1. ~Live(e.msg)
    <3>1. e.msg \in Msgs /\ age[e.msg] \in Int /\ TTL \in Int
      BY DedupAssumption DEF AgeInv, Msgs
    <3> QED  BY <3>1 DEF AgeInv
  <2>2. Novel(e)
    BY <2>1, ProcessingIsProcess DEF EngineInv, Duplicate
  <2>3. PICK n \in Nat : n = Len(log) + 1 /\ n = Len(log')
    BY LenProperties DEF EngineInv, LogInv, Processing
  <2>4. out' = Append(GetContext(n), n)
    BY <2>2, <2>3 DEF Novel
  <2> QED  BY <2>3, <2>4, ContextOfWindow DEF EngineInv
<1> QED  BY <1>1, EngineInvInit, EngineInvStep, AgeInvInit, AgeInvStep, PTL
         DEF Spec, SevereIsOutputWithContext
=============================================================================
