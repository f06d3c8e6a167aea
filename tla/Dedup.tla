------------------------------- MODULE Dedup -------------------------------
(***************************************************************************)
(* The deduplication engine (pkg/dedup/engine.go) with its fingerprint      *)
(* cache, template miner and context window, and what processEntry makes of *)
(* its result (pkg/processor/processor.go).                                 *)
(*                                                                          *)
(* Process runs under the engine's lock; the cache's cleanup runs beside    *)
(* it.  An entry is a record of its message and its level.  The             *)
(* fingerprint, a SHA-256, is the message.                                  *)
(* Processed entries are numbered; the window and the output hold numbers.  *)
(***************************************************************************)
EXTENDS DrainTree, Integers

CONSTANTS
  Entries,       \* the entries that may be logged
  ContextLines,  \* config.ContextLines
  TTL,           \* config.FingerprintTTL, in ticks
  MaxProcessed   \* bound: entries processed between two resets

Msgs == {e.msg : e \in Entries}

ASSUME DedupAssumption ==
  /\ ContextLines \in Nat
  /\ TTL \in Nat \ {0} /\ MaxProcessed \in Nat
  /\ Msgs \subseteq Messages

VARIABLES
  fingerprints, \* the cache: for each message in it, expiry time minus now
  drain,        \* the template miner
  window,       \* ContextWindow.buffer
  out,          \* what processEntry returned for the last entry
  closed,       \* Close has stopped the cleanup
  log,          \* history: entry, cluster and fate of each processed entry
  novel,        \* history: the entries that were no fingerprint duplicates
  age           \* history: ticks since a message was last novel, up to TTL + 1

vars == <<fingerprints, drain, window, out, closed, log, novel, age>>

\* NewFingerprintCache and Clear.
EmptyCache == [m \in {} |-> 0]

Init ==
  /\ fingerprints = EmptyCache
  /\ drain = EmptyDrain
  /\ window = <<>>
  /\ out = <<>>
  /\ closed = FALSE
  /\ log = <<>>
  /\ novel = <<>>
  /\ age = [m \in Msgs |-> TTL + 1]

-----------------------------------------------------------------------------
(* The fingerprint cache and the context window. *)

\* An entry expires when the clock is past its expiry time, not at it.
Live(m) == m \in DOMAIN fingerprints /\ fingerprints[m] >= 0

\* Mutant of Unexpired: an entry expires at its expiry time.
Unexpired_Early == [m \in {k \in DOMAIN fingerprints : fingerprints[k] > 0} |-> fingerprints[m]]

\* What cleanup leaves.
Unexpired == [m \in {k \in DOMAIN fingerprints : fingerprints[k] >= 0} |-> fingerprints[m]]

\* FingerprintCache.Add
Remember(m) ==
  fingerprints' = [k \in DOMAIN fingerprints \cup {m} |->
                     IF k = m THEN TTL ELSE fingerprints[k]]

LastOf(n, s) == IF Len(s) <= n THEN s ELSE SubSeq(s, Len(s) - n + 1, Len(s))

\* Mutant of Slide: a full window keeps its old entries.
Slide_KeepsOldest(w, n) == IF Len(w) < 3 * ContextLines THEN Append(w, n) ELSE w

\* ContextWindow.Add: the window holds the last 3 * ContextLines entries.
Slide(w, n) ==
  IF Len(Append(w, n)) > 3 * ContextLines THEN Tail(Append(w, n)) ELSE Append(w, n)

\* GetContext: the last ContextLines entries of the window and a copy of the trigger,
\* marked as one.
GetContext(n) == Append(LastOf(ContextLines, window), n)

-----------------------------------------------------------------------------
(* Process and processEntry. *)

\* shouldPreserveContext
Severe(e) == e.level \in {"ERROR", "FATAL", "PANIC"}

\* Mutant of SkipByTemplate: one message is enough to know a template.
SkipByTemplate_Count1(e) ==
  LET id == ClusterOf(drain, e.msg)
  IN id # 0 /\ AddLogMessage(drain, e.msg).clusters[id].size >= 1

\* The miner had a cluster for the message, which has now absorbed more than one.  A
\* message without tokens has no cluster and is not skipped.
SkipByTemplate(e) ==
  LET id == ClusterOf(drain, e.msg)
  IN /\ id # 0
     /\ ~CreatesCluster(drain, e.msg)
     /\ AddLogMessage(drain, e.msg).clusters[id].size > 1

Note(e, id, o) == log' = Append(log, [entry |-> e, cluster |-> id, emitted |-> o # <<>>])

\* The fingerprint is known: nothing else happens to the entry.
Duplicate(e) ==
  /\ Live(e.msg)
  /\ out' = <<>>
  /\ Note(e, 0, <<>>)
  /\ UNCHANGED <<fingerprints, drain, window, closed, novel, age>>

\* The fingerprint is new or expired: the entry goes through the miner into the
\* cache and the window; it is output if its template is new, and in any case, after
\* its context and the copy of itself that ends the context, if it is severe.
Novel(e) ==
  LET n == Len(log) + 1
      o == IF Severe(e) THEN Append(GetContext(n), n)
           ELSE IF SkipByTemplate(e) THEN <<>>
           ELSE <<n>>
  IN /\ ~Live(e.msg)
     /\ drain' = AddLogMessage(drain, e.msg)
     /\ Remember(e.msg)
     /\ window' = Slide(window, n)
     /\ out' = o
     /\ Note(e, ClusterOf(drain, e.msg), o)
     /\ novel' = Append(novel, n)
     /\ age' = [age EXCEPT ![e.msg] = 0]
     /\ UNCHANGED closed

Process(e) ==
  /\ Len(log) < MaxProcessed
  /\ Duplicate(e) \/ Novel(e)

\* The cleanup ticker.
Cleanup ==
  /\ ~closed
  /\ fingerprints' = Unexpired
  /\ UNCHANGED <<drain, window, out, closed, log, novel, age>>

Tick ==
  /\ fingerprints' = [m \in DOMAIN fingerprints |->
                        IF fingerprints[m] < 0 THEN fingerprints[m] ELSE fingerprints[m] - 1]
  /\ age' = [m \in Msgs |-> IF age[m] > TTL THEN age[m] ELSE age[m] + 1]
  /\ UNCHANGED <<drain, window, out, closed, log, novel>>

Reset ==
  /\ fingerprints' = EmptyCache
  /\ drain' = EmptyDrain
  /\ window' = <<>>
  /\ out' = <<>>
  /\ log' = <<>>
  /\ novel' = <<>>
  /\ age' = [m \in Msgs |-> TTL + 1]
  /\ UNCHANGED closed

Close ==
  /\ ~closed
  /\ closed' = TRUE
  /\ UNCHANGED <<fingerprints, drain, window, out, log, novel, age>>

Next ==
  \/ \E e \in Entries : Process(e)
  \/ Cleanup
  \/ Tick
  \/ Reset
  \/ Close

Spec == Init /\ [][Next]_vars

-----------------------------------------------------------------------------
(* Properties. *)

\* The caches keep their bounds: a fingerprint never outlives its expiry by more than
\* the tick in which it is noticed, the window holds at most 3 * ContextLines entries,
\* and nothing is output that was not processed.
TypeOK ==
  /\ \A m \in DOMAIN fingerprints : m \in Msgs /\ fingerprints[m] \in -1..TTL
  /\ Len(window) <= 3 * ContextLines
  /\ ToSet(window) \cup ToSet(out) \cup ToSet(novel) \subseteq DOMAIN log
  /\ closed \in BOOLEAN
  /\ \A id \in {log[i].cluster : i \in DOMAIN log} : id \in 0..Len(drain.clusters)
  /\ age \in [Msgs -> 0..TTL + 1]

\* The next entry is one of message m.
Processing(e) == Len(log') = Len(log) + 1 /\ log'[Len(log')].entry = e

\* Within TTL of its last novel occurrence a message is output by no entry of its own,
\* whatever its level and whenever the cache was cleaned up.
NoRepeatWithinTTL ==
  [][\A e \in Entries : Processing(e) /\ age[e.msg] <= TTL => out' = <<>>]_vars

\* A severe entry whose message was not novel within the TTL is output, after the last
\* ContextLines novel entries in their order: neither a known template nor the sliding
\* of the window takes anything away.  It is output twice, as the last of its own context
\* and as itself; ContextThenTrigger is what processor.go says instead.
SevereIsOutputWithContext ==
  [][\A e \in Entries :
       Processing(e) /\ Severe(e) /\ age[e.msg] > TTL =>
         LET n == Len(log')
         IN out' = LastOf(ContextLines, novel) \o <<n, n>>]_vars

\* What processor.go says of it (line 237): "context entries first, then the
\* trigger/current entry".  The context that GetContext returns has the trigger in it.
ContextThenTrigger ==
  [][\A e \in Entries :
       Processing(e) /\ Severe(e) /\ age[e.msg] > TTL =>
         out' = LastOf(ContextLines, novel) \o <<Len(log')>>]_vars

\* Entry i was output, or an earlier entry of the same cluster was.
Represented(i) ==
  \/ log[i].emitted
  \/ \E j \in 1..i - 1 : /\ log[j].emitted
                         /\ log[j].cluster = log[i].cluster
                         /\ log[i].cluster # 0

\* Nothing is suppressed of which the reader has seen no example: an entry that was not
\* output has a predecessor in its cluster that was, or repeats a message for which
\* this holds.
SuppressedHasRepresentative ==
  \A i \in DOMAIN log :
    \/ Represented(i)
    \/ \E k \in 1..i - 1 : log[k].entry.msg = log[i].entry.msg /\ Represented(k)
=============================================================================
