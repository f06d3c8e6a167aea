------------------------------- MODULE Router -------------------------------
(***************************************************************************)
(* The output router (pkg/output/router.go).  Route fans a batch out to one *)
(* goroutine per output; each checks the output's circuit breaker, then     *)
(* sends with retries and exponential backoff, through the adapter of the   *)
(* output (module Sinks).  The processing loop is the only caller of Route, *)
(* so one Route runs at a time.                                             *)
(*                                                                          *)
(* Durations are ticks.  A timer is the time it has left: openFor[o] is how *)
(* long the circuit of o stays open, sleep[o] what remains of a backoff.    *)
(***************************************************************************)
EXTENDS Sinks

CONSTANTS
  Outputs,         \* names an adapter may have
  Configured,      \* outputs NewRouter created an adapter, config and breaker for
  Removable,       \* outputs a caller may remove or (re-)add while running
  Kind,            \* Kind[o]: OutputConfig.Type
  Batches,         \* the batches routed: sequences of entries
  Retries,         \* OutputConfig.Retries
  MaxFailures,     \* OutputConfig.MaxFailures
  Cooldown,        \* OutputConfig.Cooldown
  InitialBackoff,  \* OutputConfig.InitialBackoff
  MaxBackoff,      \* OutputConfig.MaxBackoff
  NoOutput         \* the "output" label of an entry that has none

\* validateConfig replaces every value <= 0 by a positive default.
ASSUME RouterAssumption ==
  /\ Configured \subseteq Outputs /\ Configured # {}
  /\ Removable \subseteq Outputs /\ ~(Configured \subseteq Removable)
  /\ NoOutput \notin Outputs
  /\ Kind \in [Outputs -> {"loki", "elasticsearch", "stdout"}]
  /\ \A b \in Batches : b \in Seq(Range(b)) /\ b # <<>>
  /\ {Retries, MaxFailures, Cooldown, InitialBackoff, MaxBackoff} \subseteq Nat \ {0}

VARIABLES
  adapters,   \* the keys of r.adapters
  failures,   \* circuitBreaker.failures
  openFor,    \* openUntil - now, while that is positive
  routing,    \* a Route call is in progress
  pc,         \* pc[o]: where the goroutine for o of the last Route is
  tries,      \* tries[o]: sends it has made
  backoff,    \* backoff[o]: its next pause
  sleep,      \* sleep[o]: what is left of its current pause
  entries,    \* the batch of the last Route
  routed,     \* how many of them it has found the outputs of
  lookup,     \* where determineOutputs is with the next one
  always,     \* the adapters there since its range over r.adapters began
  ever,       \* the adapters there at some time since then
  batch,      \* batch[o]: the positions in entries of what it gave to o
  outcome,    \* what it returned
  present,    \* history: how it found the outputs of entries[n], for n up to routed
  copies,     \* history: copies[o][n]: how often sink o took entries[n]
  failed,     \* history: failed[o]: sends of the last Route to o that returned an error
  streak      \* history: failed sends to o since the last good one, up to MaxFailures

breakers == <<failures, openFor, streak>>
senders  == <<pc, tries, backoff, sleep>>
ranging  == <<lookup, always, ever>>
work     == <<entries, routed, batch, present>>
got      == <<copies, failed>>
vars == <<adapters, breakers, senders, ranging, work, routing, outcome, got>>

Smaller(m, n) == IF m < n THEN m ELSE n
Larger(m, n) == IF m < n THEN n ELSE m

\* The zero OutputConfig of an adapter that AddAdapter brought in means one attempt.
Attempts(o) == IF o \in Configured THEN Retries ELSE 1

Init ==
  /\ adapters = Configured
  /\ failures = [o \in Outputs |-> 0]
  /\ openFor = [o \in Outputs |-> 0]
  /\ routing = FALSE
  /\ pc = [o \in Outputs |-> "none"]
  /\ tries = [o \in Outputs |-> 0]
  /\ backoff = [o \in Outputs |-> InitialBackoff]
  /\ sleep = [o \in Outputs |-> 0]
  /\ entries = <<>>
  /\ routed = 0
  /\ lookup = "label" /\ always = {} /\ ever = {}
  /\ batch = [o \in Outputs |-> <<>>]
  /\ outcome = "none"
  /\ present = <<>>
  /\ copies = [o \in Outputs |-> <<>>]
  /\ failed = [o \in Outputs |-> 0]
  /\ streak = [o \in Outputs |-> 0]

-----------------------------------------------------------------------------
(* Route *)

\* Route begins with a batch, and with no goroutine yet.
Route(b) ==
  /\ ~routing
  /\ routing' = TRUE
  /\ entries' = b
  /\ routed' = 0
  /\ batch' = [o \in Outputs |-> <<>>]
  /\ present' = <<>>
  /\ pc' = [o \in Outputs |-> "none"]
  /\ tries' = [o \in Outputs |-> 0]
  /\ backoff' = [o \in Outputs |-> InitialBackoff]
  /\ sleep' = [o \in Outputs |-> 0]
  /\ outcome' = "none"
  /\ copies' = [o \in Outputs |-> [n \in DOMAIN b |-> 0]]
  /\ failed' = [o \in Outputs |-> 0]
  /\ UNCHANGED <<adapters, breakers, ranging>>

Routing == routing /\ routed < Len(entries)

\* The entry that determineOutputs is at.
Entry == entries[routed + 1]

\* The outputs os of the entry are found.  After the last one, a goroutine starts for
\* each output that some entry goes to.
RouteEntryTo(os, how) ==
  /\ routed' = routed + 1
  /\ batch' = [o \in Outputs |-> IF o \in os THEN Append(batch[o], routed') ELSE batch[o]]
  /\ present' = Append(present, how)
  /\ pc' = [o \in Outputs |-> IF routed' = Len(entries) /\ batch'[o] # <<>> THEN "start" ELSE "none"]
  /\ lookup' = "label" /\ always' = {} /\ ever' = {}
  /\ UNCHANGED <<adapters, breakers, routing, tries, backoff, sleep, entries, outcome, got>>

ByLabel == [named |-> TRUE, always |-> {}, ever |-> {}]
ByRange == [named |-> FALSE, always |-> always, ever |-> ever]

\* Mutant of LabelFound: the outputs of the entries before are kept.
LabelFound_Keeps ==
  /\ Routing /\ lookup = "label"
  /\ Entry.output \in adapters
  /\ RouteEntryTo({Entry.output} \cup {o \in Outputs : batch[o] # <<>>}, ByLabel)

\* determineOutputs: hasAdapter, under the read lock, finds the name in the label.
LabelFound ==
  /\ Routing /\ lookup = "label"
  /\ Entry.output \in adapters
  /\ RouteEntryTo({Entry.output}, ByLabel)

\* It does not find it.  Adapters may come and go before and while r.adapters is ranged
\* over, which is done without the lock.
LabelMissed ==
  /\ Routing /\ lookup = "label"
  /\ Entry.output \notin adapters \cup {NoOutput}
  /\ lookup' = "missed"
  /\ UNCHANGED <<adapters, breakers, senders, always, ever, work, routing, outcome, got>>

RangeBegins ==
  /\ Routing
  /\ \/ lookup = "missed"
     \/ lookup = "label" /\ Entry.output = NoOutput
  /\ lookup' = "range"
  /\ always' = adapters /\ ever' = adapters
  /\ UNCHANGED <<adapters, breakers, senders, work, routing, outcome, got>>

\* The range yields what stays, and may yield what comes or goes.
RangeEnds(os) ==
  /\ Routing /\ lookup = "range"
  /\ always \subseteq os /\ os \subseteq ever
  /\ RouteEntryTo(os, ByRange)

\* wg.Wait is over; any error makes Route fail.
RouteReturns ==
  /\ routing /\ ~Routing
  /\ \A o \in Outputs : pc[o] \in {"none", "ok", "error"}
  /\ routing' = FALSE
  /\ outcome' = IF \E o \in Outputs : pc[o] = "error" THEN "error" ELSE "nil"
  /\ UNCHANGED <<adapters, breakers, senders, ranging, work, got>>

-----------------------------------------------------------------------------
(* sendToOutput, in the goroutine for o *)

\* Mutant of IsOpen: the circuit has no cooldown, only a success closes it.
IsOpen_Forever(o) == o \in Configured /\ streak[o] >= MaxFailures

IsOpen(o) == o \in Configured /\ openFor[o] > 0

\* Mutant of SendRefused: an adapter that is gone is waited for.
SendRefused_Waits(o) ==
  /\ pc[o] = "start"
  /\ o \in adapters /\ IsOpen(o)
  /\ pc' = [pc EXCEPT ![o] = "error"]
  /\ UNCHANGED <<adapters, breakers, routing, tries, backoff, sleep, ranging, work, outcome, got>>

\* The adapter is gone, or the circuit is open: an error without an attempt.
SendRefused(o) ==
  /\ pc[o] = "start"
  /\ o \notin adapters \/ IsOpen(o)
  /\ pc' = [pc EXCEPT ![o] = "error"]
  /\ UNCHANGED <<adapters, breakers, routing, tries, backoff, sleep, ranging, work, outcome, got>>

SendBegins(o) ==
  /\ pc[o] = "start"
  /\ o \in adapters
  /\ ~IsOpen(o)
  /\ pc' = [pc EXCEPT ![o] = "send"]
  /\ UNCHANGED <<adapters, breakers, routing, tries, backoff, sleep, ranging, work, outcome, got>>

\* Mutant of OnSuccess: the failures before a success still count.
OnSuccess_KeepsFailures(o) ==
  /\ UNCHANGED <<failures, openFor>>
  /\ streak' = [streak EXCEPT ![o] = 0]

\* onSuccess forgets the failures and leaves an open circuit open.
OnSuccess(o) ==
  /\ failures' = [failures EXCEPT ![o] = 0]
  /\ streak' = [streak EXCEPT ![o] = 0]
  /\ UNCHANGED openFor

\* onFailure opens the circuit at the MaxFailures-th failure and counts afresh.
OnFailure(o) ==
  LET trips == failures[o] + 1 >= MaxFailures
  IN IF o \in Configured
     THEN /\ failures' = [failures EXCEPT ![o] = IF trips THEN 0 ELSE @ + 1]
          /\ openFor' = [openFor EXCEPT ![o] = IF trips THEN Cooldown ELSE @]
          /\ streak' = [streak EXCEPT ![o] = Smaller(@ + 1, MaxFailures)]
     ELSE UNCHANGED breakers

\* The sink keeps what it took of the batch of o.
Takes(o, taken) ==
  copies' = [copies EXCEPT ![o] = [n \in DOMAIN @ |-> IF n \in taken THEN @[n] + 1 ELSE @[n]]]

\* Mutant of SendSucceeds: the loop goes on after a success while attempts are left.
SendSucceeds_NoBreak(o) ==
  /\ pc[o] = "send"
  /\ \E x \in Outcomes(Kind[o], entries, batch[o]) : x.ok /\ Takes(o, x.taken)
  /\ pc' = [pc EXCEPT ![o] = IF tries[o] + 1 >= Attempts(o) THEN "ok" ELSE "send"]
  /\ tries' = [tries EXCEPT ![o] = @ + 1]
  /\ OnSuccess(o)
  /\ UNCHANGED <<adapters, routing, backoff, sleep, ranging, work, outcome, failed>>

\* adapter.Send returns nil.
SendSucceeds(o) ==
  /\ pc[o] = "send"
  /\ pc' = [pc EXCEPT ![o] = "ok"]
  /\ tries' = [tries EXCEPT ![o] = @ + 1]
  /\ \E x \in Outcomes(Kind[o], entries, batch[o]) : x.ok /\ Takes(o, x.taken)
  /\ OnSuccess(o)
  /\ UNCHANGED <<adapters, routing, backoff, sleep, ranging, work, outcome, failed>>

\* Mutants of AfterFailure: the backoff has no ceiling; the last failed attempt falls
\* out of the loop without its error.
AfterFailure_NoCeiling(o) ==
  LET last == tries[o] + 1 >= Attempts(o)
  IN /\ tries' = [tries EXCEPT ![o] = @ + 1]
     /\ pc' = [pc EXCEPT ![o] = IF last THEN "error" ELSE "sleep"]
     /\ sleep' = [sleep EXCEPT ![o] = IF last THEN 0 ELSE backoff[o]]
     /\ backoff' = [backoff EXCEPT ![o] = IF last THEN @ ELSE 2 * @]

AfterFailure_Forgets(o) ==
  LET last == tries[o] + 1 >= Attempts(o)
  IN /\ tries' = [tries EXCEPT ![o] = @ + 1]
     /\ pc' = [pc EXCEPT ![o] = IF last THEN "ok" ELSE "sleep"]
     /\ sleep' = [sleep EXCEPT ![o] = IF last THEN 0 ELSE backoff[o]]
     /\ backoff' = [backoff EXCEPT ![o] = IF last THEN @ ELSE Smaller(2 * @, MaxBackoff)]

\* After a failed attempt: give up, or pause and double the next pause, which MaxBackoff
\* limits; it does not limit the first one.
AfterFailure(o) ==
  LET last == tries[o] + 1 >= Attempts(o)
  IN /\ tries' = [tries EXCEPT ![o] = @ + 1]
     /\ pc' = [pc EXCEPT ![o] = IF last THEN "error" ELSE "sleep"]
     /\ sleep' = [sleep EXCEPT ![o] = IF last THEN 0 ELSE backoff[o]]
     /\ backoff' = [backoff EXCEPT ![o] = IF last THEN @ ELSE Smaller(2 * @, MaxBackoff)]

\* adapter.Send returns an error.  The sink may have taken entries all the same, and the
\* next attempt sends the whole batch again.
SendFails(o) ==
  /\ pc[o] = "send"
  /\ failed' = [failed EXCEPT ![o] = @ + 1]
  /\ AfterFailure(o)
  /\ \E x \in Outcomes(Kind[o], entries, batch[o]) : ~x.ok /\ Takes(o, x.taken)
  /\ OnFailure(o)
  /\ UNCHANGED <<adapters, routing, ranging, work, outcome>>

\* The pause is over.  The breaker is not asked again.
Wake(o) ==
  /\ pc[o] = "sleep"
  /\ sleep[o] = 0
  /\ pc' = [pc EXCEPT ![o] = "send"]
  /\ UNCHANGED <<adapters, breakers, routing, tries, backoff, sleep, ranging, work, outcome, got>>

-----------------------------------------------------------------------------
(* Time, and a caller that changes the set of adapters. *)

Elapse(f) == [o \in Outputs |-> IF f[o] > 0 THEN f[o] - 1 ELSE 0]

Tick ==
  /\ \E o \in Outputs : openFor[o] > 0 \/ sleep[o] > 0
  /\ openFor' = Elapse(openFor)
  /\ sleep' = Elapse(sleep)
  /\ UNCHANGED <<adapters, failures, streak, routing, pc, tries, backoff, ranging, work, outcome,
                 got>>

AddAdapter(o) ==
  /\ o \in Removable
  /\ adapters' = adapters \cup {o}
  /\ ever' = IF lookup = "range" THEN ever \cup {o} ELSE ever
  /\ UNCHANGED <<breakers, senders, routing, lookup, always, work, outcome, got>>

\* The name's config and breaker stay; a send in progress keeps its adapter.
RemoveAdapter(o) ==
  /\ o \in Removable \cap adapters
  /\ adapters' = adapters \ {o}
  /\ always' = always \ {o}
  /\ UNCHANGED <<breakers, senders, routing, lookup, ever, work, outcome, got>>

-----------------------------------------------------------------------------

RouteEntry ==
  LabelFound \/ LabelMissed \/ RangeBegins \/ \E os \in SUBSET Outputs : RangeEnds(os)

SendStep(o) ==
  SendRefused(o) \/ SendBegins(o) \/ SendSucceeds(o) \/ SendFails(o) \/ Wake(o)

Next ==
  \/ \E b \in Batches : Route(b)
  \/ RouteEntry
  \/ RouteReturns
  \/ \E o \in Outputs : SendStep(o)
  \/ Tick
  \/ \E o \in Outputs : AddAdapter(o) \/ RemoveAdapter(o)

Spec == Init /\ [][Next]_vars

\* Time passes, goroutines run, and every adapter.Send returns (the HTTP clients
\* have timeouts); nothing is assumed of how it returns or of who calls Route.
LiveSpec ==
  /\ Spec
  /\ WF_vars(Tick)
  /\ WF_vars(RouteEntry \/ RouteReturns)
  /\ \A o \in Outputs : WF_vars(SendStep(o))

-----------------------------------------------------------------------------
(* Properties. *)

\* What is remembered of the search for the outputs of an entry.
Looks == [named : BOOLEAN, always : SUBSET Outputs, ever : SUBSET Outputs]

\* Attempts, pauses and failure counts stay within what the configuration allows:
\* in particular a breaker never rests at MaxFailures, and no pause but the first, which
\* may be any InitialBackoff, exceeds MaxBackoff.
TypeOK ==
  /\ adapters \subseteq Outputs
  /\ failures \in [Outputs -> 0..MaxFailures - 1]
  /\ openFor \in [Outputs -> 0..Cooldown]
  /\ routing \in BOOLEAN
  /\ pc \in [Outputs -> {"none", "start", "send", "sleep", "ok", "error"}]
  /\ tries \in [Outputs -> 0..Retries]
  /\ backoff \in [Outputs -> 0..Larger(InitialBackoff, MaxBackoff)]
  /\ sleep \in [Outputs -> 0..Larger(InitialBackoff, MaxBackoff)]
  /\ \A o \in Outputs : tries[o] > 1 => sleep[o] <= MaxBackoff
  /\ outcome \in {"none", "nil", "error"}
  /\ entries \in Seq(Range(entries))
  /\ routed \in 0..Len(entries)
  /\ lookup \in {"label", "missed", "range"} /\ always \subseteq ever /\ ever \subseteq Outputs
  /\ present \in [1..routed -> Looks]
  /\ batch \in [Outputs -> Seq(DOMAIN entries)]
  /\ copies \in [Outputs -> [DOMAIN entries -> 0..Retries]]
  /\ failed \in [Outputs -> 0..Retries]
  /\ streak \in [Outputs -> 0..MaxFailures]

\* Where entries[n] must go: to the adapter of its label, if hasAdapter found one, else to
\* all adapters that stayed while they were ranged over.  And where it may go.
MustReach(n) == IF present[n].named THEN {entries[n].output} ELSE present[n].always
MayReach(n) == IF present[n].named THEN {entries[n].output} ELSE present[n].ever

\* When Route returns nil, each entry is wherever it must go, although adapters come and
\* go between the two looks at r.adapters, and between them and the send: an output that
\* was refused, removed or given up on, a push refused by status and a bulk request with
\* failed items all show in the error.  Only stdout, which ignores its write errors, may
\* not have written it.
NilMeansDelivered ==
  outcome = "nil" =>
    \A n \in DOMAIN entries : \A o \in MustReach(n) : Kind[o] # "stdout" => copies[o][n] > 0

\* A sink has an entry twice only if a Send of it failed, and one time more for each: a
\* partly accepted request and a lost response duplicate entries, and nothing else does.
\* If hasAdapter found the adapter that its label names, it is at no other sink; if not, it
\* may be at any that was there while the adapters were ranged over, be it added since.
DuplicatesNeedFailures ==
  \A o \in Outputs : \A n \in DOMAIN entries :
    /\ copies[o][n] <= failed[o] + 1
    /\ copies[o][n] > 0 => o \in MayReach(n)

\* The circuit of an output opens only at the end of MaxFailures failed sends in a
\* row, however they are spread over Routes, pauses and earlier openings.
OpensOnlyOnStreak ==
  [][\A o \in Outputs :
       openFor[o] < openFor'[o] => streak'[o] = MaxFailures]_vars

\* Route ends, even if every sink fails for ever: the processing loop is not stuck.
RouteEnds == routing ~> ~routing

\* A sink that has recovered is used again: if sends to o stop failing and batches
\* for o keep coming, batches keep arriving at o, although its circuit may have been
\* open when it recovered.
RecoveredOutputIsUsed ==
  \A o \in Outputs \ Removable :
    /\ <>[][~SendFails(o)]_vars
    /\ []<>(pc[o] = "start")
    => []<>(\E n \in DOMAIN entries : copies[o][n] > 0)
=============================================================================
