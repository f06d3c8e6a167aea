----------------------------- MODULE LossyFifo -----------------------------
(***************************************************************************)
(* What a queue of log entries promises its producer and its consumer,     *)
(* whatever it is built from.  An entry is the number under which it was   *)
(* accepted.  The queue takes entries while it is open, hands the consumer *)
(* the oldest ones it holds, and may lose a run of neighbours; it never    *)
(* delivers an entry twice, never delivers a lost one, and never goes back *)
(* behind an entry it has delivered.                                       *)
(***************************************************************************)
EXTENDS Naturals

CONSTANT MaxEntries   \* bound: entries accepted in one behaviour

VARIABLES
  open,       \* new entries may be accepted
  accepted,   \* how many entries were accepted
  pending,    \* the accepted entries still inside the queue
  delivered,  \* the entries handed to the consumer
  lost        \* the entries given up

vars == <<open, accepted, pending, delivered, lost>>

Init ==
  /\ open = TRUE
  /\ accepted = 0
  /\ pending = {}
  /\ delivered = {}
  /\ lost = {}

Accept ==
  /\ open
  /\ accepted < MaxEntries
  /\ accepted' = accepted + 1
  /\ pending' = pending \cup {accepted + 1}
  /\ UNCHANGED <<open, delivered, lost>>

\* The entries of S are the oldest ones pending.
Deliver(S) ==
  /\ \A s \in S, p \in pending \ S : s < p
  /\ pending' = pending \ S
  /\ delivered' = delivered \cup S
  /\ UNCHANGED <<open, accepted, lost>>

\* The entries of S are neighbours: nothing that stays lies between them.
Lose(S) ==
  /\ \A p \in pending \ S : (\A s \in S : p < s) \/ (\A s \in S : s < p)
  /\ pending' = pending \ S
  /\ lost' = lost \cup S
  /\ UNCHANGED <<open, accepted, delivered>>

Shut ==
  /\ open' = FALSE
  /\ UNCHANGED <<accepted, pending, delivered, lost>>

Next ==
  \/ Accept
  \/ Shut
  \/ \E S \in SUBSET pending : Deliver(S) \/ Lose(S)

Spec == Init /\ [][Next]_vars
=============================================================================
