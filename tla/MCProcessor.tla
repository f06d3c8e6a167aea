---------------------------- MODULE MCProcessor ----------------------------
(***************************************************************************)
(* Processor for TLC: three messages of one template, of which a rule may   *)
(* drop one, one of another template, and one without tokens.               *)
(*                                                                          *)
(* Entries that differ do not matter to who starts and stops the processor: *)
(* two callers meet two entries that say the same, one caller any three.    *)
(***************************************************************************)
EXTENDS Processor

CONSTANTS x, y, z, w, dash, p, q

MCTemplate == [c \in Contents |-> IF c \in {y, z} THEN x ELSE c]

Uniform == \A n \in 1..MaxEntries : content[n] = x

\* The second entry is the severe one.
MCInit == Init /\ content[2] \in {x, y, w}

MCNext ==
  \/ \E a \in Adders : AddEntry(a) /\ (Uniform => accepted' <= 2)
  \/ BatchProcessor
  \/ Cancel
  \/ \E c \in Contents : Expire(c)
  \/ \E k \in IF Uniform THEN {p, q} ELSE {p} : StopBegins(k) \/ StopStep(k)
  \/ \E k \in IF Uniform THEN {p, q} ELSE {p}, l \in Loops : StartBegins(k, l) \/ StartReturns(k, l)
  \/ \E l \in Loops : LoopStep(l)

MCSpec == MCInit /\ [][MCNext]_vars /\ Fairness
=============================================================================
