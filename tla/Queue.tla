------------------------------- MODULE Queue -------------------------------
(***************************************************************************)
(* The bounded blocking queue (internal/queue/queue.go): one mutex and two  *)
(* condition variables.  A critical section is one step, up to a Wait.      *)
(* sync.Cond wakes its waiters in the order in which they came, and a woken *)
(* goroutine competes for the mutex with those that have just called.       *)
(*                                                                          *)
(* PushWithTimeout and PopWithTimeout run Push and Pop in a goroutine that  *)
(* they leave behind when the time is over.                                 *)
(***************************************************************************)
EXTENDS Naturals, Sequences, FiniteSets, Functions

CONSTANTS
  Threads,     \* goroutines that use the queue
  Capacity,    \* q.capacity
  MaxBatch,    \* the argument of PopBatch
  MaxEntries   \* bound: items pushed in one behaviour

ASSUME QueueAssumption ==
  /\ IsFiniteSet(Threads)
  /\ Capacity \in Nat
  /\ MaxBatch \in Nat \ {0}
  /\ MaxEntries \in Nat

Ops == {"push", "tryPush", "pop", "tryPop", "popBatch"}

VARIABLES
  items,      \* q.items
  closed,     \* q.closed
  waitEmpty,  \* who waits on q.notEmpty, the oldest first
  waitFull,   \* who waits on q.notFull
  pc,         \* pc[t]: idle, about to take the mutex, or in Wait
  op,         \* op[t]: what t is doing
  orphan,     \* orphan[t]: t's caller has given up
  accepted,   \* history: how many items were pushed
  taken,      \* history: the items that callers received
  gone        \* history: the items that were cleared or that orphans took

vars == <<items, closed, waitEmpty, waitFull, pc, op, orphan, accepted, taken, gone>>

Init ==
  /\ items = <<>>
  /\ closed = FALSE
  /\ waitEmpty = <<>>
  /\ waitFull = <<>>
  /\ pc = [t \in Threads |-> "idle"]
  /\ op = [t \in Threads |-> "pop"]
  /\ orphan = [t \in Threads |-> FALSE]
  /\ accepted = 0
  /\ taken = {}
  /\ gone = {}

-----------------------------------------------------------------------------
(* Calls, and the condition variables. *)

Pushing == {t \in Threads : pc[t] # "idle" /\ op[t] \in {"push", "tryPush"}}

Call(t, o) ==
  /\ pc[t] = "idle"
  /\ o \in {"push", "tryPush"} => accepted + Cardinality(Pushing) < MaxEntries
  /\ pc' = [pc EXCEPT ![t] = "ready"]
  /\ op' = [op EXCEPT ![t] = o]
  /\ orphan' = [orphan EXCEPT ![t] = FALSE]
  /\ UNCHANGED <<items, closed, waitEmpty, waitFull, accepted, taken, gone>>

\* The time-out of PushWithTimeout or PopWithTimeout: the goroutine goes on.
GiveUp(t) ==
  /\ pc[t] # "idle"
  /\ op[t] \in {"push", "pop"}
  /\ orphan' = [orphan EXCEPT ![t] = TRUE]
  /\ UNCHANGED <<items, closed, waitEmpty, waitFull, pc, op, accepted, taken, gone>>

\* t leaves the mutex for the place where; the threads of woken are told to go on.
Leave(t, where, woken) ==
  pc' = [u \in Threads |-> IF u = t THEN where ELSE IF u \in woken THEN "ready" ELSE pc[u]]

Oldest(w) == IF w = <<>> THEN {} ELSE {Head(w)}
WithoutOldest(w) == IF w = <<>> THEN w ELSE Tail(w)

\* t is done and signals q.notEmpty, or q.notFull.
SignalEmpty(t) ==
  /\ Leave(t, "idle", Oldest(waitEmpty))
  /\ waitEmpty' = WithoutOldest(waitEmpty)

SignalFull(t) ==
  /\ Leave(t, "idle", Oldest(waitFull))
  /\ waitFull' = WithoutOldest(waitFull)

\* Mutant of BroadcastFull: one waiter is told, as after a Pop.
BroadcastFull_One(t) == SignalFull(t)

BroadcastFull(t) ==
  /\ Leave(t, "idle", Range(waitFull))
  /\ waitFull' = <<>>

Fails(t) ==
  /\ Leave(t, "idle", {})
  /\ UNCHANGED <<items, waitEmpty, waitFull, accepted, taken, gone>>

-----------------------------------------------------------------------------
(* The critical sections. *)

Enters(t, ops) == pc[t] = "ready" /\ op[t] \in ops /\ UNCHANGED <<closed, op, orphan>>

HasRoom == Len(items) < Capacity

AppendItem(t) ==
  /\ Enters(t, {"push", "tryPush"})
  /\ HasRoom
  /\ items' = Append(items, accepted + 1)
  /\ accepted' = accepted + 1
  /\ SignalEmpty(t)
  /\ UNCHANGED <<waitFull, taken, gone>>

\* Mutant of PushItem: closed is not tested again after the wait.
PushItem_NotTested(t) == AppendItem(t)

\* Push and TryPush find room.
PushItem(t) == ~closed /\ AppendItem(t)

PushWaits(t) ==
  /\ Enters(t, {"push"})
  /\ ~closed
  /\ ~HasRoom
  /\ Leave(t, "waiting", {})
  /\ waitFull' = Append(waitFull, t)
  /\ UNCHANGED <<items, waitEmpty, accepted, taken, gone>>

PushFails(t) ==
  /\ Enters(t, {"push", "tryPush"})
  /\ closed \/ (op[t] = "tryPush" /\ ~HasRoom)
  /\ Fails(t)

\* Pop and TryPop take the oldest item; an orphan drops it.
PopItem(t) ==
  /\ Enters(t, {"pop", "tryPop"})
  /\ items # <<>>
  /\ items' = Tail(items)
  /\ IF orphan[t]
     THEN gone' = gone \cup {Head(items)} /\ UNCHANGED taken
     ELSE taken' = taken \cup {Head(items)} /\ UNCHANGED gone
  /\ SignalFull(t)
  /\ UNCHANGED <<waitEmpty, accepted>>

BatchLen == IF Len(items) > MaxBatch THEN MaxBatch ELSE Len(items)
Batch == SubSeq(items, 1, BatchLen)

PopBatch(t) ==
  /\ Enters(t, {"popBatch"})
  /\ items # <<>>
  /\ items' = SubSeq(items, BatchLen + 1, Len(items))
  /\ taken' = taken \cup Range(Batch)
  /\ BroadcastFull(t)
  /\ UNCHANGED <<waitEmpty, accepted, gone>>

PopWaits(t) ==
  /\ Enters(t, {"pop", "popBatch"})
  /\ items = <<>>
  /\ ~closed
  /\ Leave(t, "waiting", {})
  /\ waitEmpty' = Append(waitEmpty, t)
  /\ UNCHANGED <<items, waitFull, accepted, taken, gone>>

PopFails(t) ==
  /\ Enters(t, {"pop", "popBatch", "tryPop"})
  /\ items = <<>>
  /\ closed \/ op[t] = "tryPop"
  /\ Fails(t)

-----------------------------------------------------------------------------
(* Clear and Close, by anybody. *)

Clear ==
  /\ items' = <<>>
  /\ gone' = gone \cup Range(items)
  /\ pc' = [t \in Threads |-> IF t \in Range(waitFull) THEN "ready" ELSE pc[t]]
  /\ waitFull' = <<>>
  /\ UNCHANGED <<closed, waitEmpty, op, orphan, accepted, taken>>

\* Mutant of Close: it signals where it should broadcast.
Close_Signals ==
  /\ ~closed
  /\ closed' = TRUE
  /\ pc' = [t \in Threads |->
              IF t \in Oldest(waitEmpty) \cup Oldest(waitFull) THEN "ready" ELSE pc[t]]
  /\ waitEmpty' = WithoutOldest(waitEmpty)
  /\ waitFull' = WithoutOldest(waitFull)
  /\ UNCHANGED <<items, op, orphan, accepted, taken, gone>>

Close ==
  /\ ~closed
  /\ closed' = TRUE
  /\ pc' = [t \in Threads |-> IF pc[t] = "waiting" THEN "ready" ELSE pc[t]]
  /\ waitEmpty' = <<>>
  /\ waitFull' = <<>>
  /\ UNCHANGED <<items, op, orphan, accepted, taken, gone>>

-----------------------------------------------------------------------------

Section(t) ==
  \/ PushItem(t) \/ PushWaits(t) \/ PushFails(t)
  \/ PopItem(t) \/ PopBatch(t) \/ PopWaits(t) \/ PopFails(t)

Next ==
  \/ \E t \in Threads, o \in Ops : Call(t, o)
  \/ \E t \in Threads : GiveUp(t) \/ Section(t)
  \/ Clear
  \/ Close

Spec == Init /\ [][Next]_vars

\* Go's mutex is fair enough that who wants it gets it in the end.
LiveSpec == Spec /\ \A t \in Threads : WF_vars(Section(t))

-----------------------------------------------------------------------------
(* Properties. *)

Waiting == {t \in Threads : pc[t] = "waiting"}

\* The capacity holds, and the waiting goroutines are those on the lists of the
\* condition variables: producers on one, consumers on the other.
TypeOK ==
  /\ Len(items) <= Capacity
  /\ closed \in BOOLEAN
  /\ pc \in [Threads -> {"idle", "ready", "waiting"}]
  /\ op \in [Threads -> Ops]
  /\ orphan \in [Threads -> BOOLEAN]
  /\ Range(waitEmpty) = {t \in Waiting : op[t] \in {"pop", "popBatch"}}
  /\ Range(waitFull) = {t \in Waiting : op[t] = "push"}
  /\ accepted \in 0..MaxEntries

Ready(ops) == {t \in Threads : pc[t] = "ready" /\ op[t] \in ops}

\* No wake-up is lost: while a consumer waits, there is a woken or calling consumer on
\* its way for every item, and while a producer waits, there is a producer on its way
\* for every free place.  Single signals, broadcasts, barging calls, orphans and Clear
\* never leave a goroutine waiting for what is there.
NoLostWakeup ==
  /\ waitEmpty # <<>> => Len(items) <= Cardinality(Ready({"pop", "popBatch"}))
  /\ waitFull # <<>> => Capacity - Len(items) <= Cardinality(Ready({"push"}))

\* Like the ingestion buffer, the queue is a lossy FIFO queue: it delivers in the order
\* of Push, and only Clear and the orphan of a PopWithTimeout lose items.
Fifo == INSTANCE LossyFifo WITH
  open <- ~closed, pending <- Range(items), delivered <- taken, lost <- gone

ImplementsLossyFifo == Fifo!Spec

\* Close sets every blocked goroutine free.
CloseReleasesAll ==
  \A t \in Threads : closed /\ pc[t] # "idle" ~> pc[t] = "idle"
=============================================================================
