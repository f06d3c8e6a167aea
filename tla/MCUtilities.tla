---------------------------- MODULE MCUtilities ----------------------------
(***************************************************************************)
(* Queue and RateLimiter for TLC: a behaviour is one of the queue or one of *)
(* the limiter, which share nothing.  The limiter is stopped when it is     *)
(* empty, and no request comes after that: what a stopped limiter does, a   *)
(* running one also does as long as there is no cleanup.                    *)
(***************************************************************************)
EXTENDS Queue, RateLimiter

VARIABLE subject  \* what the behaviour is about

MCInit == Init /\ LimiterInit /\ subject \in {"queue", "limiter"}

OfQueue == subject = "queue" /\ UNCHANGED <<subject, limiterVars>>
OfLimiter == subject = "limiter" /\ UNCHANGED <<subject, vars>>

MCNext ==
  \/ \E t \in Threads, o \in Ops : OfQueue /\ Call(t, o)
  \/ \E t \in Threads : OfQueue /\ GiveUp(t)
  \/ \E t \in Threads : OfQueue /\ Section(t)
  \/ OfQueue /\ Clear
  \/ OfQueue /\ Close
  \/ \E r \in Requests, k \in Keys : OfLimiter /\ ~stopped /\ FindBucket(r, k)
  \/ \E r \in Requests : OfLimiter /\ Use(r)
  \/ OfLimiter /\ Cleanup
  \/ OfLimiter /\ Stop /\ \A k \in Keys : buckets[k] = None
  \/ OfLimiter /\ Tick

MCSpec ==
  /\ MCInit
  /\ [][MCNext]_<<vars, limiterVars, subject>>
  /\ \A t \in Threads : WF_vars(OfQueue /\ Section(t))
  /\ WF_limiterVars(OfLimiter /\ Tick)
  /\ \A r \in Requests : WF_limiterVars(OfLimiter /\ Use(r))
=============================================================================
