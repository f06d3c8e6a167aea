---------------------------- MODULE RateLimiter ----------------------------
(***************************************************************************)
(* The rate limiter (pkg/auth/ratelimit.go): a token bucket for each key,   *)
(* found under one lock and used under its own, and a cleanup that removes  *)
(* the buckets that were not refilled for five minutes.                     *)
(*                                                                          *)
(* Time is counted in ticks; a bucket knows the ticks since its last        *)
(* refill, up to OldAge, when it is full and old enough to be removed.      *)
(* Credit is what an ideal bucket of the same size holds, which fills with  *)
(* every tick and is never removed.                                         *)
(***************************************************************************)
EXTENDS Integers, FiniteSets

CONSTANTS
  Keys,            \* what getKey returns
  Requests,        \* requests in progress at the same time
  Burst,           \* config.BurstSize
  RequestsPerMin,  \* config.RequestsPerMin
  Minute,          \* ticks in a minute
  MaxExcess        \* bound: strays and tokens forgiven, past which no bucket is removed

\* With a burst of none, or a negative one, nothing ever gets through.
ASSUME RateLimiterAssumption ==
  /\ IsFiniteSet(Keys) /\ IsFiniteSet(Requests)
  /\ {RequestsPerMin, MaxExcess} \subseteq Nat
  /\ {Burst, Minute} \subseteq Nat \ {0}

Smaller(m, n) == IF m < n THEN m ELSE n
Larger(m, n) == IF m < n THEN n ELSE m

\* The part of a burst that five minutes do not bring in: none where they fill a bucket.
Unfilled == Larger(0, Burst - 5 * RequestsPerMin)

OldAge == Larger(5, Burst) * Minute + 1
Buckets == 1..Cardinality(Keys) + Cardinality(Requests)
None == 0

VARIABLES
  buckets,  \* rl.buckets: the bucket of each key, or None
  tokens,   \* tokens[b]: b.tokens
  age,      \* age[b]: ticks since b.lastRefill
  key,      \* key[r]: the key of request r
  held,     \* held[r]: the bucket that r has found and not yet used, or None
  stopped,  \* stopCleanup is closed
  credit,   \* history: credit[k], in shares of a token, Minute of them a token
  strays,   \* history: requests of k served by a removed bucket, since k's credit was full
  forgiven  \* history: Unfilled for each bucket of k that was removed, since then

limiterVars == <<buckets, tokens, age, key, held, stopped, credit, strays,
                 forgiven>>

LimiterInit ==
  /\ buckets = [k \in Keys |-> None]
  /\ tokens = [b \in Buckets |-> Burst]
  /\ age = [b \in Buckets |-> 0]
  /\ key \in [Requests -> Keys]
  /\ held = [r \in Requests |-> None]
  /\ stopped = FALSE
  /\ credit = [k \in Keys |-> Burst * Minute]
  /\ strays = [k \in Keys |-> 0]
  /\ forgiven = [k \in Keys |-> 0]

-----------------------------------------------------------------------------
(* allow *)

InUse == {buckets[k] : k \in Keys} \cup {held[r] : r \in Requests}
Fresh == CHOOSE b \in Buckets \ InUse : \A c \in Buckets \ InUse : b <= c

\* The first half, under rl.mu: the bucket of the key, a full one if there is none.
FindBucket(r, k) ==
  /\ held[r] = None
  /\ key' = [key EXCEPT ![r] = k]
  /\ IF buckets[k] # None
     THEN /\ held' = [held EXCEPT ![r] = buckets[k]]
          /\ UNCHANGED <<buckets, tokens, age>>
     ELSE /\ held' = [held EXCEPT ![r] = Fresh]
          /\ buckets' = [buckets EXCEPT ![k] = Fresh]
          /\ tokens' = [tokens EXCEPT ![Fresh] = Burst]
          /\ age' = [age EXCEPT ![Fresh] = 0]
  /\ UNCHANGED <<stopped, credit, strays, forgiven>>

\* The whole tokens that have come in since the last refill.
TokensToAdd(b) == (age[b] * RequestsPerMin) \div Minute

Refilled(b) == Smaller(Burst, tokens[b] + TokensToAdd(b))

\* Mutant of Refill: lastRefill is not updated.
Refill_KeepsTime(b, use) ==
  /\ tokens' = [tokens EXCEPT ![b] = Refilled(b) - use]
  /\ UNCHANGED age

\* Mutant of Refill: a refill that adds nothing counts as one.
Refill_Always(b, use) ==
  /\ tokens' = [tokens EXCEPT ![b] = Refilled(b) - use]
  /\ age' = [age EXCEPT ![b] = 0]

\* The refill, and the token that is used.
Refill(b, use) ==
  /\ tokens' = [tokens EXCEPT ![b] = Refilled(b) - use]
  /\ age' = [age EXCEPT ![b] = IF TokensToAdd(b) > 0 THEN 0 ELSE @]

\* The second half, under b.mu.
Allowed(r) ==
  /\ held[r] # None
  /\ Refilled(held[r]) > 0
  /\ Refill(held[r], 1)
  /\ credit' = [credit EXCEPT ![key[r]] = @ - Minute]
  /\ strays' = [strays EXCEPT ![key[r]] = IF buckets[key[r]] = held[r] THEN @ ELSE @ + 1]
  /\ held' = [held EXCEPT ![r] = None]
  /\ UNCHANGED <<buckets, key, stopped, forgiven>>

Refused(r) ==
  /\ held[r] # None
  /\ Refilled(held[r]) = 0
  /\ Refill(held[r], 0)
  /\ held' = [held EXCEPT ![r] = None]
  /\ UNCHANGED <<buckets, key, stopped, credit, strays, forgiven>>

-----------------------------------------------------------------------------
(* The cleanup goroutine, and time. *)

\* Mutant of Outdated: a bucket is removed after a minute.
Outdated_Early(b) == age[b] > Minute
Outdated(b) == age[b] > 5 * Minute

Removed(k) == buckets[k] # None /\ Outdated(buckets[k])

\* cleanup, which has something to remove.  The next request of the key finds a full
\* bucket, whatever the removed one lacked to be full.
Cleanup ==
  /\ ~stopped
  /\ \E k \in Keys : Removed(k)
  /\ \A k \in Keys : Removed(k) => strays[k] + forgiven[k] <= MaxExcess
  /\ buckets' = [k \in Keys |-> IF Removed(k) THEN None ELSE buckets[k]]
  /\ forgiven' = [k \in Keys |-> IF Removed(k) THEN forgiven[k] + Unfilled ELSE forgiven[k]]
  /\ UNCHANGED <<tokens, age, key, held, stopped, credit, strays>>

Stop ==
  /\ ~stopped
  /\ stopped' = TRUE
  /\ UNCHANGED <<buckets, tokens, age, key, held, credit, strays, forgiven>>

\* The histories of a key begin again when its ideal bucket is full.
Tick ==
  /\ age' = [b \in Buckets |-> IF b \in InUse THEN Smaller(OldAge, age[b] + 1) ELSE age[b]]
  /\ credit' = [k \in Keys |-> Smaller(Burst * Minute, credit[k] + RequestsPerMin)]
  /\ strays' = [k \in Keys |-> IF credit'[k] = Burst * Minute THEN 0 ELSE strays[k]]
  /\ forgiven' = [k \in Keys |-> IF credit'[k] = Burst * Minute THEN 0 ELSE forgiven[k]]
  /\ UNCHANGED <<buckets, tokens, key, held, stopped>>

-----------------------------------------------------------------------------

Use(r) == Allowed(r) \/ Refused(r)

LimiterNext ==
  \/ \E r \in Requests, k \in Keys : FindBucket(r, k)
  \/ \E r \in Requests : Use(r)
  \/ Cleanup
  \/ Stop
  \/ Tick

LimiterSpec == LimiterInit /\ [][LimiterNext]_limiterVars

\* Time passes, and a request that has its bucket gets the bucket's lock; nothing is
\* assumed of the cleanup.
LimiterLiveSpec ==
  /\ LimiterSpec
  /\ WF_limiterVars(Tick)
  /\ \A r \in Requests : WF_limiterVars(Use(r))

-----------------------------------------------------------------------------
(* Properties. *)

\* In no stretch of time does a key get a whole request more through than the burst and
\* the rate allow, but for
\*   - one for every request that was on its way when the cleanup removed its bucket;
\*   - the part of the burst that five minutes do not bring in, for every removal of its
\*     bucket: that much the bucket may lack to be full, and the key begins anew with a
\*     whole burst.  Where five minutes fill a bucket the cleanup gives nothing away.
\* The part of a token: lastRefill does not move while the bucket is full and less than
\* a token has come in, so the wait before the first use counts.
NeverMoreGenerous ==
  \A k \in Keys : credit[k] + Minute * (strays[k] + forgiven[k]) > -Minute

\* A client that keeps asking is served again and again, however impatiently it asks:
\* a refusal does not put off the next token.
KeepsServing ==
  \A k \in Keys :
    []<><<\E r \in Requests : Use(r) /\ key[r] = k>>_limiterVars
    => []<><<\E r \in Requests : Allowed(r) /\ key[r] = k>>_limiterVars
=============================================================================
