---------------------------- MODULE RateLimiter ----------------------------
(***************************************************************************)
(* The token bucket that caps the bytes per second of a transfer           *)
(* (snapdir-stores/src/transfer.rs): RateLimiter for tokio tasks and       *)
(* BlockingRateLimiter for rayon threads.  Their token arithmetic is the   *)
(* same, line for line; a worker here is either.                           *)
(*                                                                         *)
(* Time is a count of ticks, TicksPerSecond to the second.  A rate of r is *)
(* r tokens per tick, so the one second of burst the code allows           *)
(* (capacity = rate) is r * TicksPerSecond tokens.  A critical section of  *)
(* the bucket's mutex is one step.  A sleeper may wake late, never early.  *)
(***************************************************************************)
EXTENDS Integers

CONSTANTS Worker,         \* the workers sharing the limiter
          Sizes,          \* the object sizes they ask budget for, in tokens
          MaxRequests,    \* how many objects a worker transfers
          Rates,          \* the rates set_rate may install; 0 is unlimited
          TicksPerSecond

ASSUME RateLimiterAssumption ==
  /\ Sizes \subseteq Nat
  /\ MaxRequests \in Nat
  /\ Rates \subseteq Nat /\ Rates # {}
  /\ TicksPerSecond \in Nat \ {0}

VARIABLES rate,      \* tokens per tick, 0 when unlimited
          tokens,    \* the bucket's level at its last refill
          age,       \* ticks since last_refill; a second is as good as more
          need,      \* what a worker inside acquire is asking for, 0 outside
          nap,       \* how much longer it must sleep before it looks again
          left,      \* objects it still has to ask for
          budget     \* history: the level of a bucket refilled at every tick

bucket == <<rate, tokens, age>>
workers == <<need, nap, left>>
limiterVars == <<bucket, workers, budget>>

Least(a, b) == IF a < b THEN a ELSE b

\* The burst of a rate: one second's worth.
Capacity(r) == r * TicksPerSecond

CeilDiv(a, b) == (a + b - 1) \div b

\* Full at first, whether the limiter is limited or not.
LimiterInit ==
  /\ rate \in Rates
  /\ tokens = Capacity(rate)
  /\ age = 0
  /\ need = [w \in Worker |-> 0]
  /\ nap = [w \in Worker |-> 0]
  /\ left = [w \in Worker |-> MaxRequests]
  /\ budget = Capacity(rate)

RefillForgetful == Least(tokens, Capacity(rate))

\* The level acquire finds: what was there and what has dripped in since,
\* never more than the capacity.
Refill == Least(tokens + age * rate, Capacity(rate))

-----------------------------------------------------------------------------

\* A worker calls acquire(n); a request for nothing returns at once.
Call(w, n) ==
  /\ need[w] = 0 /\ left[w] > 0
  /\ left' = [left EXCEPT ![w] = @ - 1]
  /\ need' = [need EXCEPT ![w] = n]
  /\ UNCHANGED <<bucket, nap, budget>>

\* A turn of the loop that returns: the limiter is unlimited, or there is
\* enough in the bucket.
Grant(w) ==
  /\ need[w] > 0 /\ nap[w] = 0
  /\ \/ /\ rate = 0
        /\ UNCHANGED <<bucket, budget>>
     \/ /\ rate > 0
        /\ Refill >= need[w]
        /\ tokens' = Refill - need[w]
        /\ age' = 0
        /\ budget' = budget - need[w]
        /\ UNCHANGED rate
  /\ need' = [need EXCEPT ![w] = 0]
  /\ UNCHANGED <<nap, left>>

\* A turn of the loop that finds too little: the refill is kept, and the
\* worker sleeps for as long as the deficit takes to drip in.
Sleep(w) ==
  /\ need[w] > 0 /\ nap[w] = 0
  /\ rate > 0
  /\ Refill < need[w]
  /\ tokens' = Refill
  /\ age' = 0
  /\ nap' = [nap EXCEPT ![w] = CeilDiv(need[w] - Refill, rate)]
  /\ UNCHANGED <<rate, need, left, budget>>

\* set_rate with the bucket's clock left running: the time before the call
\* would be paid for at the new rate.
SetRateKeepsClock(r) ==
  /\ rate' = r
  /\ tokens' = IF r = 0 THEN 0
               ELSE IF rate = 0 THEN Capacity(r) ELSE Least(tokens, Capacity(r))
  /\ budget' = IF r = 0 \/ rate = 0 THEN Capacity(r) ELSE Least(budget, Capacity(r))
  /\ UNCHANGED <<age, workers>>

\* A live retune: no rate empties the bucket, the first rate after none fills
\* it, and a new rate clamps it; the bucket's clock restarts with a new rate.
SetRate(r) ==
  /\ rate' = r
  /\ \/ r = 0 /\ tokens' = 0 /\ UNCHANGED age
     \/ r > 0 /\ rate = 0 /\ tokens' = Capacity(r) /\ age' = 0
     \/ r > 0 /\ rate > 0 /\ tokens' = Least(tokens, Capacity(r)) /\ age' = 0
  /\ budget' = IF r = 0 \/ rate = 0 THEN Capacity(r) ELSE Least(budget, Capacity(r))
  /\ UNCHANGED workers

\* A tick of the clock.
Tick ==
  /\ age' = Least(age + 1, TicksPerSecond)
  /\ nap' = [w \in Worker |-> IF nap[w] = 0 THEN 0 ELSE nap[w] - 1]
  /\ budget' = Least(budget + rate, Capacity(rate))
  /\ UNCHANGED <<rate, tokens, need, left>>

LimiterNext ==
  \/ \E w \in Worker : \E n \in Sizes : Call(w, n)
  \/ \E w \in Worker : Grant(w) \/ Sleep(w)
  \/ \E r \in Rates : SetRate(r)
  \/ Tick

LimiterSpec == LimiterInit /\ [][LimiterNext]_limiterVars

\* Time passes, and a worker that is to run again and again in a tick that has
\* something to credit does run: the controller's retunes restart the bucket's
\* clock, but with a sleep's resolution of a millisecond and a ticker that is
\* free to drift a worker does not wake for ever in the very tick of a retune.
LimiterFairSpec ==
  /\ LimiterSpec
  /\ WF_limiterVars(Tick)
  /\ \A w \in Worker : SF_limiterVars((rate = 0 \/ age > 0) /\ (Grant(w) \/ Sleep(w)))

-----------------------------------------------------------------------------

\* The bucket holds between nothing and one second of its rate
\* (transfer.rs, the Bucket struct).
LimiterTypeOK ==
  /\ rate \in Rates
  /\ tokens \in 0..Capacity(rate)
  /\ age \in 0..TicksPerSecond
  /\ need \in [Worker -> Sizes \union {0}]
  /\ nap \in [Worker -> Nat]
  /\ left \in [Worker -> 0..MaxRequests]
  /\ budget \in Int

\* What was granted never exceeds one burst plus what the rate paid for, over
\* any stretch of time and across retunes: a bucket refilled at every tick,
\* at the rate of that tick, and charged for every grant never goes below
\* zero.  The lazy refill of acquire never credits the same time twice, nor
\* credits time at a rate that did not hold in it.  With the types of the
\* state, among them that the bucket never holds more than it may.
BudgetRespected ==
  /\ LimiterTypeOK
  /\ rate > 0 => budget >= 0

\* A request no larger than one second's budget is served: acquire returns,
\* though others compete for the bucket and though the controller retunes it
\* for ever, and throws away with every retune the time not yet credited.
BudgetServed ==
  \A w \in Worker : need[w] > 0 ~> need[w] = 0
=============================================================================
