-------------------------- MODULE FlowControlProofs --------------------------
(***************************************************************************)
(* The two throttles every transfer passes through and the controller that *)
(* retunes them, each a model with a state of its own.                     *)
(*                                                                         *)
(* The permits of an AdaptiveGate, for any number of transfers and any     *)
(* sequence of retunes: none is made or lost on the async path, the        *)
(* blocking pool offers exactly what its limit leaves over, and no wakeup  *)
(* is lost.                                                                *)
(*                                                                         *)
(* The token bucket of a RateLimiter, for any number of workers, sizes,    *)
(* rates and ticks to the second: the lazy refill of acquire grants no     *)
(* more than a bucket would that is refilled at every tick.                *)
(*                                                                         *)
(* The control law and its driver, for any options, backend, memory,       *)
(* operations and lateness of a tick: the limit in force stays inside the  *)
(* memory budget, no retune lifts the rate cap, and no limit is raised     *)
(* during a cooldown.                                                      *)
(***************************************************************************)
EXTENDS AdaptiveGate, RateLimiter, Controller, FiniteSetTheorems, SequenceTheorems,
        WellFoundedInduction, TLAPS

-----------------------------------------------------------------------------
(* The gate.                                                               *)

\* What set_limit still has to move: permits to add while it grows, permits
\* to remove while it shrinks, and nothing once it turns to the blocking pool.
DeltaSigned ==
    /\ tick \in {"grow", "add"} => delta >= 0
    /\ tick \in {"shrink", "owe"} => delta <= 0
    /\ tick \in {"idle", "blocking", "notify"} => delta = 0

\* The inductive invariant.
IInv ==
    /\ TypeOK
    /\ DeltaSigned
    /\ PermitsConserved
    /\ BlockingExact
    /\ NoLostWakeup

-----------------------------------------------------------------------------

\* The sets of transfers the counters stand for are finite, and their sizes
\* are numbers.
LEMMA FiniteWork ==
    /\ IsFiniteSet(Holders) /\ Cardinality(Holders) \in Nat
    /\ IsFiniteSet(BlockingHolders) /\ Cardinality(BlockingHolders) \in Nat
    /\ IsFiniteSet(Awake) /\ Cardinality(Awake) \in Nat
<1>1. Holders \subseteq Task
  BY DEF Holders
<1>2. BlockingHolders \subseteq Thread /\ Awake \subseteq Thread
  BY DEF BlockingHolders, Awake
<1>3. IsFiniteSet(Holders) /\ IsFiniteSet(BlockingHolders) /\ IsFiniteSet(Awake)
  BY <1>1, <1>2, WorkAssumption, FS_Subset
<1> QED
  BY <1>3, FS_CardinalityType

\* A fresh gate satisfies the invariant: every permit is in its pool and
\* nobody holds or awaits one (AdaptiveGate::new).
LEMMA InitInvariant == Init => IInv
<1> SUFFICES ASSUME Init PROVE IInv
  OBVIOUS
<1> USE CeilingAssumption, StartAssumption
<1>1. TypeOK /\ DeltaSigned
  BY DEF Init, TypeOK, DeltaSigned
<1>2. Holders = {} /\ BlockingHolders = {}
  BY DEF Init, Holders, BlockingHolders
<1>3. Cardinality(Holders) = 0 /\ Cardinality(BlockingHolders) = 0
  BY <1>2, FS_EmptySet
<1>4. PermitsConserved /\ BlockingExact
  BY <1>3 DEF Init, PermitsConserved, BlockingExact
<1>5. NoLostWakeup
  BY DEF Init, NoLostWakeup
<1> QED
  BY <1>1, <1>4, <1>5 DEF IInv

-----------------------------------------------------------------------------

\* Every step keeps the types, and the sign of what set_limit is moving.
LEMMA TypeStep ==
    ASSUME IInv, [Next]_vars PROVE TypeOK' /\ DeltaSigned'
<1> USE CeilingAssumption, StartAssumption
<1> USE DEF IInv, TypeOK, DeltaSigned, async, ticker, blocking
<1>1. ASSUME NEW t \in Task, TaskStep(t) PROVE TypeOK' /\ DeltaSigned'
  <2>1. CASE Acquire(t)
    BY <2>1 DEF Acquire
  <2>2. CASE LoadDebt(t)
    BY <2>2 DEF LoadDebt
  <2>3. CASE ReturnPermit(t)
    BY <2>3 DEF ReturnPermit
  <2>4. CASE PayDebt(t)
    BY <2>4 DEF PayDebt
  <2>5. CASE RetryDebt(t)
    BY <2>5 DEF RetryDebt
  <2> QED
    BY <1>1, <2>1, <2>2, <2>3, <2>4, <2>5 DEF TaskStep
<1>2. ASSUME NEW n \in 1..Ceiling, SwapLimit(n) PROVE TypeOK' /\ DeltaSigned'
  BY <1>2 DEF SwapLimit
<1>3. CASE SetLimitStep
  <2>1. CASE TakeDebt
    BY <2>1 DEF TakeDebt
  <2>2. CASE AddPermits
    BY <2>2 DEF AddPermits
  <2>3. CASE ForgetPermit
    BY <2>3 DEF ForgetPermit
  <2>4. CASE StopForgetting
    BY <2>4 DEF StopForgetting
  <2>5. CASE AddDebt
    BY <2>5 DEF AddDebt
  <2>6. CASE SetBlocking
    BY <2>6 DEF SetBlocking
  <2>7. CASE NotifyAll
    BY <2>7 DEF NotifyAll
  <2> QED
    BY <1>3, <2>1, <2>2, <2>3, <2>4, <2>5, <2>6, <2>7 DEF SetLimitStep
<1>4. ASSUME NEW t \in Thread, ThreadStep(t) \/ SpuriousWakeup(t)
      PROVE  TypeOK' /\ DeltaSigned'
  <2>1. CASE AcquireBlocking(t)
    BY <2>1 DEF AcquireBlocking
  <2>2. CASE DropBlocking(t)
    <3>1. inflight # 0
      <4>1. t \in BlockingHolders
        BY <2>2 DEF DropBlocking, BlockingHolders
      <4>2. Cardinality(BlockingHolders) # 0
        BY <4>1, FiniteWork, FS_EmptySet
      <4> QED
        BY <4>2 DEF BlockingExact
    <3> QED
      BY <2>2, <3>1 DEF DropBlocking
  <2>3. CASE NotifyOne(t)
    BY <2>3 DEF NotifyOne
  <2>4. CASE SpuriousWakeup(t)
    BY <2>4 DEF SpuriousWakeup
  <2> QED
    BY <1>4, <2>1, <2>2, <2>3, <2>4 DEF ThreadStep
<1>5. CASE UNCHANGED vars
  BY <1>5 DEF vars
<1> QED
  BY <1>1, <1>2, <1>3, <1>4, <1>5 DEF Next

-----------------------------------------------------------------------------

\* A transfer that joins or leaves a set of holders moves its size by one.
LEMMA Joins ==
    ASSUME NEW S, NEW T, NEW t, IsFiniteSet(S), t \notin S, T = S \cup {t}
    PROVE  Cardinality(T) = Cardinality(S) + 1
BY FS_AddElement

LEMMA Leaves ==
    ASSUME NEW S, NEW T, NEW t, IsFiniteSet(S), t \in S, T = S \ {t}
    PROVE  Cardinality(T) = Cardinality(S) - 1
BY FS_RemoveElement

\* Every step conserves the async permits: a drop that races set_limit either
\* returns its permit or pays one debt, and set_limit accounts for each permit
\* it adds, forgets or comes to be owed.
LEMMA PermitsStep ==
    ASSUME IInv, [Next]_vars PROVE PermitsConserved'
<1> USE DEF IInv, TypeOK, PermitsConserved, async, ticker, blocking
<1> USE FiniteWork, CeilingAssumption
<1>1. ASSUME NEW t \in Task, TaskStep(t) PROVE PermitsConserved'
  <2>1. CASE Acquire(t)
    <3>1. t \notin Holders /\ Holders' = Holders \cup {t}
      BY <2>1 DEF Acquire, Holders
    <3>2. Cardinality(Holders') = Cardinality(Holders) + 1
      BY <3>1, Joins
    <3> QED
      BY <2>1, <3>2 DEF Acquire
  <2>2. CASE LoadDebt(t) \/ RetryDebt(t)
    <3>1. Holders' = Holders
      BY <2>2 DEF LoadDebt, RetryDebt, Holders
    <3> QED
      BY <2>2, <3>1 DEF LoadDebt, RetryDebt
  <2>3. CASE ReturnPermit(t) \/ PayDebt(t)
    <3>1. t \in Holders /\ Holders' = Holders \ {t}
      BY <2>3 DEF ReturnPermit, PayDebt, Holders
    <3>2. Cardinality(Holders') = Cardinality(Holders) - 1
      BY <3>1, Leaves
    <3> QED
      BY <2>3, <3>2 DEF ReturnPermit, PayDebt
  <2> QED
    BY <1>1, <2>1, <2>2, <2>3 DEF TaskStep
<1>2. Holders' = Holders \/ ~UNCHANGED task
  BY DEF Holders
<1>3. ASSUME NEW n \in 1..Ceiling, SwapLimit(n) PROVE PermitsConserved'
  BY <1>2, <1>3 DEF SwapLimit, DeltaSigned
<1>4. CASE SetLimitStep
  <2>1. CASE TakeDebt
    BY <1>2, <2>1 DEF TakeDebt
  <2>2. CASE AddPermits
    BY <1>2, <2>2 DEF AddPermits
  <2>3. CASE ForgetPermit
    BY <1>2, <2>3 DEF ForgetPermit
  <2>4. CASE StopForgetting
    BY <1>2, <2>4 DEF StopForgetting
  <2>5. CASE AddDebt
    BY <1>2, <2>5 DEF AddDebt
  <2>6. CASE SetBlocking
    BY <1>2, <2>6 DEF SetBlocking
  <2>7. CASE NotifyAll
    BY <1>2, <2>7 DEF NotifyAll
  <2> QED
    BY <1>4, <2>1, <2>2, <2>3, <2>4, <2>5, <2>6, <2>7 DEF SetLimitStep
<1>5. ASSUME NEW t \in Thread, ThreadStep(t) \/ SpuriousWakeup(t)
      PROVE  PermitsConserved'
  <2>1. UNCHANGED <<limit, async, ticker>>
    BY <1>5 DEF ThreadStep, AcquireBlocking, DropBlocking, NotifyOne, SpuriousWakeup
  <2> QED
    BY <1>2, <2>1
<1>6. CASE UNCHANGED vars
  BY <1>2, <1>6 DEF vars
<1> QED
  BY <1>1, <1>3, <1>4, <1>5, <1>6 DEF Next

\* Every step keeps the blocking pool exact.
LEMMA BlockingStep ==
    ASSUME IInv, [Next]_vars PROVE BlockingExact'
<1> USE DEF IInv, TypeOK, BlockingExact, async, ticker, blocking
<1> USE FiniteWork
<1>1. ASSUME UNCHANGED blocking PROVE BlockingExact'
  BY <1>1 DEF BlockingHolders
<1>2. CASE SetBlocking
  <2>1. BlockingHolders' = BlockingHolders
    BY <1>2 DEF SetBlocking, BlockingHolders
  <2> QED
    BY <1>2, <2>1 DEF SetBlocking
<1>3. CASE NotifyAll
  <2>1. BlockingHolders' = BlockingHolders
    BY <1>3 DEF NotifyAll, BlockingHolders
  <2> QED
    BY <1>3, <2>1 DEF NotifyAll
<1>4. ASSUME NEW t \in Thread, AcquireBlocking(t) PROVE BlockingExact'
  <2>1. CASE available > 0
    <3>1. t \notin BlockingHolders /\ BlockingHolders' = BlockingHolders \cup {t}
      BY <1>4, <2>1 DEF AcquireBlocking, BlockingHolders
    <3>2. Cardinality(BlockingHolders') = Cardinality(BlockingHolders) + 1
      BY <3>1, Joins
    <3> QED
      BY <1>4, <2>1, <3>2 DEF AcquireBlocking
  <2>2. CASE ~(available > 0)
    <3>1. BlockingHolders' = BlockingHolders
      BY <1>4, <2>2 DEF AcquireBlocking, BlockingHolders
    <3> QED
      BY <1>4, <2>2, <3>1 DEF AcquireBlocking
  <2> QED
    BY <2>1, <2>2
<1>5. ASSUME NEW t \in Thread, DropBlocking(t) PROVE BlockingExact'
  <2>1. t \in BlockingHolders /\ BlockingHolders' = BlockingHolders \ {t}
    BY <1>5 DEF DropBlocking, BlockingHolders
  <2>2. Cardinality(BlockingHolders') = Cardinality(BlockingHolders) - 1
    BY <2>1, Leaves
  <2>3. inflight' = inflight - 1 /\ inflight # 0
    BY <1>5, <2>1, FS_EmptySet DEF DropBlocking
  <2> QED
    BY <1>5, <2>2, <2>3 DEF DropBlocking
<1>6. ASSUME NEW t \in Thread, NotifyOne(t) \/ SpuriousWakeup(t) PROVE BlockingExact'
  <2>1. BlockingHolders' = BlockingHolders
    BY <1>6 DEF NotifyOne, SpuriousWakeup, BlockingHolders
  <2> QED
    BY <1>6, <2>1 DEF NotifyOne, SpuriousWakeup
<1>7. ASSUME NEW t \in Task, TaskStep(t) PROVE BlockingExact'
  BY <1>1, <1>7 DEF TaskStep, Acquire, LoadDebt, ReturnPermit, PayDebt, RetryDebt
<1>8. ASSUME NEW n \in 1..Ceiling, SwapLimit(n) PROVE BlockingExact'
  BY <1>1, <1>8 DEF SwapLimit
<1>9. CASE TakeDebt \/ AddPermits \/ ForgetPermit \/ StopForgetting \/ AddDebt
  BY <1>1, <1>9 DEF TakeDebt, AddPermits, ForgetPermit, StopForgetting, AddDebt
<1>10. CASE UNCHANGED vars
  BY <1>1, <1>10 DEF vars
<1> QED
  BY <1>2, <1>3, <1>4, <1>5, <1>6, <1>7, <1>8, <1>9, <1>10
     DEF Next, SetLimitStep, ThreadStep

\* No step loses a wakeup: a thread goes to sleep only when nothing is on
\* offer, a permit is put on offer by a thread that then notifies, and a grown
\* limit is followed by notify_all.
LEMMA WakeupStep ==
    ASSUME IInv, [Next]_vars PROVE NoLostWakeup'
<1> DEFINE Asleep == \E t \in Thread : thread[t] = "asleep"
<1> USE DEF IInv, TypeOK, async, ticker, blocking
<1> USE FiniteWork, CeilingAssumption
<1>0. /\ NoLostWakeup <=> (Asleep /\ tick # "notify" => available <= Cardinality(Awake))
      /\ NoLostWakeup' <=> (Asleep' /\ tick' # "notify" => available' <= Cardinality(Awake'))
  BY DEF NoLostWakeup
<1>1. ASSUME UNCHANGED <<thread, available>>, tick' # "notify" => tick # "notify"
      PROVE  NoLostWakeup'
  BY <1>0, <1>1 DEF Awake
<1>2. CASE SetBlocking
  <2>1. CASE limit > blimit
    BY <1>0, <1>2, <2>1 DEF SetBlocking
  <2>2. CASE ~(limit > blimit)
    <3>1. available' <= available /\ available' \in Nat
      BY <1>2, <2>2 DEF SetBlocking, BlockingExact
    <3>2. Awake' = Awake /\ (Asleep' <=> Asleep) /\ tick # "notify"
      BY <1>2 DEF SetBlocking, Awake
    <3> QED
      BY <1>0, <3>1, <3>2
  <2> QED
    BY <2>1, <2>2
<1>3. CASE NotifyAll
  BY <1>0, <1>3 DEF NotifyAll
<1>4. ASSUME NEW t \in Thread, AcquireBlocking(t) PROVE NoLostWakeup'
  <2>1. CASE available > 0
    <3>1. t \in Awake /\ Awake' = Awake \ {t}
      BY <1>4, <2>1 DEF AcquireBlocking, Awake
    <3>2. Cardinality(Awake') = Cardinality(Awake) - 1
      BY <3>1, Leaves
    <3>3. Asleep' => Asleep
      BY <1>4, <2>1 DEF AcquireBlocking
    <3>4. available' = available - 1 /\ tick' = tick
      BY <1>4, <2>1 DEF AcquireBlocking
    <3> QED
      BY <1>0, <3>2, <3>3, <3>4
  <2>2. CASE ~(available > 0)
    <3>1. available' = 0
      BY <1>4, <2>2 DEF AcquireBlocking
    <3>2. Awake' \subseteq Thread
      BY DEF Awake
    <3>3. Cardinality(Awake') \in Nat
      BY <3>2, WorkAssumption, FS_Subset, FS_CardinalityType
    <3> QED
      BY <1>0, <3>1, <3>3
  <2> QED
    BY <2>1, <2>2
<1>5. ASSUME NEW t \in Thread, DropBlocking(t) PROVE NoLostWakeup'
  <2>1. (Asleep' => Asleep) /\ tick' = tick
    BY <1>5 DEF DropBlocking
  <2>2. CASE available + inflight' < blimit
    <3>1. t \notin Awake /\ Awake' = Awake \cup {t}
      BY <1>5, <2>2 DEF DropBlocking, Awake
    <3>2. Cardinality(Awake') = Cardinality(Awake) + 1
      BY <3>1, Joins
    <3>3. available' = available + 1
      BY <1>5, <2>2 DEF DropBlocking
    <3> QED
      BY <1>0, <2>1, <3>2, <3>3
  <2>3. CASE ~(available + inflight' < blimit)
    <3>1. Awake' = Awake /\ available' = available
      BY <1>5, <2>3 DEF DropBlocking, Awake
    <3> QED
      BY <1>0, <2>1, <3>1
  <2> QED
    BY <2>2, <2>3
<1>6. ASSUME NEW t \in Thread, NotifyOne(t) PROVE NoLostWakeup'
  <2>1. available' = available /\ tick' = tick
    BY <1>6 DEF NotifyOne
  <2>2. CASE ~Asleep
    <3>1. ~Asleep'
      BY <1>6, <2>2 DEF NotifyOne
    <3> QED
      BY <1>0, <3>1
  <2>3. CASE Asleep
    <3>1. PICK u \in Thread : thread[u] = "asleep"
                 /\ thread' = [thread EXCEPT ![t] = "done", ![u] = "start"]
      BY <1>6, <2>3 DEF NotifyOne
    <3>2. t \in Awake /\ u \notin Awake /\ Awake' = (Awake \ {t}) \cup {u} /\ u \notin Awake \ {t}
      BY <1>6, <3>1 DEF NotifyOne, Awake
    <3>3. IsFiniteSet(Awake \ {t}) /\ Cardinality(Awake \ {t}) = Cardinality(Awake) - 1
      BY <3>2, FS_RemoveElement
    <3>4. Cardinality(Awake') = Cardinality(Awake \ {t}) + 1
      BY <3>2, <3>3, Joins
    <3> QED
      BY <1>0, <2>1, <2>3, <3>3, <3>4
  <2> QED
    BY <2>2, <2>3
<1>7. ASSUME NEW t \in Thread, SpuriousWakeup(t) PROVE NoLostWakeup'
  <2>1. t \notin Awake /\ Awake' = Awake \cup {t}
    BY <1>7 DEF SpuriousWakeup, Awake
  <2>2. Cardinality(Awake') = Cardinality(Awake) + 1
    BY <2>1, Joins
  <2>3. Asleep /\ available' = available /\ tick' = tick
    BY <1>7 DEF SpuriousWakeup
  <2> QED
    BY <1>0, <2>2, <2>3
<1>8. ASSUME NEW t \in Task, TaskStep(t) PROVE NoLostWakeup'
  BY <1>1, <1>8 DEF TaskStep, Acquire, LoadDebt, ReturnPermit, PayDebt, RetryDebt
<1>9. ASSUME NEW n \in 1..Ceiling, SwapLimit(n) PROVE NoLostWakeup'
  BY <1>1, <1>9 DEF SwapLimit
<1>10. CASE TakeDebt \/ AddPermits \/ ForgetPermit \/ StopForgetting \/ AddDebt
  BY <1>1, <1>10 DEF TakeDebt, AddPermits, ForgetPermit, StopForgetting, AddDebt
<1>11. CASE UNCHANGED vars
  BY <1>1, <1>11 DEF vars
<1> QED
  BY <1>2, <1>3, <1>4, <1>5, <1>6, <1>7, <1>8, <1>9, <1>10, <1>11
     DEF Next, SetLimitStep, ThreadStep

-----------------------------------------------------------------------------

\* The invariant holds in every reachable state of a gate.
THEOREM Invariance == Spec => []IInv
<1>1. Init => IInv
  BY InitInvariant
<1>2. IInv /\ [Next]_vars => IInv'
  BY TypeStep, PermitsStep, BlockingStep, WakeupStep DEF IInv
<1> QED
  BY <1>1, <1>2, PTL DEF Spec

\* The counters and states of a gate keep their types: in particular neither
\* pool and no debt ever goes below zero.
THEOREM TypeCorrect == Spec => []TypeOK
<1>1. IInv => TypeOK
  BY DEF IInv
<1> QED
  BY <1>1, Invariance, PTL

\* No async permit is made or lost, for any number of tasks and retunes.
THEOREM PermitsStayConserved == Spec => []PermitsConserved
<1>1. IInv => PermitsConserved
  BY DEF IInv
<1> QED
  BY <1>1, Invariance, PTL

\* The blocking pool always offers exactly what its limit leaves over.
THEOREM BlockingStaysExact == Spec => []BlockingExact
<1>1. IInv => BlockingExact
  BY DEF IInv
<1> QED
  BY <1>1, Invariance, PTL

\* No thread sleeps on a permit that nobody will wake it for.
THEOREM NoWakeupIsLost == Spec => []NoLostWakeup
<1>1. IInv => NoLostWakeup
  BY DEF IInv
<1> QED
  BY <1>1, Invariance, PTL

-----------------------------------------------------------------------------
(* The token bucket.                                                       *)

\* The inductive invariant: what acquire would find if it looked now is covered
\* by the budget.  The level of the bucket itself would not do: the budget grows
\* with every tick, the bucket only when somebody looks.
LimiterIInv ==
  /\ LimiterTypeOK
  /\ rate > 0 => Refill <= budget

-----------------------------------------------------------------------------
(* Arithmetic.                                                             *)

\* Products of naturals, and how a tick adds to one.
LEMMA Products ==
  ASSUME NEW a \in Nat, NEW b \in Nat
  PROVE  a * b \in Nat /\ (a + 1) * b = a * b + b /\ 0 * b = 0
OBVIOUS

\* A rate's capacity is a natural number.
LEMMA CapacityNat == \A r \in Nat : Capacity(r) \in Nat
BY RateLimiterAssumption, Products DEF Capacity

\* Rounding up keeps a wait a natural number of ticks.
LEMMA CeilDivNat ==
  ASSUME NEW a \in Nat, NEW b \in Nat \ {0}
  PROVE  CeilDiv(a, b) \in Nat
<1>1. a + b - 1 \in Nat
  OBVIOUS
<1>2. \A x \in Nat : x \div b \in Nat
  OBVIOUS
<1> QED
  BY <1>1, <1>2 DEF CeilDiv

\* What acquire finds lies between what was in the bucket and its capacity.
LEMMA RefillBounds ==
  ASSUME LimiterTypeOK
  PROVE  /\ Refill \in Nat /\ tokens <= Refill /\ Refill <= Capacity(rate)
         /\ Refill <= tokens + age * rate
         /\ tokens \in Nat /\ rate \in Nat /\ age \in Nat /\ Capacity(rate) \in Nat
         /\ age * rate \in Nat
<1>1. rate \in Nat /\ age \in Nat
  BY RateLimiterAssumption DEF LimiterTypeOK
<1>2. Capacity(rate) \in Nat /\ age * rate \in Nat
  BY <1>1, CapacityNat, Products
<1>3. tokens \in 0..Capacity(rate)
  BY DEF LimiterTypeOK
<1> QED
  BY <1>1, <1>2, <1>3 DEF Refill, Least

-----------------------------------------------------------------------------

\* A full bucket and a full budget.
LEMMA LimiterInitInvariant == LimiterInit => LimiterIInv
<1> SUFFICES ASSUME LimiterInit PROVE LimiterIInv
  OBVIOUS
<1>1. Capacity(rate) \in Nat /\ rate \in Nat
  BY RateLimiterAssumption, CapacityNat DEF LimiterInit
<1>2. LimiterTypeOK
  BY <1>1, RateLimiterAssumption DEF LimiterInit, LimiterTypeOK
<1>3. Refill <= Capacity(rate)
  BY <1>2, RefillBounds
<1> QED
  BY <1>2, <1>3 DEF LimiterInit, LimiterIInv

\* A look at the bucket that restarts its clock leaves a level to look at.
LEMMA FreshClock ==
  ASSUME LimiterTypeOK', age' = 0 PROVE Refill' = tokens'
<1>1. rate' \in Nat /\ tokens' \in 0..Capacity(rate')
  BY RateLimiterAssumption DEF LimiterTypeOK, Capacity
<1>2. Capacity(rate') \in Nat /\ age' * rate' = 0
  BY <1>1, CapacityNat, Products
<1>3. Refill' = Least(tokens' + age' * rate', Capacity(rate'))
  BY DEF Refill, Least, Capacity
<1>4. /\ tokens' + age' * rate' = tokens' /\ tokens' \in Nat
      /\ tokens' <= Capacity(rate')
  <2>1. ASSUME NEW t \in Nat, NEW x \in Int, x = 0 PROVE t + x = t
    BY <2>1
  <2>2. tokens' \in Nat /\ tokens' <= Capacity(rate')
    <3> DEFINE C == Capacity(rate')
    <3> HIDE DEF C
    <3>1. C \in Nat /\ tokens' \in 0..C
      BY <1>1, <1>2 DEF C
    <3>2. tokens' \in Nat /\ tokens' <= C
      BY <3>1
    <3> QED
      BY <3>2 DEF C
  <2>3. age' * rate' \in Int
    BY <1>2
  <2> QED
    BY <1>2, <2>1, <2>2, <2>3
<1>5. Least(tokens', Capacity(rate')) = tokens'
  BY <1>2, <1>4 DEF Least
<1> QED
  BY <1>3, <1>4, <1>5, Zenon

\* A request, and the time it is served or told to wait.
LEMMA WorkerStep ==
  ASSUME LimiterIInv, NEW w \in Worker,
         \/ \E n \in Sizes : Call(w, n)
         \/ Grant(w)
         \/ Sleep(w)
  PROVE  LimiterIInv'
<1>0. /\ LimiterTypeOK /\ Refill \in Nat /\ Refill <= Capacity(rate) /\ rate \in Nat
      /\ Capacity(rate) \in Nat /\ tokens <= Refill /\ tokens \in Nat
  BY RefillBounds DEF LimiterIInv
<1>a. need[w] \in Nat
  <2>1. need[w] \in Sizes \union {0}
    BY <1>0 DEF LimiterTypeOK
  <2>2. Sizes \union {0} \subseteq Nat
    BY RateLimiterAssumption
  <2> QED
    BY <2>1, <2>2
<1>1. ASSUME NEW n \in Sizes, Call(w, n) PROVE LimiterIInv'
  <2>1. UNCHANGED <<rate, tokens, age, nap, budget>>
    BY <1>1 DEF Call, bucket
  <2>2. need' \in [Worker -> Sizes \union {0}] /\ left' \in [Worker -> 0..MaxRequests]
    BY <1>0, <1>1, RateLimiterAssumption DEF Call, LimiterTypeOK
  <2> QED
    BY <1>0, <2>1, <2>2 DEF LimiterIInv, LimiterTypeOK, Refill, Capacity
<1>2. CASE Grant(w)
  <2>1. need' \in [Worker -> Sizes \union {0}] /\ UNCHANGED <<nap, left, rate>>
    BY <1>0, <1>2 DEF Grant, LimiterTypeOK, bucket
  <2>2. CASE rate = 0
    <3>1. UNCHANGED <<tokens, age, budget>>
      BY <1>2, <2>2 DEF Grant, bucket
    <3> QED
      BY <1>0, <2>1, <2>2, <3>1 DEF LimiterIInv, LimiterTypeOK, Capacity
  <2>3. CASE rate > 0
    <3>1. /\ Refill >= need[w] /\ tokens' = Refill - need[w] /\ age' = 0
          /\ budget' = budget - need[w]
      BY <1>0, <1>2, <2>3 DEF Grant
    <3>2. need[w] \in Nat /\ budget \in Int
      BY <1>0, <1>a DEF LimiterTypeOK
    <3>3. tokens' \in 0..Capacity(rate) /\ budget' \in Int
      BY <1>0, <3>1, <3>2
    <3>4. LimiterTypeOK'
      BY <1>0, <2>1, <3>1, <3>3, RateLimiterAssumption DEF LimiterTypeOK, Capacity
    <3>5. Refill' = tokens'
      BY <3>1, <3>4, FreshClock
    <3> QED
      BY <1>0, <2>3, <3>1, <3>2, <3>4, <3>5 DEF LimiterIInv
  <2> QED
    BY <1>0, <2>2, <2>3
<1>3. CASE Sleep(w)
  <2>1. /\ rate > 0 /\ tokens' = Refill /\ age' = 0 /\ UNCHANGED <<rate, need, left, budget>>
        /\ nap' = [nap EXCEPT ![w] = CeilDiv(need[w] - Refill, rate)]
        /\ Refill < need[w]
    BY <1>3 DEF Sleep
  <2>2. need[w] - Refill \in Nat
    BY <1>0, <1>a, <2>1
  <2>3. CeilDiv(need[w] - Refill, rate) \in Nat
    BY <1>0, <2>1, <2>2, CeilDivNat
  <2>4. nap' \in [Worker -> Nat]
    BY <1>0, <2>1, <2>3 DEF LimiterTypeOK
  <2>5. LimiterTypeOK'
    BY <1>0, <2>1, <2>4, RateLimiterAssumption DEF LimiterTypeOK, Capacity
  <2>6. Refill' = tokens'
    BY <2>1, <2>5, FreshClock
  <2> QED
    BY <2>1, <2>5, <2>6 DEF LimiterIInv
<1> QED
  BY <1>1, <1>2, <1>3

\* A retune clamps the bucket and the budget alike, and restarts the clock.
LEMMA RetuneStep ==
  ASSUME LimiterIInv, NEW r \in Rates, SetRate(r) PROVE LimiterIInv'
<1>0. /\ LimiterTypeOK /\ tokens \in Nat /\ tokens <= Refill /\ Refill \in Nat
      /\ r \in Nat /\ Capacity(r) \in Nat /\ rate \in Nat /\ budget \in Int
  BY RefillBounds, CapacityNat, RateLimiterAssumption DEF LimiterIInv, LimiterTypeOK
<1>1. rate' = r /\ UNCHANGED <<need, nap, left>>
  BY DEF SetRate, workers
<1>2. budget' \in Int
  BY <1>0 DEF SetRate, Least
<1>3. tokens' \in 0..Capacity(r) /\ age' \in 0..TicksPerSecond
  BY <1>0, RateLimiterAssumption DEF SetRate, Least, LimiterTypeOK
<1>4. LimiterTypeOK'
  BY <1>0, <1>1, <1>2, <1>3 DEF LimiterTypeOK, Capacity
<1>5. ASSUME r > 0 PROVE Refill' <= budget'
  <2>1. age' = 0
    BY <1>0, <1>5 DEF SetRate
  <2>2. Refill' = tokens'
    BY <1>4, <2>1, FreshClock
  <2>3. CASE rate = 0
    BY <1>0, <1>5, <2>2, <2>3 DEF SetRate
  <2>4. CASE rate > 0
    <3>1. tokens <= budget
      BY <1>0, <2>4 DEF LimiterIInv
    <3>2. tokens' = Least(tokens, Capacity(r)) /\ budget' = Least(budget, Capacity(r))
      BY <1>0, <1>5, <2>4 DEF SetRate
    <3> QED
      BY <1>0, <2>2, <3>1, <3>2 DEF Least
  <2> QED
    BY <1>0, <2>3, <2>4
<1> QED
  BY <1>1, <1>4, <1>5 DEF LimiterIInv

\* A tick adds no more to what acquire will find than to the budget.
LEMMA TickStep ==
  ASSUME LimiterIInv, Tick PROVE LimiterIInv'
<1>0. /\ LimiterTypeOK /\ tokens \in Nat /\ rate \in Nat /\ age \in Nat /\ Capacity(rate) \in Nat
      /\ age * rate \in Nat /\ budget \in Int /\ Refill \in Nat
  BY RefillBounds DEF LimiterIInv, LimiterTypeOK
<1>1. /\ age' = Least(age + 1, TicksPerSecond) /\ UNCHANGED <<rate, tokens, need, left>>
      /\ nap' = [v \in Worker |-> IF nap[v] = 0 THEN 0 ELSE nap[v] - 1]
      /\ budget' = Least(budget + rate, Capacity(rate))
  BY DEF Tick
<1>2. nap' \in [Worker -> Nat]
  BY <1>0, <1>1 DEF LimiterTypeOK
<1>3. age' \in 0..TicksPerSecond
  BY <1>0, <1>1, RateLimiterAssumption DEF Least
<1>4. LimiterTypeOK'
  BY <1>0, <1>1, <1>2, <1>3 DEF LimiterTypeOK, Capacity, Least
<1>5. ASSUME rate > 0 PROVE Refill' <= budget'
  <2>1. age' * rate \in Nat /\ age' * rate <= age * rate + rate
    <3>1. age' \in Nat /\ age' <= age + 1
      BY <1>0, <1>1, RateLimiterAssumption DEF Least
    <3>2. CASE age' = age + 1
      BY <1>0, <3>2, Products
    <3>3. CASE age' # age + 1
      <4>1. age' = TicksPerSecond /\ TicksPerSecond \in 0..age
        BY <1>0, <1>1, <3>3, RateLimiterAssumption DEF Least, LimiterTypeOK
      <4>2. age' = age
        BY <1>0, <4>1 DEF LimiterTypeOK
      <4> QED
        BY <1>0, <4>2
    <3> QED
      BY <3>2, <3>3
  <2>2. Refill' = Least(tokens + age' * rate, Capacity(rate))
    BY <1>1 DEF Refill, Capacity, Least
  <2>3. Refill <= budget /\ Refill = Least(tokens + age * rate, Capacity(rate))
    BY <1>5 DEF LimiterIInv, Refill
  <2> HIDE DEF Refill
  <2> QED
    BY <1>0, <1>1, <2>1, <2>2, <2>3 DEF Least
<1> QED
  BY <1>1, <1>4, <1>5 DEF LimiterIInv

\* Every step keeps the invariant.
LEMMA LimiterStep ==
  ASSUME LimiterIInv, [LimiterNext]_limiterVars PROVE LimiterIInv'
<1>1. CASE LimiterNext
  BY <1>1, WorkerStep, RetuneStep, TickStep DEF LimiterNext
<1>2. CASE UNCHANGED limiterVars
  BY <1>2 DEF LimiterIInv, LimiterTypeOK, Refill, Capacity, Least, limiterVars, bucket, workers
<1> QED
  BY <1>1, <1>2

\* What acquire grants never exceeds one second of burst plus what the rates in
\* force have paid for, for any number of workers and across live retunes
\* (Bucket's lazy refill, set_rate's clamp and restarted clock); and the bucket
\* never holds less than nothing or more than one second of its rate.
THEOREM BudgetIsRespected == LimiterSpec => []BudgetRespected
<1>1. LimiterIInv => BudgetRespected
  BY RefillBounds, RateLimiterAssumption DEF LimiterIInv, BudgetRespected, LimiterTypeOK
<1> QED
  BY <1>1, LimiterInitInvariant, LimiterStep, PTL DEF LimiterSpec

-----------------------------------------------------------------------------
(* The controller.                                                         *)

\* What the options make of a transfer.
DriverTyped ==
  /\ policy \in [percent : 1..100, ceiling : Nat \ {0}, max_rate : Nat]
  /\ p95 \in Nat /\ applier \in BOOLEAN

LawTyped ==
  /\ probe \in [limit : Nat, goodput : Nat]
  /\ sampled \in BOOLEAN /\ congestion_seen \in BOOLEAN
  /\ spawned \in Seq(Nat) /\ calm_for \in 0..Cooldown

\* From the first tick on the limit in force is the last one decided, within
\* the memory budget; until then nothing has happened that could raise it.
LimitInv ==
  /\ sampled => gate = target /\ target <= memory_cap(policy, p95)
  /\ ~sampled => target <= 2 /\ cooldown = 0 /\ calm_for = Cooldown /\ probe = NoProbe

\* No retune that is still to run lifts the cap.
RateInv ==
  (applier /\ policy.max_rate > 0) =>
    /\ limiter_rate \in 1..policy.max_rate
    /\ \A i \in DOMAIN spawned : spawned[i] \in 1..policy.max_rate

\* The cooldown that is left and the calm so far make up a cooldown, and the
\* limit that a probe would go back to is not above the one it has raised.
ColdInv ==
  /\ cooldown + calm_for >= Cooldown
  /\ probe # NoProbe => finish(probe.limit) <= target

ControllerIInv ==
  ControllerTypeOK /\ DriverTyped /\ LawTyped /\ LimitInv /\ RateInv /\ ColdInv

-----------------------------------------------------------------------------
(* Arithmetic of the control law.                                          *)

\* A smoothed value is between the old one and the sample.
LEMMA EwmaBetween ==
  ASSUME NEW old \in Nat, NEW x \in Nat
  PROVE  /\ Ewma(old, x) \in Nat
         /\ old = 0 => Ewma(old, x) = x
         /\ old > 0 /\ x >= old => old <= Ewma(old, x) /\ Ewma(old, x) <= x
         /\ old > 0 /\ x < old => x <= Ewma(old, x) /\ Ewma(old, x) <= old
<1>1. \A d \in Nat : (3 * d + 9) \div 10 \in 0..d
  OBVIOUS
<1>2. CASE old = 0
  BY <1>2 DEF Ewma
<1>3. CASE old > 0 /\ x >= old
  <2>1. x - old \in Nat /\ Ewma(old, x) = old + (3 * (x - old) + 9) \div 10
    BY <1>3 DEF Ewma
  <2> QED BY <1>1, <1>3, <2>1
<1>4. CASE old > 0 /\ x < old
  <2>1. old - x \in Nat /\ Ewma(old, x) = old - (3 * (old - x) + 9) \div 10
    BY <1>4 DEF Ewma
  <2> QED BY <1>1, <1>4, <2>1
<1> QED BY <1>2, <1>3, <1>4

\* A quotient is a natural number, and times the divisor not above the dividend.
LEMMA Quotient ==
  ASSUME NEW a \in Nat, NEW b \in Nat \ {0}
  PROVE  a \div b \in Nat /\ \A g \in Nat : g <= a \div b => g * b <= a
<1>1. a \div b \in Nat /\ b * (a \div b) <= a
  OBVIOUS
<1>2. ASSUME NEW g \in Nat, g <= a \div b PROVE g * b <= a
  <2>1. g * b <= (a \div b) * b
    BY <1>1, <1>2
  <2> QED BY <1>1, <2>1
<1> QED BY <1>1, <1>2

\* The memory budget leaves at least one object, and no more than it can hold.
LEMMA MemoryCap ==
  ASSUME DriverTyped
  PROVE  /\ memory_cap(policy, p95) \in 1..policy.ceiling
         /\ \A g \in Nat \ {0} : g <= memory_cap(policy, p95) =>
              g = 1 \/ TotalRam = 0 \/ 100 * g * p95 <= policy.percent * TotalRam
<1> DEFINE a == policy.percent * TotalRam
           b == 100 * p95
<1>0. policy.percent \in 1..100 /\ policy.ceiling \in Nat \ {0} /\ TotalRam \in Nat /\ p95 \in Nat
  BY ControllerAssumption DEF DriverTyped
<1>1. a \in Nat /\ b \in Nat /\ policy.ceiling \in Nat \ {0} /\ TotalRam \in Nat /\ p95 \in Nat
  <2>1. \A m, n \in Nat : m * n \in Nat
    OBVIOUS
  <2> QED BY <1>0, <2>1
<1>2. CASE TotalRam = 0 \/ p95 = 0
  <2>1. memory_cap(policy, p95) = policy.ceiling
    BY <1>2 DEF memory_cap
  <2>2. \A g \in Nat : 100 * g * 0 = 0
    OBVIOUS
  <2> QED BY <1>1, <1>2, <2>1, <2>2
<1>3. CASE TotalRam # 0 /\ p95 # 0
  <2>1. b \in Nat \ {0}
    BY <1>1, <1>3
  <2>2. a \div b \in Nat /\ \A g \in Nat : g <= a \div b => g * b <= a
    BY <1>1, <2>1, Quotient
  <2>3. memory_cap(policy, p95) = Lower(policy.ceiling, Most(1, a \div b))
    BY <1>3 DEF memory_cap
  <2>4. memory_cap(policy, p95) \in 1..policy.ceiling
    BY <1>1, <2>2, <2>3 DEF Lower, Most
  <2>5. ASSUME NEW g \in Nat \ {0}, g <= memory_cap(policy, p95), g # 1
        PROVE  100 * g * p95 <= policy.percent * TotalRam
    <3>1. g <= a \div b
      BY <1>1, <2>2, <2>3, <2>5 DEF Lower, Most
    <3>2. g * b <= a
      BY <2>2, <3>1
    <3>3. g * b = 100 * g * p95
      BY <1>1
    <3> QED BY <3>2, <3>3
  <2> QED BY <2>4, <2>5
<1> QED BY <1>2, <1>3

\* The caps at the end of a tick.
LEMMA FinishBounds ==
  ASSUME DriverTyped
  PROVE  /\ \A n \in Int : /\ finish(n) \in 1..policy.ceiling
                           /\ finish(n) <= memory_cap(policy, p95)
                           /\ n >= 1 => finish(n) <= n
         /\ \A m, n \in Int : m <= n => finish(m) <= finish(n)
<1>1. memory_cap(policy, p95) \in 1..policy.ceiling /\ policy.ceiling \in Nat \ {0}
  BY MemoryCap DEF DriverTyped
<1> QED BY <1>1 DEF finish, Lower, Most

\* Backing off never raises a limit.
LEMMA Backoffs ==
  ASSUME NEW n \in Nat \ {0}
  PROVE  /\ Halved(n) \in 1..n /\ Most(1, n - 1) \in 1..n
         /\ Grown(n) \in Nat /\ Grown(n) >= 1
         /\ n <= 2 => Halved(n) = 1
BY DEF Halved, Grown, Most

-----------------------------------------------------------------------------
(* The percentile of the object sizes is one of them.                      *)

\* A set of natural numbers has a least element.
LEMMA LeastElement ==
  ASSUME NEW T, T \subseteq Nat, T # {}
  PROVE  \E x \in T : \A y \in T : x <= y
<1> DEFINE R == OpToRel(<, Nat)
<1>1. IsWellFoundedOn(R, Nat)
  BY NatLessThanWellFounded
<1>2. PICK x \in T : \A y \in Nat : <<y, x>> \in R => y \notin T
  <2> HIDE DEF R
  <2> QED BY <1>1, WFMin
<1>3. \A y \in T : ~(y < x)
  BY <1>2 DEF OpToRel
<1> QED BY <1>3

\* The largest size covers them all.
LEMMA SomeSizeCovers ==
  ASSUME NEW s \in Seq(Nat), s # <<>>
  PROVE  \E k \in 1..Len(s) : Cardinality({i \in DOMAIN s : s[i] <= s[k]}) = Len(s)
<1> DEFINE n == Len(s)
           C(k) == {i \in 1..n : s[i] <= s[k]}
           T == {n - Cardinality(C(k)) : k \in 1..n}
<1>1. n \in Nat \ {0} /\ DOMAIN s = 1..n /\ \A i \in 1..n : s[i] \in Nat
  OBVIOUS
<1>2. IsFiniteSet(1..n) /\ Cardinality(1..n) = n
  BY <1>1, FS_Interval
<1>3. ASSUME NEW k \in 1..n
      PROVE  /\ IsFiniteSet(C(k)) /\ Cardinality(C(k)) \in Nat /\ Cardinality(C(k)) <= n
             /\ Cardinality(C(k)) = n => C(k) = 1..n
  <2>1. C(k) \subseteq 1..n
    OBVIOUS
  <2> HIDE DEF C
  <2> QED BY <1>2, <2>1, FS_Subset, FS_CardinalityType
<1>4. T \subseteq Nat /\ T # {}
  <2> HIDE DEF C
  <2> QED BY <1>1, <1>3
<1>5. PICK m \in T : \A y \in T : m <= y
  <2> HIDE DEF T
  <2> QED BY <1>4, LeastElement
<1>6. PICK k \in 1..n : m = n - Cardinality(C(k))
  <2> HIDE DEF C
  <2> QED BY <1>5
<1>7. ASSUME NEW i \in 1..n, s[i] > s[k] PROVE FALSE
  <2>1. C(k) \cup {i} \subseteq C(i) /\ i \notin C(k)
    BY <1>1, <1>7
  <2> HIDE DEF C
  <2>2. Cardinality(C(k) \cup {i}) = Cardinality(C(k)) + 1 /\ IsFiniteSet(C(k) \cup {i})
    BY <1>3, <2>1, FS_AddElement
  <2>3. Cardinality(C(k) \cup {i}) <= Cardinality(C(i))
    BY <1>3, <2>1, FS_Subset
  <2>4. n - Cardinality(C(i)) \in T
    OBVIOUS
  <2>5. m <= n - Cardinality(C(i))
    BY <1>5, <2>4
  <2>6. Cardinality(C(i)) \in Nat /\ Cardinality(C(k)) \in Nat
    BY <1>3
  <2> QED BY <1>1, <1>6, <2>2, <2>3, <2>5, <2>6
<1>8. C(k) = DOMAIN s /\ C(k) = {i \in DOMAIN s : s[i] <= s[k]}
  BY <1>1, <1>7
<1> QED BY <1>1, <1>2, <1>8

LEMMA PercentileTyped ==
  ASSUME NEW sizes \in Seq(Nat)
  PROVE  p95_object_size(sizes) \in Nat
<1> DEFINE Covers(x) == 100 * Cardinality({i \in DOMAIN sizes : sizes[i] <= x}) >= 95 * Len(sizes)
           T == {x \in Range(sizes) : Covers(x)}
<1>1. CASE sizes = <<>>
  BY <1>1 DEF p95_object_size
<1>2. CASE sizes # <<>>
  <2>1. Range(sizes) \subseteq Nat /\ Len(sizes) \in Nat
    BY DEF Range
  <2>2. PICK k \in 1..Len(sizes) :
          Cardinality({i \in DOMAIN sizes : sizes[i] <= sizes[k]}) = Len(sizes)
    BY <1>2, SomeSizeCovers
  <2>3. sizes[k] \in Range(sizes) /\ Covers(sizes[k])
    <3>1. 100 * Len(sizes) >= 95 * Len(sizes)
      BY <2>1
    <3> QED BY <2>2, <3>1 DEF Range
  <2> HIDE DEF Covers
  <2>4. PICK x \in T : \A y \in T : x <= y
    BY <2>1, <2>3, LeastElement
  <2>5. x \in Range(sizes) /\ Covers(x) /\ \A y \in Range(sizes) : Covers(y) => x <= y
    BY <2>4
  <2>6. p95_object_size(sizes) = CHOOSE z \in Range(sizes) :
               Covers(z) /\ \A y \in Range(sizes) : Covers(y) => z <= y
    BY <1>2 DEF p95_object_size, Covers
  <2> QED BY <2>1, <2>5, <2>6
<1> QED BY <1>1, <1>2

-----------------------------------------------------------------------------

\* A lower of two caps is a cap, and the rate limit of a command line is one.
LEMMA RatesTyped ==
  /\ \A a, b \in Nat : /\ min_opt(a, b) \in Nat
                       /\ a > 0 /\ b > 0 => min_opt(a, b) \in 1..b
  /\ \A o \in Options : resolve_rate_limits(o) \in Nat
<1>1. \A a, b \in Nat : min_opt(a, b) \in Nat /\ (a > 0 /\ b > 0 => min_opt(a, b) \in 1..b)
  BY DEF min_opt, Most, Lower
<1>2. ASSUME NEW o \in Options PROVE resolve_rate_limits(o) \in Nat
  <2>1. o.limit_rate \in Nat /\ BackendRates[o.scheme] \in [read : Nat, write : Nat]
    BY ControllerAssumption
  <2> QED BY <1>1, <2>1 DEF resolve_rate_limits
<1> QED BY <1>1, <1>2

\* A transfer begins with a policy and a limit in range.
LEMMA BeginTyped ==
  ASSUME NEW o \in Options, Begin(o)
  PROVE  /\ policy \in [percent : 1..100, ceiling : Nat \ {0}, max_rate : Nat]
         /\ p95 \in Nat /\ gate \in 1..policy.ceiling
<1> DEFINE config == transfer_config_for(o)
<1>1. /\ o.percent \in Int /\ o.jobs \in Nat /\ o.max_jobs \in Int /\ o.sizes \in Seq(Nat)
      /\ Detected \in Nat \ {0} /\ CeilingCap \in Nat \ {0}
  BY ControllerAssumption
<1>2. config.concurrency \in Nat \ {0} /\ config.ceiling \in Nat \ {0} /\ config.percent \in Int
      /\ config.max_rate \in Nat
  <2> DEFINE jobs == IF o.jobs > 0 THEN o.jobs ELSE Detected
             asked == IF o.max_jobs >= 0 THEN o.max_jobs ELSE jobs
  <2>1. jobs \in Nat \ {0} /\ asked \in Nat
    BY <1>1
  <2>2. Lower(Most(asked, 1), CeilingCap) \in Nat \ {0}
    BY <1>1, <2>1 DEF Lower, Most
  <2>3. resolve_rate_limits(o) \in Nat
    BY RatesTyped
  <2>4. /\ config.concurrency = jobs /\ config.ceiling = Lower(Most(asked, 1), CeilingCap)
        /\ config.percent = o.percent /\ config.max_rate = resolve_rate_limits(o)
    BY DEF transfer_config_for
  <2> QED BY <1>1, <2>1, <2>2, <2>3, <2>4
<1>3. policy = new_policy(config) /\ p95 = p95_object_size(o.sizes)
      /\ gate = Lower(config.concurrency, policy.ceiling)
  BY DEF Begin
<1> HIDE DEF config
<1>4. policy \in [percent : 1..100, ceiling : Nat \ {0}, max_rate : Nat]
  BY <1>2, <1>3 DEF new_policy, Most
<1>5. gate \in 1..policy.ceiling
  BY <1>2, <1>3, <1>4 DEF Lower
<1> QED BY <1>1, <1>3, <1>4, <1>5, PercentileTyped

\* The first limit is low, and nothing is cold yet.
LEMMA ControllerInitInvariant == ControllerInit => ControllerIInv
<1> SUFFICES ASSUME ControllerInit PROVE ControllerIInv
  OBVIOUS
<1>1. DriverTyped /\ gate \in 1..policy.ceiling
  BY BeginTyped DEF ControllerInit, DriverTyped
<1>2. policy.ceiling \in Nat \ {0} /\ policy.max_rate \in Nat
  BY <1>1 DEF DriverTyped
<1>3. target \in 1..policy.ceiling /\ target <= 2
  BY <1>2 DEF ControllerInit, Most, Lower
<1>4. ControllerTypeOK
  BY <1>1, <1>2, <1>3, ControllerAssumption DEF ControllerInit, ControllerTypeOK, NoOps
<1>5. LawTyped
  <2>1. probe \in [limit : Nat, goodput : Nat]
    BY DEF ControllerInit, NoProbe
  <2>2. spawned \in Seq(Nat) /\ calm_for \in 0..Cooldown
    BY ControllerAssumption DEF ControllerInit
  <2> QED BY <2>1, <2>2 DEF ControllerInit, LawTyped
<1>6. LimitInv /\ ColdInv
  BY <1>3, ControllerAssumption DEF ControllerInit, LimitInv, ColdInv
<1>7. RateInv
  BY <1>2 DEF ControllerInit, RateInv
<1> QED BY <1>1, <1>4, <1>5, <1>6, <1>7 DEF ControllerIInv

\* An operation is smoothed into the samples, and leaves the law alone.
LEMMA OperateKeeps ==
  ASSUME ControllerIInv, Operate
  PROVE  ControllerIInv'
<1>1. PICK latency \in {0, Fast, Slow}, per_op \in PerOp, ok \in BOOLEAN :
        record_op(latency, per_op, ok)
  BY DEF Operate
<1>2. /\ Fast \in Nat \ {0} /\ Slow \in Nat /\ Fast < Slow /\ per_op \in Nat
      /\ rtt_ewma \in {0} \union Fast..Slow /\ rtt_min \in {0, Fast, Slow} /\ acc \in {NoOps} \union Nat
  BY ControllerAssumption DEF ControllerIInv, ControllerTypeOK
<1>3. /\ UNCHANGED <<policy, p95, applier, target, phase, ewma, knee, cooldown, reprobe_age, probe,
                    sampled, gate, spawned, limiter_rate, weather, calm_for>>
  BY <1>1 DEF record_op, driver, law, applied
<1>4. rtt_ewma' \in {0} \union Fast..Slow
  <2>1. CASE latency = 0
    BY <1>1, <1>2, <2>1 DEF record_op
  <2>2. CASE latency # 0
    <3>1. latency \in Fast..Slow /\ latency > 0 /\ rtt_ewma \in Nat
      BY <1>2, <2>2
    <3>2. rtt_ewma' = Ewma(rtt_ewma, latency)
      BY <1>1, <3>1 DEF record_op
    <3>3. CASE rtt_ewma = 0
      <4>1. Ewma(rtt_ewma, latency) = latency
        BY <3>1, <3>3 DEF Ewma
      <4> QED BY <3>1, <3>2, <4>1
    <3>4. CASE rtt_ewma \in Fast..Slow
      <4>1. rtt_ewma > 0
        BY <1>2, <3>4
      <4>2. latency \in Nat
        BY <1>2
      <4>3. Ewma(rtt_ewma, latency) \in Fast..Slow
        <5>1. /\ Ewma(rtt_ewma, latency) \in Nat
              /\ latency >= rtt_ewma =>
                   rtt_ewma <= Ewma(rtt_ewma, latency) /\ Ewma(rtt_ewma, latency) <= latency
              /\ latency < rtt_ewma =>
                   latency <= Ewma(rtt_ewma, latency) /\ Ewma(rtt_ewma, latency) <= rtt_ewma
          BY <3>1, <4>1, <4>2, EwmaBetween
        <5> QED BY <1>2, <3>1, <3>4, <4>2, <5>1
      <4> QED BY <3>2, <4>3
    <3> QED BY <1>2, <3>3, <3>4
  <2> QED BY <1>1, <2>1, <2>2
<1>5. rtt_min' \in {0, Fast, Slow}
  BY <1>1, <1>2 DEF record_op
<1>6. acc' \in {NoOps} \union Nat
  BY <1>1, <1>2 DEF record_op, Between, Lower, Most, NoOps
<1>7. congestion_seen' \in BOOLEAN /\ running' \in {"yes", "draining", "no"}
  BY <1>1 DEF record_op, ControllerIInv, ControllerTypeOK, LawTyped
<1>8. ControllerTypeOK' /\ DriverTyped' /\ LawTyped'
  BY <1>3, <1>4, <1>5, <1>6, <1>7
     DEF ControllerIInv, ControllerTypeOK, DriverTyped, LawTyped, NoProbe, NoOps
<1>9. LimitInv' /\ RateInv' /\ ColdInv'
  BY <1>3 DEF ControllerIInv, LimitInv, RateInv, ColdInv, finish, memory_cap
<1> QED BY <1>8, <1>9 DEF ControllerIInv

\* A retune that runs sets one of the rates that were decided.
LEMMA ApplyRateKeeps ==
  ASSUME ControllerIInv, NEW i \in 1..MaxSpawned, i <= Len(spawned), ApplyRate(i)
  PROVE  ControllerIInv'
<1>1. spawned \in Seq(Nat) /\ i \in 1..Len(spawned) /\ MaxSpawned \in Nat /\ Len(spawned) \in Nat
  BY ControllerAssumption DEF ControllerIInv, LawTyped
<1>2. /\ spawned' = SubSeq(spawned, 1, i - 1) \o SubSeq(spawned, i + 1, Len(spawned))
      /\ limiter_rate' = spawned[i]
  BY DEF ApplyRate, RemoveAt
<1>3. /\ spawned' \in Seq(Nat) /\ Len(spawned') = Len(spawned) - 1
      /\ \A j \in DOMAIN spawned' : \E k \in DOMAIN spawned : spawned'[j] = spawned[k]
  <2> DEFINE a == SubSeq(spawned, 1, i - 1)
             b == SubSeq(spawned, i + 1, Len(spawned))
  <2>1. /\ a \in Seq(Nat) /\ Len(a) = i - 1 /\ \A j \in 1..(i - 1) : a[j] = spawned[j]
    BY <1>1
  <2>2. /\ b \in Seq(Nat) /\ Len(b) = Len(spawned) - i
        /\ \A j \in 1..(Len(spawned) - i) : b[j] = spawned[i + j]
    <3>1. \A j \in (i + 1)..Len(spawned) : spawned[j] \in Nat
      BY <1>1
    <3>2. i + 1 \in Int /\ Len(spawned) \in Int
      BY <1>1
    <3> QED BY <1>1, <3>1, <3>2, SubSeqProperties
  <2>3. spawned' = a \o b
    BY <1>2
  <2> HIDE DEF a, b
  <2>4. spawned' \in Seq(Nat) /\ Len(spawned') = Len(spawned) - 1 /\ DOMAIN spawned' = 1..(Len(spawned) - 1)
    <3>1. a \o b \in Seq(Nat) /\ Len(a \o b) = Len(a) + Len(b)
      BY <2>1, <2>2, ConcatProperties
    <3>2. Len(a) + Len(b) = Len(spawned) - 1
      BY <1>1, <2>1, <2>2
    <3>3. DOMAIN (a \o b) = 1..Len(a \o b)
      BY <3>1
    <3> QED BY <2>3, <3>1, <3>2, <3>3
  <2>5. ASSUME NEW j \in 1..(Len(spawned) - 1)
        PROVE  \E k \in DOMAIN spawned : spawned'[j] = spawned[k]
    <3>1. CASE j < i
      <4>1. spawned'[j] = spawned[j] /\ j \in DOMAIN spawned
        BY <1>1, <2>1, <2>2, <2>3, <3>1
      <4> QED BY <4>1
    <3>2. CASE j >= i
      <4>1. j - (i - 1) \in 1..(Len(spawned) - i) /\ i + (j - (i - 1)) = j + 1
        BY <1>1, <3>2
      <4>2. spawned'[j] = spawned[j + 1] /\ j + 1 \in DOMAIN spawned
        BY <1>1, <2>1, <2>2, <2>3, <3>2, <4>1
      <4> QED BY <4>2
    <3> QED BY <1>1, <3>1, <3>2
  <2> QED BY <2>4, <2>5
<1>4. UNCHANGED <<policy, p95, applier, target, phase, ewma, knee, cooldown, reprobe_age, probe,
                  rtt_ewma, rtt_min, acc, congestion_seen, sampled, gate, running, weather, calm_for>>
  BY DEF ApplyRate, driver, law, samples
<1>5. limiter_rate' \in Nat /\ i \in DOMAIN spawned
  BY <1>1, <1>2
<1>6. Len(spawned') <= MaxSpawned
  BY <1>1, <1>3 DEF ControllerIInv, ControllerTypeOK
<1>7. ControllerTypeOK' /\ DriverTyped' /\ LawTyped'
  BY <1>3, <1>4, <1>5, <1>6
     DEF ControllerIInv, ControllerTypeOK, DriverTyped, LawTyped, NoProbe, NoOps
<1>8. RateInv'
  BY <1>2, <1>3, <1>4, <1>5 DEF ControllerIInv, RateInv
<1>9. LimitInv' /\ ColdInv'
  BY <1>4 DEF ControllerIInv, LimitInv, ColdInv, finish, memory_cap
<1> QED BY <1>7, <1>8, <1>9 DEF ControllerIInv

\* The law's decision: its types, that only a calm law out of its cooldown
\* raises the limit it is given, that congestion starts a cooldown and nothing
\* else cuts one short, and that a probe is one above the limit it goes back to.
DecisionOK(d, l, cold) ==
  /\ d.limit \in Nat \ {0} /\ d.phase \in {"SlowStart", "Aimd"} /\ d.cooldown \in 0..Cooldown
  /\ d.reprobed \in BOOLEAN /\ d.probe \in [limit : Nat, goodput : Nat]
  /\ d.limit > l => ~congestion_seen /\ cold = 0
  /\ congestion_seen => d.limit = Halved(l) /\ d.cooldown = Cooldown
  /\ ~congestion_seen => d.cooldown = cold
  /\ d.probe # NoProbe => d.probe.limit = l /\ d.limit = l + 1

LEMMA DecideSound ==
  ASSUME NEW l \in Nat \ {0}, NEW goodput \in Nat, NEW cpu \in {"fine", "busy", "saturated"},
         NEW cold \in 0..Cooldown, NEW elapsed \in Nat,
         congestion_seen \in BOOLEAN, phase \in {"SlowStart", "Aimd"}, Reprobe \in Nat, ewma \in Nat
  PROVE  DecisionOK(Decide(l, goodput, cpu, cold, elapsed), l, cold)
<1> DEFINE Out(n, ph, cool, reprobed, pr) ==
             [limit |-> n, phase |-> ph, cooldown |-> cool, reprobed |-> reprobed, probe |-> pr]
           d == Decide(l, goodput, cpu, cold, elapsed)
           pr == [limit |-> l, goodput |-> goodput]
           Is(n, ph, cool, reprobed, q) ==
             d.limit = n /\ d.phase = ph /\ d.cooldown = cool /\ d.reprobed = reprobed /\ d.probe = q
<1> SUFFICES DecisionOK(d, l, cold)
  OBVIOUS
<1>1. /\ Halved(l) \in Nat \ {0} /\ ~(Halved(l) > l)
      /\ Most(1, l - 1) \in Nat \ {0} /\ ~(Most(1, l - 1) > l)
      /\ Grown(l) \in Nat \ {0} /\ l + 1 \in Nat \ {0} /\ ~(l > l)
  BY Backoffs
<1>2. /\ Cooldown \in 0..Cooldown /\ NoProbe \in [limit : Nat, goodput : Nat]
      /\ pr \in [limit : Nat, goodput : Nat] /\ pr.limit = l
  BY ControllerAssumption DEF NoProbe
<1>3. CASE congestion_seen
  <2>1. d = Out(Halved(l), "Aimd", Cooldown, FALSE, NoProbe)
    BY <1>3 DEF Decide
  <2> HIDE DEF d, pr
  <2>2. Is(Halved(l), "Aimd", Cooldown, FALSE, NoProbe)
    BY <2>1
  <2> HIDE DEF Out
  <2> QED BY <1>1, <1>2, <1>3, <2>2 DEF DecisionOK
<1>4. CASE ~congestion_seen /\ cpu = "saturated"
  <2>1. d = Out(Halved(l), phase, cold, FALSE, NoProbe)
    BY <1>4 DEF Decide
  <2> HIDE DEF d, pr
  <2>2. Is(Halved(l), phase, cold, FALSE, NoProbe)
    BY <2>1
  <2> HIDE DEF Out
  <2> QED BY <1>1, <1>2, <1>4, <2>2 DEF DecisionOK
<1>5. CASE ~congestion_seen /\ cpu # "saturated" /\ Queueing
  <2>1. d = Out(Most(1, l - 1), "Aimd", cold, FALSE, NoProbe)
    BY <1>5 DEF Decide
  <2> HIDE DEF d, pr
  <2>2. Is(Most(1, l - 1), "Aimd", cold, FALSE, NoProbe)
    BY <2>1
  <2> HIDE DEF Out
  <2> QED BY <1>1, <1>2, <1>5, <2>2 DEF DecisionOK
<1>6. CASE ~congestion_seen /\ cpu # "saturated" /\ ~Queueing
  <2>1. \/ d = Out(l, phase, cold, FALSE, NoProbe)
        \/ cold = 0 /\ d = Out(Grown(l), phase, cold, FALSE, NoProbe)
        \/ cold = 0 /\ d = Out(l + 1, "Aimd", cold, FALSE, NoProbe)
        \/ cold = 0 /\ d = Out(l + 1, phase, cold, TRUE, pr)
        \/ cold = 0 /\ d = Out(l + 1, phase, cold, FALSE, NoProbe)
    <3>1. cold > 0 \/ cold = 0
      OBVIOUS
    <3> QED BY <1>6, <3>1 DEF Decide
  <2> HIDE DEF d, pr
  <2>2. \/ Is(l, phase, cold, FALSE, NoProbe)
        \/ cold = 0 /\ Is(Grown(l), phase, cold, FALSE, NoProbe)
        \/ cold = 0 /\ Is(l + 1, "Aimd", cold, FALSE, NoProbe)
        \/ cold = 0 /\ Is(l + 1, phase, cold, TRUE, pr)
        \/ cold = 0 /\ Is(l + 1, phase, cold, FALSE, NoProbe)
    BY <2>1
  <2> HIDE DEF Out
  <2>3. CASE Is(l, phase, cold, FALSE, NoProbe)
    BY <1>1, <1>2, <1>6, <2>3 DEF DecisionOK
  <2>4. CASE cold = 0 /\ Is(Grown(l), phase, cold, FALSE, NoProbe)
    BY <1>1, <1>2, <1>6, <2>4 DEF DecisionOK
  <2>5. CASE cold = 0 /\ Is(l + 1, "Aimd", cold, FALSE, NoProbe)
    BY <1>1, <1>2, <1>6, <2>5 DEF DecisionOK
  <2>6. CASE cold = 0 /\ Is(l + 1, phase, cold, TRUE, pr)
    BY <1>1, <1>2, <1>6, <2>6 DEF DecisionOK
  <2>7. CASE cold = 0 /\ Is(l + 1, phase, cold, FALSE, NoProbe)
    BY <1>1, <1>2, <1>6, <2>7 DEF DecisionOK
  <2> QED BY <2>2, <2>3, <2>4, <2>5, <2>6, <2>7
<1> QED BY <1>3, <1>4, <1>5, <1>6

\* The limit a tick starts from: the target, or what a failed probe goes back
\* to, which the caps do not lift above the target.
LEMMA ResolvedBounds ==
  ASSUME ControllerIInv, NEW goodput \in Nat
  PROVE  /\ Resolved(goodput) \in 1..policy.ceiling
         /\ finish(Resolved(goodput)) <= target
         /\ ~sampled => Resolved(goodput) = target
<1>1. /\ target \in 1..policy.ceiling /\ policy.ceiling \in Nat /\ DriverTyped
      /\ probe = NoProbe \/ probe.limit \in 1..policy.ceiling
      /\ probe # NoProbe => finish(probe.limit) <= target
      /\ ~sampled => probe = NoProbe
  BY DEF ControllerIInv, ControllerTypeOK, DriverTyped, ColdInv, LimitInv
<1>2. finish(target) <= target
  BY <1>1, FinishBounds
<1>3. \/ Resolved(goodput) = target
      \/ probe # NoProbe /\ Resolved(goodput) = probe.limit
  BY DEF Resolved
<1> QED BY <1>1, <1>2, <1>3

\* The smoothed goodput is a natural number, and the best one is not below it.
LEMMA GoodputTyped ==
  ASSUME ControllerIInv
  PROVE  Folded \in Nat /\ Best(Folded) \in Nat /\ Folded <= Best(Folded)
<1>1. ewma \in Nat /\ knee \in Nat /\ target \in Nat /\ acc \in {NoOps} \union Nat
  BY DEF ControllerIInv, ControllerTypeOK, DriverTyped
<1>2. window_goodput \in Nat
  <2>1. \A m, n \in Nat : m * n \in Nat
    OBVIOUS
  <2> QED BY <1>1, <2>1 DEF window_goodput
<1>3. Folded \in Nat
  BY <1>1, <1>2, EwmaBetween DEF Folded
<1> QED BY <1>1, <1>3 DEF Best, Most

\* The rate a tick asks for keeps the cap, whatever the knee.
LEMMA TargetRateCapped ==
  ASSUME DriverTyped, NEW k \in Nat
  PROVE  /\ target_rate(k) \in Nat
         /\ policy.max_rate > 0 => target_rate(k) \in 1..policy.max_rate
<1>1. policy.percent \in Nat /\ policy.max_rate \in Nat
  BY DEF DriverTyped
<1>2. policy.percent * k \in Nat
  <2>1. \A m, n \in Nat : m * n \in Nat
    OBVIOUS
  <2> QED BY <1>1, <2>1
<1>3. (policy.percent * k) \div 100 \in Nat
  BY <1>2, Quotient
<1> DEFINE r == Most(1, (policy.percent * k) \div 100)
<1>4. r \in Nat /\ r > 0
  BY <1>3 DEF Most
<1>5. target_rate(k) = IF k > 0 THEN min_opt(r, policy.max_rate) ELSE policy.max_rate
  BY DEF target_rate
<1> HIDE DEF r
<1>6. /\ min_opt(r, policy.max_rate) \in Nat
      /\ policy.max_rate > 0 => min_opt(r, policy.max_rate) \in 1..policy.max_rate
  BY <1>1, <1>4, RatesTyped
<1> QED BY <1>1, <1>5, <1>6

\* What a tick does, in terms of the decision it takes: the limit decided is
\* capped and put in force, and a limit that rises does so out of a cooldown.
TickFacts(gap, cpu, l, d) ==
  /\ l \in 1..policy.ceiling /\ finish(l) <= target /\ (~sampled => l = target)
  /\ DecisionOK(d, l, Cold(gap))
  /\ target' = finish(d.limit) /\ gate' = target' /\ sampled' = TRUE
  /\ phase' = d.phase /\ cooldown' = d.cooldown /\ probe' = d.probe
  /\ ewma' = Folded /\ knee' = Best(Folded) /\ acc' = NoOps /\ congestion_seen' = FALSE
  /\ reprobe_age' \in 0..Reprobe
  /\ spawned' = IF applier THEN Append(spawned, target_rate(Best(Folded))) ELSE spawned
  /\ Len(spawned) < MaxSpawned
  /\ calm_for' = IF congestion_seen THEN 0 ELSE Lower(Cooldown, calm_for + gap)
  /\ UNCHANGED <<policy, p95, applier, rtt_ewma, rtt_min, limiter_rate, running, weather>>

LEMMA TickDecides ==
  ASSUME ControllerIInv, NEW gap \in 1..MaxGap, NEW cpu \in {"fine", "busy", "saturated"},
         control_tick(gap, cpu)
  PROVE  \E l, d : TickFacts(gap, cpu, l, d)
<1> DEFINE elapsed == Lower(Reprobe, reprobe_age + gap)
           l == Resolved(Folded)
           d == Decide(l, Folded, cpu, Cold(gap), elapsed)
<1>1. /\ cooldown \in 0..Cooldown /\ reprobe_age \in 0..Reprobe /\ Cooldown \in Nat /\ Reprobe \in Nat
      /\ MaxGap \in Nat /\ congestion_seen \in BOOLEAN /\ phase \in {"SlowStart", "Aimd"}
      /\ ewma \in Nat /\ policy.ceiling \in Nat
  BY ControllerAssumption DEF ControllerIInv, ControllerTypeOK, LawTyped, DriverTyped
<1>2. Cold(gap) \in 0..Cooldown /\ elapsed \in 0..Reprobe
  BY <1>1 DEF Cold, Most, Lower
<1>3. Folded \in Nat
  BY GoodputTyped
<1>4. l \in 1..policy.ceiling /\ finish(l) <= target /\ (~sampled => l = target)
  BY <1>3, ResolvedBounds
<1>5. l \in Nat \ {0} /\ elapsed \in Nat
  BY <1>1, <1>2, <1>4
<1>6. DecisionOK(d, l, Cold(gap))
  <2> HIDE DEF l, elapsed
  <2> QED BY <1>1, <1>2, <1>3, <1>5, DecideSound
<1>7. Reprobed(d, elapsed) \in 0..Reprobe
  <2> HIDE DEF d, elapsed
  <2> QED BY <1>1, <1>2 DEF Reprobed
<1>8. /\ target' = finish(d.limit) /\ gate' = target' /\ sampled' = TRUE
      /\ phase' = d.phase /\ cooldown' = d.cooldown /\ probe' = d.probe
      /\ ewma' = Folded /\ knee' = Best(Folded) /\ acc' = NoOps /\ congestion_seen' = FALSE
      /\ reprobe_age' = Reprobed(d, elapsed)
      /\ spawned' = IF applier THEN Append(spawned, target_rate(Best(Folded))) ELSE spawned
      /\ Len(spawned) < MaxSpawned
      /\ calm_for' = IF congestion_seen THEN 0 ELSE Lower(Cooldown, calm_for + gap)
      /\ UNCHANGED <<policy, p95, applier, rtt_ewma, rtt_min, limiter_rate, running, weather>>
  BY DEF control_tick, driver
<1> HIDE DEF l, d, elapsed
<1>9. TickFacts(gap, cpu, l, d)
  BY <1>4, <1>6, <1>7, <1>8 DEF TickFacts
<1> QED BY <1>9

LEMMA TickKeeps ==
  ASSUME ControllerIInv, NEW gap \in 1..MaxGap, NEW cpu \in {"fine", "busy", "saturated"},
         control_tick(gap, cpu)
  PROVE  ControllerIInv'
<1>1. PICK l, d : TickFacts(gap, cpu, l, d)
  BY TickDecides
<1>2. /\ UNCHANGED <<policy, p95, applier, rtt_ewma, rtt_min, limiter_rate, running, weather>>
      /\ d.limit \in Nat \ {0} /\ d.phase \in {"SlowStart", "Aimd"} /\ d.cooldown \in 0..Cooldown
      /\ d.probe \in [limit : Nat, goodput : Nat] /\ l \in 1..policy.ceiling
      /\ (d.probe # NoProbe => d.probe.limit = l /\ d.limit = l + 1)
  BY <1>1 DEF TickFacts, DecisionOK
<1>3. DriverTyped /\ DriverTyped' /\ policy.ceiling \in Nat
  BY <1>2 DEF ControllerIInv, DriverTyped
<1>4. /\ target' \in 1..policy.ceiling /\ target' <= memory_cap(policy, p95)
      /\ gate' = target' /\ target' = finish(d.limit)
  <2>1. gate' = target' /\ target' = finish(d.limit)
    BY <1>1 DEF TickFacts
  <2>2. d.limit \in Int
    BY <1>2
  <2>3. finish(d.limit) \in 1..policy.ceiling /\ finish(d.limit) <= memory_cap(policy, p95)
    BY <1>3, <2>2, FinishBounds
  <2> QED BY <2>1, <2>3
<1>5. Folded \in Nat /\ Best(Folded) \in Nat /\ Folded <= Best(Folded)
  BY GoodputTyped
<1>6. /\ target_rate(Best(Folded)) \in Nat
      /\ policy.max_rate > 0 => target_rate(Best(Folded)) \in 1..policy.max_rate
  BY <1>3, <1>5, TargetRateCapped
<1>7. /\ spawned \in Seq(Nat) /\ Len(spawned) \in Nat /\ Len(spawned) < MaxSpawned /\ MaxSpawned \in Nat
      /\ spawned' = IF applier THEN Append(spawned, target_rate(Best(Folded))) ELSE spawned
  BY <1>1, ControllerAssumption DEF ControllerIInv, LawTyped, TickFacts
<1>8. /\ spawned' \in Seq(Nat) /\ Len(spawned') <= MaxSpawned
      /\ \A i \in DOMAIN spawned' :
           \/ i \in DOMAIN spawned /\ spawned'[i] = spawned[i]
           \/ applier /\ spawned'[i] = target_rate(Best(Folded))
  <2> DEFINE r == target_rate(Best(Folded))
  <2> HIDE DEF r
  <2>1. spawned' = IF applier THEN Append(spawned, r) ELSE spawned
    BY <1>7 DEF r
  <2>2. r \in Nat
    BY <1>6 DEF r
  <2>3. CASE applier
    <3>1. spawned' = Append(spawned, r)
      BY <2>1, <2>3
    <3>2. /\ spawned' \in Seq(Nat) /\ Len(spawned') = Len(spawned) + 1
          /\ \A i \in DOMAIN spawned' : (i \in DOMAIN spawned /\ spawned'[i] = spawned[i]) \/ spawned'[i] = r
      BY <1>7, <2>2, <3>1
    <3> QED BY <1>7, <2>3, <3>2 DEF r
  <2>4. CASE ~applier
    <3>1. spawned' = spawned
      BY <2>1, <2>4
    <3> QED BY <1>7, <3>1
  <2> QED BY <2>3, <2>4
<1>9. /\ gap \in Nat /\ Cooldown \in Nat /\ cooldown \in 0..Cooldown /\ calm_for \in 0..Cooldown
      /\ cooldown + calm_for >= Cooldown /\ congestion_seen \in BOOLEAN
  BY ControllerAssumption DEF ControllerIInv, ControllerTypeOK, LawTyped, ColdInv
<1>10. /\ calm_for' = IF congestion_seen THEN 0 ELSE Lower(Cooldown, calm_for + gap)
       /\ cooldown' = IF congestion_seen THEN Cooldown ELSE Most(0, cooldown - gap)
       /\ cooldown' \in 0..Cooldown
  BY <1>1, <1>2, <1>9 DEF TickFacts, DecisionOK, Cold
<1>11. calm_for' \in 0..Cooldown /\ cooldown' + calm_for' >= Cooldown
  BY <1>9, <1>10 DEF Lower, Most
<1>12. probe' # NoProbe => /\ probe'.limit \in 1..policy.ceiling
                           /\ finish(probe'.limit) <= target'
  <2>1. probe' = d.probe
    BY <1>1 DEF TickFacts
  <2>2. ASSUME d.probe # NoProbe PROVE d.probe.limit \in 1..policy.ceiling /\ finish(d.probe.limit) <= target'
    <3>1. d.probe.limit = l /\ d.limit = l + 1 /\ l \in Int /\ l + 1 \in Int /\ l <= l + 1
      BY <1>2, <2>2
    <3>2. finish(l) <= finish(l + 1)
      BY <1>3, <3>1, FinishBounds
    <3> QED BY <1>2, <1>4, <3>1, <3>2
  <2> QED BY <2>1, <2>2
<1>13. ControllerTypeOK'
  <2>1. /\ phase' = d.phase /\ ewma' = Folded /\ knee' = Best(Folded) /\ acc' = NoOps
        /\ reprobe_age' \in 0..Reprobe
    BY <1>1 DEF TickFacts
  <2>2. policy' = policy /\ limiter_rate' = limiter_rate /\ running' = running
        /\ rtt_ewma' = rtt_ewma /\ rtt_min' = rtt_min
    BY <1>2
  <2>3. /\ target' \in 1..policy'.ceiling /\ gate' \in 1..policy'.ceiling
        /\ phase' \in {"SlowStart", "Aimd"}
        /\ ewma' \in Nat /\ knee' \in Nat /\ ewma' <= knee'
        /\ acc' \in {NoOps} \union Nat
        /\ probe' = NoProbe \/ probe'.limit \in 1..policy'.ceiling
    BY <1>2, <1>4, <1>5, <1>12, <2>1, <2>2
  <2> QED BY <1>8, <1>10, <2>1, <2>2, <2>3 DEF ControllerIInv, ControllerTypeOK, NoProbe, NoOps
<1>14. LawTyped'
  BY <1>1, <1>2, <1>8, <1>11 DEF TickFacts, LawTyped
<1>15. LimitInv'
  BY <1>1, <1>2, <1>4 DEF TickFacts, LimitInv, memory_cap
<1>16. RateInv'
  BY <1>2, <1>6, <1>8 DEF ControllerIInv, RateInv
<1>17. ColdInv'
  BY <1>2, <1>11, <1>12 DEF ColdInv, finish, memory_cap, NoProbe
<1> QED BY <1>3, <1>13, <1>14, <1>15, <1>16, <1>17 DEF ControllerIInv

\* The end of the transfer and of the bad weather leave the law alone, as a
\* stuttering step does.
LEMMA QuietKeeps ==
  ASSUME ControllerIInv, Stop \/ Calm \/ UNCHANGED controllerVars
  PROVE  ControllerIInv'
<1>1. /\ UNCHANGED <<policy, p95, applier, target, phase, ewma, knee, cooldown, reprobe_age, probe,
                    rtt_ewma, rtt_min, acc, congestion_seen, sampled, gate, spawned, limiter_rate,
                    calm_for>>
      /\ running' \in {"yes", "draining", "no"}
  BY DEF Stop, Calm, controllerVars, driver, law, samples, applied, ControllerIInv, ControllerTypeOK
<1>2. ControllerTypeOK' /\ DriverTyped' /\ LawTyped'
  BY <1>1 DEF ControllerIInv, ControllerTypeOK, DriverTyped, LawTyped, NoProbe, NoOps
<1>3. LimitInv' /\ RateInv' /\ ColdInv'
  BY <1>1 DEF ControllerIInv, LimitInv, RateInv, ColdInv, finish, memory_cap
<1> QED BY <1>2, <1>3 DEF ControllerIInv

THEOREM ControllerInvariant == ControllerSpec => []ControllerIInv
<1>1. ControllerIInv /\ [ControllerNext]_controllerVars => ControllerIInv'
  <2> SUFFICES ASSUME ControllerIInv, [ControllerNext]_controllerVars PROVE ControllerIInv'
    OBVIOUS
  <2>1. CASE Operate
    BY <2>1, OperateKeeps
  <2>2. CASE DriverTick
    <3>1. PICK gap \in 1..MaxGap, cpu \in {"fine", "busy", "saturated"} : control_tick(gap, cpu)
      BY <2>2 DEF DriverTick
    <3> QED BY <3>1, TickKeeps
  <2>3. CASE \E i \in 1..MaxSpawned : i <= Len(spawned) /\ ApplyRate(i)
    BY <2>3, ApplyRateKeeps
  <2>4. CASE Stop \/ Calm \/ UNCHANGED controllerVars
    BY <2>4, QuietKeeps
  <2> QED BY <2>1, <2>2, <2>3, <2>4 DEF ControllerNext
<1> QED BY <1>1, ControllerInitInvariant, PTL DEF ControllerSpec

\* The limit in force stays inside the memory budget from the first tick on,
\* and the rate cap is neither exceeded nor lifted, for every policy, memory,
\* goodput and order of the spawned retunes.
THEOREM BudgetsAlwaysHold == ControllerSpec => []BudgetsHold
<1>1. ControllerIInv => BudgetsHold
  <2> SUFFICES ASSUME ControllerIInv PROVE BudgetsHold
    OBVIOUS
  <2>1. DriverTyped /\ ControllerTypeOK /\ gate \in 1..policy.ceiling /\ policy.ceiling \in Nat
    BY DEF ControllerIInv, ControllerTypeOK, DriverTyped
  <2>2. ASSUME sampled PROVE gate = 1 \/ TotalRam = 0 \/ 100 * gate * p95 <= policy.percent * TotalRam
    <3>1. gate <= memory_cap(policy, p95) /\ gate \in Nat \ {0}
      BY <2>1, <2>2 DEF ControllerIInv, LimitInv
    <3> QED BY <2>1, <3>1, MemoryCap
  <2> QED BY <2>1, <2>2 DEF BudgetsHold, ControllerIInv, RateInv
<1> QED BY <1>1, ControllerInvariant, PTL

\* No tick raises the limit in force before a cooldown's worth of ticks has
\* passed since the last congestion, a reverted probe and a late tick included.
THEOREM CooldownIsKept == ControllerSpec => CooldownHolds
<1> DEFINE A == gate' > gate => calm_for' >= Cooldown
<1>1. ControllerIInv /\ [ControllerNext]_controllerVars => [A]_controllerVars
  <2> SUFFICES ASSUME ControllerIInv, ControllerNext, gate' > gate PROVE calm_for' >= Cooldown
    OBVIOUS
  <2>1. gate \in Nat
    BY DEF ControllerIInv, ControllerTypeOK, DriverTyped
  <2>2. DriverTick
    <3>1. DriverTick \/ gate' = gate
      BY DEF ControllerNext, Operate, record_op, ApplyRate, Stop, Calm, applied
    <3> QED BY <2>1, <3>1
  <2>3. PICK gap \in 1..MaxGap, cpu \in {"fine", "busy", "saturated"} : control_tick(gap, cpu)
    BY <2>2 DEF DriverTick
  <2>4. PICK l, d : TickFacts(gap, cpu, l, d)
    BY <2>3, TickDecides
  <2>5. /\ DriverTyped /\ target \in 1..policy.ceiling /\ gate \in 1..policy.ceiling
        /\ policy.ceiling \in Nat /\ Cooldown \in Nat /\ gap \in Nat
        /\ cooldown \in 0..Cooldown /\ calm_for \in 0..Cooldown /\ cooldown + calm_for >= Cooldown
        /\ (sampled => gate = target)
        /\ (~sampled => target <= 2 /\ cooldown = 0 /\ calm_for = Cooldown)
    BY ControllerAssumption
       DEF ControllerIInv, ControllerTypeOK, DriverTyped, LawTyped, LimitInv, ColdInv
  <2>6. /\ l \in 1..policy.ceiling /\ finish(l) <= target /\ (~sampled => l = target)
        /\ gate' = finish(d.limit) /\ d.limit \in Nat \ {0}
        /\ (d.limit > l => ~congestion_seen /\ Cold(gap) = 0)
        /\ (congestion_seen => d.limit = Halved(l))
        /\ calm_for' = IF congestion_seen THEN 0 ELSE Lower(Cooldown, calm_for + gap)
    BY <2>4 DEF TickFacts, DecisionOK
  <2>7. ~congestion_seen
    <3> SUFFICES ASSUME congestion_seen PROVE FALSE
      OBVIOUS
    <3>1. Halved(l) \in 1..l /\ (l <= 2 => Halved(l) = 1) /\ l \in Nat
      BY <2>5, <2>6, Backoffs
    <3>2. finish(Halved(l)) <= finish(l) /\ finish(Halved(l)) <= Halved(l)
          /\ finish(Halved(l)) \in Int /\ finish(l) \in Int
      BY <2>5, <3>1, FinishBounds
    <3> QED BY <2>5, <2>6, <3>1, <3>2
  <2>8. calm_for + gap >= Cooldown
    <3>1. CASE ~sampled
      BY <2>5, <3>1
    <3>2. CASE sampled
      <4>1. d.limit > l
        <5> SUFFICES ASSUME d.limit <= l PROVE FALSE
          BY <2>5, <2>6
        <5>1. finish(d.limit) <= finish(l) /\ finish(d.limit) \in Int /\ finish(l) \in Int
          BY <2>5, <2>6, FinishBounds
        <5> QED BY <2>5, <2>6, <3>2, <5>1
      <4>2. Cold(gap) = 0
        BY <2>6, <4>1
      <4>3. cooldown <= gap
        BY <2>5, <4>2 DEF Cold, Most
      <4> QED BY <2>5, <4>3
    <3> QED BY <3>1, <3>2
  <2> QED BY <2>5, <2>6, <2>7, <2>8 DEF Lower
<1>2. CooldownHolds <=> [][A]_controllerVars
  BY DEF CooldownHolds
<1> HIDE DEF A
<1> QED BY <1>1, <1>2, ControllerInvariant, PTL DEF ControllerSpec
=============================================================================
