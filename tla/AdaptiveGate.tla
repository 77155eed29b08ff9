---------------------------- MODULE AdaptiveGate ----------------------------
(***************************************************************************)
(* The resizable permit pool that bounds concurrent transfers              *)
(* (snapdir-stores/src/adaptive.rs, AdaptiveGate).  One logical limit is   *)
(* served by two pools: a tokio semaphore for the async path, and a mutex  *)
(* with a condition variable for the rayon path.  A single ticker retunes  *)
(* the limit with set_limit while transfers acquire and drop permits.      *)
(*                                                                         *)
(* Every atomic access, semaphore call and critical section of the code is *)
(* one step here, so set_limit and the drops interleave as they do there.  *)
(* A task or a thread stands for one transfer: it acquires once, and drops *)
(* once.                                                                   *)
(***************************************************************************)
EXTENDS Integers, FiniteSets

CONSTANTS
    Task,       \* transfers on the async path
    Thread,     \* transfers on the blocking path
    Ceiling,    \* the largest limit, as clamped by AdaptiveGate::new
    Start,      \* the initial limit, as clamped by AdaptiveGate::new
    MaxRetunes  \* bound: calls of set_limit that change the limit

ASSUME WorkAssumption == IsFiniteSet(Task) /\ IsFiniteSet(Thread)
ASSUME CeilingAssumption == Ceiling \in Nat \ {0}
ASSUME StartAssumption == Start \in 1..Ceiling
ASSUME RetunesAssumption == MaxRetunes \in Nat

VARIABLES
    limit,      \* GateInner.limit
    sem,        \* permits available in the tokio semaphore
    debt,       \* GateInner.async_debt
    task,       \* where each async transfer is
    seen,       \* the debt each dropping task last read
    tick,       \* where set_limit is
    delta,      \* permits set_limit has yet to add (> 0) or to remove (< 0)
    retunes,    \* calls so far
    available,  \* BlockingState.available
    blimit,     \* BlockingState.limit
    inflight,   \* BlockingState.in_flight
    thread      \* where each blocking transfer is

async == <<sem, debt, task, seen>>
ticker == <<tick, delta, retunes>>
blocking == <<available, blimit, inflight, thread>>
vars == <<limit, async, ticker, blocking>>

TypeOK ==
    /\ limit \in 1..Ceiling
    /\ sem \in Nat
    /\ debt \in Nat
    /\ task \in [Task -> {"start", "held", "drop", "done"}]
    /\ seen \in [Task -> Nat]
    /\ tick \in {"idle", "grow", "add", "shrink", "owe", "blocking", "notify"}
    /\ delta \in Int
    /\ retunes \in Nat
    /\ available \in Nat
    /\ blimit \in 1..Ceiling
    /\ inflight \in Nat
    /\ thread \in [Thread -> {"start", "asleep", "held", "notify", "done"}]

Init ==
    /\ limit = Start
    /\ sem = Start
    /\ debt = 0
    /\ task = [t \in Task |-> "start"]
    /\ seen = [t \in Task |-> 0]
    /\ tick = "idle"
    /\ delta = 0
    /\ retunes = 0
    /\ available = Start
    /\ blimit = Start
    /\ inflight = 0
    /\ thread = [t \in Thread |-> "start"]

-----------------------------------------------------------------------------
(* The async pool.                                                         *)

\* acquire: the semaphore hands out a permit.
Acquire(t) ==
    /\ task[t] = "start"
    /\ sem > 0
    /\ sem' = sem - 1
    /\ task' = [task EXCEPT ![t] = "held"]
    /\ UNCHANGED <<limit, debt, seen, ticker, blocking>>

\* GatePermit::drop reads the debt.
LoadDebt(t) ==
    /\ task[t] = "held"
    /\ seen' = [seen EXCEPT ![t] = debt]
    /\ task' = [task EXCEPT ![t] = "drop"]
    /\ UNCHANGED <<limit, sem, debt, ticker, blocking>>

\* Mutant: the debt is stored back without a compare-and-swap.
PayDebtUnchecked(t) ==
    /\ task[t] = "drop"
    /\ seen[t] # 0
    /\ debt' = seen[t] - 1
    /\ task' = [task EXCEPT ![t] = "done"]
    /\ UNCHANGED <<limit, sem, seen, ticker, blocking>>

\* It read no debt: the permit goes back to the semaphore.
ReturnPermit(t) ==
    /\ task[t] = "drop"
    /\ seen[t] = 0
    /\ sem' = sem + 1
    /\ task' = [task EXCEPT ![t] = "done"]
    /\ UNCHANGED <<limit, debt, seen, ticker, blocking>>

\* compare_exchange_weak succeeds: the permit is forgotten and pays one debt.
PayDebt(t) ==
    /\ task[t] = "drop"
    /\ seen[t] # 0
    /\ debt = seen[t]
    /\ debt' = debt - 1
    /\ task' = [task EXCEPT ![t] = "done"]
    /\ UNCHANGED <<limit, sem, seen, ticker, blocking>>

\* It fails, and reports the debt it found.
RetryDebt(t) ==
    /\ task[t] = "drop"
    /\ seen[t] # 0
    /\ debt # seen[t]
    /\ seen' = [seen EXCEPT ![t] = debt]
    /\ UNCHANGED <<limit, sem, debt, task, ticker, blocking>>

-----------------------------------------------------------------------------
(* set_limit, called by the ticker alone.                                  *)

\* limit.swap(new): new is already clamped to [1, ceiling].
SwapLimit(new) ==
    /\ tick = "idle"
    /\ retunes < MaxRetunes
    /\ new # limit
    /\ limit' = new
    /\ delta' = new - limit
    /\ tick' = IF new > limit THEN "grow" ELSE "shrink"
    /\ retunes' = retunes + 1
    /\ UNCHANGED <<async, blocking>>

\* take_debt: growth first cancels removals that are still owed.
TakeDebt ==
    /\ tick = "grow"
    /\ LET pay == IF debt < delta THEN debt ELSE delta
       IN  debt' = debt - pay /\ delta' = delta - pay
    /\ tick' = "add"
    /\ UNCHANGED <<limit, sem, task, seen, retunes, blocking>>

\* add_permits(remainder).
AddPermits ==
    /\ tick = "add"
    /\ sem' = sem + delta
    /\ delta' = 0
    /\ tick' = "blocking"
    /\ UNCHANGED <<limit, debt, task, seen, retunes, blocking>>

\* try_acquire_owned and forget, while there is something to remove.
ForgetPermit ==
    /\ tick = "shrink"
    /\ delta < 0
    /\ sem > 0
    /\ sem' = sem - 1
    /\ delta' = delta + 1
    /\ UNCHANGED <<limit, debt, task, seen, tick, retunes, blocking>>

\* Nothing is left to remove, or the semaphore was found empty ...
StopForgetting ==
    /\ tick = "shrink"
    /\ delta = 0 \/ sem = 0
    /\ tick' = "owe"
    /\ UNCHANGED <<limit, async, delta, retunes, blocking>>

\* ... and async_debt.fetch_add records the rest.
AddDebt ==
    /\ tick = "owe"
    /\ debt' = debt - delta
    /\ delta' = 0
    /\ tick' = "blocking"
    /\ UNCHANGED <<limit, sem, task, seen, retunes, blocking>>

\* Mutant: the sleepers are not notified when the limit grows.
SetBlockingSilently ==
    /\ tick = "blocking"
    /\ blimit' = limit
    /\ available' = IF limit > inflight THEN limit - inflight ELSE 0
    /\ tick' = "idle"
    /\ UNCHANGED <<limit, async, delta, retunes, inflight, thread>>

\* The blocking pool is retuned under its mutex.  Only set_limit writes the two
\* limits, so the old one is still blimit here.
SetBlocking ==
    /\ tick = "blocking"
    /\ blimit' = limit
    /\ available' = IF limit > inflight THEN limit - inflight ELSE 0
    /\ tick' = IF limit > blimit THEN "notify" ELSE "idle"
    /\ UNCHANGED <<limit, async, delta, retunes, inflight, thread>>

\* notify_all, after the mutex is released.
NotifyAll ==
    /\ tick = "notify"
    /\ thread' = [t \in Thread |-> IF thread[t] = "asleep" THEN "start" ELSE thread[t]]
    /\ tick' = "idle"
    /\ UNCHANGED <<limit, async, delta, retunes, available, blimit, inflight>>

-----------------------------------------------------------------------------
(* The blocking pool.                                                      *)

\* acquire_blocking, one turn of its loop under the mutex.
AcquireBlocking(t) ==
    /\ thread[t] = "start"
    /\ IF available > 0
       THEN /\ available' = available - 1
            /\ inflight' = inflight + 1
            /\ thread' = [thread EXCEPT ![t] = "held"]
       ELSE /\ thread' = [thread EXCEPT ![t] = "asleep"]
            /\ UNCHANGED <<available, inflight>>
    /\ UNCHANGED <<limit, async, ticker, blimit>>

\* Mutant: a dropped permit always returns to the pool.
DropBlockingAlways(t) ==
    /\ thread[t] = "held"
    /\ inflight' = inflight - 1
    /\ available' = available + 1
    /\ thread' = [thread EXCEPT ![t] = "notify"]
    /\ UNCHANGED <<limit, async, ticker, blimit>>

\* Mutant: a dropped permit returns to the pool but nobody is notified.
DropBlockingSilently(t) ==
    /\ thread[t] = "held"
    /\ inflight' = inflight - 1
    /\ available' = IF available + inflight' < blimit THEN available + 1 ELSE available
    /\ thread' = [thread EXCEPT ![t] = "done"]
    /\ UNCHANGED <<limit, async, ticker, blimit>>

\* BlockingGatePermit::drop under the mutex: the permit returns to the pool
\* unless a shrink absorbs it.
DropBlocking(t) ==
    /\ thread[t] = "held"
    /\ inflight' = inflight - 1
    /\ IF available + inflight' < blimit
       THEN available' = available + 1 /\ thread' = [thread EXCEPT ![t] = "notify"]
       ELSE thread' = [thread EXCEPT ![t] = "done"] /\ UNCHANGED available
    /\ UNCHANGED <<limit, async, ticker, blimit>>

\* notify_one, after the mutex is released: some sleeper wakes, if there is one.
NotifyOne(t) ==
    /\ thread[t] = "notify"
    /\ \/ \E u \in Thread :
             /\ thread[u] = "asleep"
             /\ thread' = [thread EXCEPT ![t] = "done", ![u] = "start"]
       \/ /\ \A u \in Thread : thread[u] # "asleep"
          /\ thread' = [thread EXCEPT ![t] = "done"]
    /\ UNCHANGED <<limit, async, ticker, available, blimit, inflight>>

\* A condition variable may wake a sleeper for no reason.
SpuriousWakeup(t) ==
    /\ thread[t] = "asleep"
    /\ thread' = [thread EXCEPT ![t] = "start"]
    /\ UNCHANGED <<limit, async, ticker, available, blimit, inflight>>

-----------------------------------------------------------------------------
TaskStep(t) ==
    Acquire(t) \/ LoadDebt(t) \/ ReturnPermit(t) \/ PayDebt(t) \/ RetryDebt(t)

SetLimitStep ==
    \/ TakeDebt \/ AddPermits
    \/ ForgetPermit \/ StopForgetting \/ AddDebt
    \/ SetBlocking \/ NotifyAll

ThreadStep(t) == AcquireBlocking(t) \/ DropBlocking(t) \/ NotifyOne(t)

Next ==
    \/ \E t \in Task : TaskStep(t)
    \/ \E n \in 1..Ceiling : SwapLimit(n)
    \/ SetLimitStep
    \/ \E t \in Thread : ThreadStep(t) \/ SpuriousWakeup(t)

Spec == Init /\ [][Next]_vars

\* Transfers and the ticker run on live threads; nobody owes a new set_limit
\* or a spurious wakeup.
FairSpec ==
    /\ Spec
    /\ \A t \in Task : WF_vars(TaskStep(t))
    /\ \A t \in Thread : WF_vars(ThreadStep(t))
    /\ WF_vars(SetLimitStep)

-----------------------------------------------------------------------------
(* Properties.                                                             *)

Holders == {t \in Task : task[t] \in {"held", "drop"}}
BlockingHolders == {t \in Thread : thread[t] = "held"}
Awake == {t \in Thread : thread[t] \in {"start", "notify"}}

\* However drops race set_limit, no async permit is made or lost: those in the
\* pool and those held exceed the limit by the debt, but for the permits that
\* set_limit is still moving (GatePermit::drop, set_limit, take_debt).
PermitsConserved == sem + Cardinality(Holders) + delta = limit + debt

\* The blocking pool offers exactly what the limit leaves over, and never
\* counts a permit twice, through any sequence of shrinks below what is in
\* flight (BlockingGatePermit::drop, set_limit).
BlockingExact ==
    /\ inflight = Cardinality(BlockingHolders)
    /\ available = IF blimit > inflight THEN blimit - inflight ELSE 0

\* No wakeup is lost: while a thread sleeps, each permit on offer has an awake
\* thread, or a thread about to notify one, to answer for it.
NoLostWakeup ==
    (\E t \in Thread : thread[t] = "asleep") /\ tick # "notify"
        => available <= Cardinality(Awake)

\* Every transfer is served in the end, although the limit is retuned under it.
AllServed == <>(/\ \A t \in Task : task[t] = "done"
                /\ \A t \in Thread : thread[t] = "done")

=============================================================================
