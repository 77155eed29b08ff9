----------------------------- MODULE Controller -----------------------------
(***************************************************************************)
(* The adaptive transfer controller: the control law of AdaptiveController *)
(* and the ControllerDriver that samples the machine, ticks the law and    *)
(* applies its decision to the gate and to the rate limiter                *)
(* (snapdir-stores/src/adaptive.rs, push.rs, fetch.rs, file_store.rs), from *)
(* the command line's options on (snapdir-cli/src/cli.rs).                 *)
(*                                                                         *)
(* Rates and latencies are small integers; an EWMA (alpha 0.3) is rounded  *)
(* towards its sample.  Time is a count of ticks: the code's cooldown and  *)
(* re-probe intervals (15 s, sixty ticks of 250 ms) are Cooldown and       *)
(* Reprobe ticks, and a tick may come late (MissedTickBehavior::Skip).  An *)
(* absent option or rate (None) is 0.  The RSS sample is not used by the   *)
(* code and the display meter mirrors what is here: both are left out.     *)
(***************************************************************************)
EXTENDS Integers, Sequences, FiniteSets, SequencesExt

CONSTANTS Options,       \* command lines: percent, jobs, max_jobs, limit_rate,
                         \* scheme, and the sizes of the objects to transfer
          Detected,      \* the detected parallelism
          CeilingCap,    \* ADAPTIVE_CEILING_CAP
          BackendRates,  \* scheme -> published byte rates, 0 for none
          TotalRam,      \* bytes of RAM, 0 when unknown
          PerOp,         \* bytes per unit of latency of one operation
          Fast, Slow,    \* the latencies operations show
          Cooldown, Reprobe, MaxGap,  \* in ticks; MaxGap bounds a late tick
          MaxSpawned     \* how many set_rate tasks may be waiting to run

ASSUME ControllerAssumption ==
  /\ \A s \in DOMAIN BackendRates : BackendRates[s] \in [read : Nat, write : Nat]
  /\ \A o \in Options :
       /\ o.percent \in Int /\ o.jobs \in Nat /\ o.max_jobs \in Int /\ o.limit_rate \in Nat
       /\ o.scheme \in DOMAIN BackendRates /\ o.sizes \in Seq(Nat)
  /\ Detected \in Nat \ {0} /\ CeilingCap \in Nat \ {0} /\ TotalRam \in Nat
  /\ PerOp \subseteq Nat \ {0} /\ PerOp # {}
  /\ Fast \in Nat \ {0} /\ Slow \in Nat /\ Fast < Slow
  /\ Cooldown \in Nat \ {0} /\ MaxGap \in Nat \ {0} /\ Reprobe \in Nat
  /\ MaxGap < Reprobe
  /\ MaxSpawned \in Nat \ {0}

Lower(a, b) == IF a < b THEN a ELSE b

Most(a, b) == IF a < b THEN b ELSE a

-----------------------------------------------------------------------------
(* From the options to the policy.                                         *)

\* The lower of two caps, either of which may be absent.
min_opt(a, b) == IF a = 0 \/ b = 0 THEN Most(a, b) ELSE Lower(a, b)

\* The operator's --limit-rate, else the backend's own limit.
resolve_rate_limits(o) ==
  IF o.limit_rate > 0
    THEN o.limit_rate
    ELSE min_opt(BackendRates[o.scheme].read, BackendRates[o.scheme].write)

\* --jobs seeds the gate; --max-jobs, else --jobs, else the detected
\* parallelism is the ceiling.
transfer_config_for(o) ==
  LET concurrency == IF o.jobs > 0 THEN o.jobs ELSE Detected
      asked == IF o.max_jobs >= 0 THEN o.max_jobs ELSE concurrency
  IN  [concurrency |-> concurrency,
       ceiling |-> Lower(Most(asked, 1), CeilingCap),
       percent |-> o.percent,
       max_rate |-> resolve_rate_limits(o)]

\* AdaptivePolicy::new: a fraction outside (0, 1] is 0.8, a ceiling is at
\* least one.
new_policy(config) ==
  [percent |-> IF config.percent \in 1..100 THEN config.percent ELSE 80,
   ceiling |-> Most(config.ceiling, 1),
   max_rate |-> config.max_rate]

\* The nearest-rank 95th percentile of the object sizes, 0 for none: the least
\* size that 95 percent of them do not exceed.
p95_object_size(sizes) ==
  LET Covers(x) == 100 * Cardinality({i \in DOMAIN sizes : sizes[i] <= x}) >= 95 * Len(sizes)
  IN  IF sizes = <<>>
        THEN 0
        ELSE CHOOSE x \in Range(sizes) :
               Covers(x) /\ \A y \in Range(sizes) : Covers(y) => x <= y

\* How many objects the memory budget lets be in flight.
memory_cap(pol, p95) ==
  IF TotalRam = 0 \/ p95 = 0
    THEN pol.ceiling
    ELSE Lower(pol.ceiling, Most(1, (pol.percent * TotalRam) \div (100 * p95)))

-----------------------------------------------------------------------------

VARIABLES policy,   \* the controller's policy
          p95,      \* p95_obj_size of the transfer
          applier,  \* whether there is a rate limiter to retune: not in FileStore
          target, phase,         \* the controller's limit and phase
          ewma, knee,            \* smoothed goodput, and the best of it so far
          rtt_ewma, rtt_min,     \* smoothed and least latency, 0 for not known
          acc,                   \* goodput per slot of the ops since the last tick
          congestion_seen,
          cooldown,              \* ticks of cooldown left
          reprobe_age,           \* ticks since the last re-probe
          probe,                 \* the re-probe outstanding
          sampled,               \* CpuSampler has its baseline
          gate,                  \* the limit in force in the gate
          spawned,               \* set_rate tasks that have not run yet
          limiter_rate,          \* the rate limiter's rate
          running,               \* "yes", "draining" after a failed op, or "no"
          weather,               \* the environment: "rough" or "calm" from now on
          calm_for               \* history: ticks since the last congestion

driver == <<policy, p95, applier>>
law == <<target, phase, ewma, knee, cooldown, reprobe_age, probe>>
samples == <<rtt_ewma, rtt_min, acc, congestion_seen>>
applied == <<gate, spawned, limiter_rate>>
controllerVars == <<driver, law, samples, sampled, applied, running, weather, calm_for>>

NoProbe == [limit |-> 0, goodput |-> 0]

\* No operation since the last tick.
NoOps == -1

\* A transfer begins with the policy its options ask for.
Begin(o) ==
  LET config == transfer_config_for(o)
  IN  /\ policy = new_policy(config)
      /\ p95 = p95_object_size(o.sizes)
      /\ gate = Lower(config.concurrency, policy.ceiling)

ControllerInit ==
  /\ \E o \in Options : Begin(o)
  /\ applier \in BOOLEAN
  /\ target = Most(1, Lower(2, policy.ceiling))
  /\ phase = "SlowStart"
  /\ ewma = 0 /\ knee = 0 /\ rtt_ewma = 0 /\ rtt_min = 0
  /\ acc = NoOps
  /\ congestion_seen = FALSE
  /\ cooldown = 0 /\ reprobe_age = 0
  /\ probe = NoProbe
  /\ sampled = FALSE
  /\ spawned = <<>>
  /\ limiter_rate = IF applier THEN policy.max_rate ELSE 0
  /\ running = "yes"
  /\ weather = "rough"
  /\ calm_for = Cooldown

-----------------------------------------------------------------------------

\* One step of an EWMA with alpha 0.3, rounded towards the sample.
Ewma(old, x) ==
  IF old <= 0 THEN x
  ELSE IF x >= old THEN old + (3 * (x - old) + 9) \div 10
  ELSE old - (3 * (old - x) + 9) \div 10

Between(a, b) == Lower(a, b)..Most(a, b)

\* A completed or failed operation is reported.  A failed one moved no bytes
\* and is the last to start: the operations in flight still finish, then the
\* transfer fails.  One too quick for the clock says nothing of the latency.
record_op(latency, per_op, ok) ==
  /\ running # "no"
  /\ rtt_ewma' = IF latency > 0 THEN Ewma(rtt_ewma, latency) ELSE rtt_ewma
  /\ rtt_min' = IF latency > 0 /\ (rtt_min = 0 \/ latency < rtt_min)
                  THEN latency ELSE rtt_min
  /\ LET x == IF ok THEN per_op ELSE 0
     IN  IF latency = 0 THEN acc' = acc
         ELSE IF acc = NoOps THEN acc' = x
         ELSE acc' \in Between(acc, x)
  /\ congestion_seen' = (congestion_seen \/ ~ok)
  /\ running' = IF ok THEN running ELSE "draining"
  /\ UNCHANGED <<driver, law, sampled, applied, weather, calm_for>>

\* The operations of calm weather succeed at the best latency there is.
Operate ==
  \/ /\ weather = "rough"
     /\ \E latency \in {0, Fast, Slow}, per_op \in PerOp, ok \in BOOLEAN :
          record_op(latency, per_op, ok)
  \/ /\ weather = "calm" /\ running = "yes"
     /\ \E per_op \in PerOp : record_op(Fast, per_op, TRUE)

-----------------------------------------------------------------------------

\* The goodput of the window: the average per slot times the limit.
window_goodput == IF acc = NoOps THEN 0 ELSE acc * target

\* The goodput estimate with the window folded in.
Folded == IF window_goodput > 0 THEN Ewma(ewma, window_goodput) ELSE ewma

\* rtt_min / rtt_ewma is below 0.7: a queue is building.
Queueing == rtt_min > 0 /\ 10 * rtt_min < 7 * rtt_ewma

\* More than two percent above.
Improved(new, old) == 100 * new > 102 * old

\* The re-probe outstanding is kept only if it helped.
Resolved(goodput) ==
  IF probe # NoProbe
     /\ (~Improved(goodput, probe.goodput) \/ congestion_seen \/ Queueing)
    THEN probe.limit
    ELSE target

\* Multiplying by 0.5 and by 1.5, rounded half up as finish rounds.
Halved(n) == Most(1, (n + 1) \div 2)

Grown(n) == (3 * n + 1) \div 2

\* The best estimate so far.
Best(goodput) == Most(knee, goodput)

\* What the law does with its limit l, its phase, the cooldown and the probe:
\* the first case that applies, of congestion, a saturated CPU, a queue, a
\* reason not to grow, and the growth of each phase.  Rising is measured
\* against the estimate of the previous tick.
Decide(l, goodput, cpu, cold, age) ==
  LET Out(n, ph, cool, reprobed, pr) ==
        [limit |-> n, phase |-> ph, cooldown |-> cool, reprobed |-> reprobed, probe |-> pr]
  IN  CASE congestion_seen -> Out(Halved(l), "Aimd", Cooldown, FALSE, NoProbe)
        [] ~congestion_seen /\ cpu = "saturated" -> Out(Halved(l), phase, cold, FALSE, NoProbe)
        [] ~congestion_seen /\ cpu # "saturated" /\ Queueing ->
             Out(Most(1, l - 1), "Aimd", cold, FALSE, NoProbe)
        [] OTHER ->
             IF cold > 0 \/ cpu = "busy"
               THEN Out(l, phase, cold, FALSE, NoProbe)
             ELSE IF phase = "SlowStart"
               THEN IF Improved(goodput, ewma) \/ ewma <= 0
                      THEN Out(Grown(l), phase, cold, FALSE, NoProbe)
                      ELSE Out(l + 1, "Aimd", cold, FALSE, NoProbe)
             ELSE IF age >= Reprobe
               THEN Out(l + 1, phase, cold, TRUE, [limit |-> l, goodput |-> goodput])
             ELSE Out(l + 1, phase, cold, FALSE, NoProbe)

\* Mutant: the cooldown is forgotten at the next tick.
ColdForgotten(gap) == 0

\* What is left of the cooldown.
Cold(gap) == Most(0, cooldown - gap)

\* Mutant: last_reprobe is never set again: every tick probes.
ReprobedStale(d, age) == age

\* The first tick and a re-probe set last_reprobe.
Reprobed(d, age) == IF d.reprobed \/ ~sampled THEN 0 ELSE age

\* Mutant: the knee is followed past the cap.
target_rate_uncapped(k) ==
  IF k > 0 THEN Most(1, (policy.percent * k) \div 100) ELSE policy.max_rate

\* A fraction of the knee, at least one, never above the cap; the cap alone
\* before there is a knee; 0 for unlimited.
target_rate(k) ==
  IF k > 0
    THEN min_opt(Most(1, (policy.percent * k) \div 100), policy.max_rate)
    ELSE policy.max_rate

\* The hard caps, at the end of every tick: the ceiling and the memory budget.
finish(n) == Lower(Lower(Most(n, 1), policy.ceiling), memory_cap(policy, p95))

\* A tick of the driver, gap ticks after the one before: the CPU is sampled
\* (below 85 percent or not known is "fine"; the first poll only
\* sets the baseline), the law decides, the gate is
\* resized and the retune of the rate limiter is spawned.
control_tick(gap, cpu) ==
  LET goodput == Folded
      cold == Cold(gap)
      age == Lower(Reprobe, reprobe_age + gap)
      d == Decide(Resolved(goodput), goodput, cpu, cold, age)
      best == Best(goodput)
  IN  /\ running # "no"
      /\ Len(spawned) < MaxSpawned
      /\ ~sampled => cpu = "fine"
      /\ sampled' = TRUE
      /\ ewma' = goodput
      /\ knee' = best
      /\ target' = finish(d.limit)
      /\ phase' = d.phase
      /\ cooldown' = d.cooldown
      /\ reprobe_age' = Reprobed(d, age)
      /\ probe' = d.probe
      /\ acc' = NoOps
      /\ congestion_seen' = FALSE
      /\ gate' = target'
      /\ spawned' = IF applier THEN Append(spawned, target_rate(best)) ELSE spawned
      /\ calm_for' = IF congestion_seen THEN 0 ELSE Lower(Cooldown, calm_for + gap)
      /\ UNCHANGED <<driver, rtt_ewma, rtt_min, limiter_rate, running, weather>>

DriverTick ==
  \E gap \in 1..MaxGap :
    \/ weather = "rough" /\ \E cpu \in {"fine", "busy", "saturated"} : control_tick(gap, cpu)
    \/ weather = "calm" /\ control_tick(gap, "fine")

\* A spawned set_rate runs: the tasks of a multi-threaded runtime run in any
\* order.
ApplyRate(i) ==
  /\ limiter_rate' = spawned[i]
  /\ spawned' = RemoveAt(spawned, i)
  /\ UNCHANGED <<driver, law, samples, sampled, gate, running, weather, calm_for>>

\* The transfer ends, in success or failure, and the ticker is stopped.
Stop ==
  /\ running # "no"
  /\ running' = "no"
  /\ UNCHANGED <<driver, law, samples, sampled, applied, weather, calm_for>>

\* The environment stops misbehaving.
Calm ==
  /\ weather = "rough" /\ running = "yes"
  /\ weather' = "calm"
  /\ UNCHANGED <<driver, law, samples, sampled, applied, running, calm_for>>

ControllerNext ==
  \/ Operate
  \/ DriverTick
  \/ \E i \in 1..MaxSpawned : i <= Len(spawned) /\ ApplyRate(i)
  \/ Stop
  \/ Calm

ControllerSpec == ControllerInit /\ [][ControllerNext]_controllerVars

\* The ticker ticks, a spawned task runs, and operations complete.
ControllerFairSpec ==
  /\ ControllerSpec
  /\ WF_controllerVars(DriverTick)
  /\ WF_controllerVars(\E i \in 1..MaxSpawned : i <= Len(spawned) /\ ApplyRate(i))
  /\ WF_controllerVars(Operate)

-----------------------------------------------------------------------------

\* The state stays in range; the limit is one the policy allows.
ControllerTypeOK ==
  /\ target \in 1..policy.ceiling
  /\ gate \in 1..policy.ceiling
  /\ phase \in {"SlowStart", "Aimd"}
  /\ ewma \in Nat /\ knee \in Nat /\ ewma <= knee
  /\ rtt_ewma \in {0} \union Fast..Slow /\ rtt_min \in {0, Fast, Slow}
  /\ acc \in {NoOps} \union Nat
  /\ cooldown \in 0..Cooldown /\ reprobe_age \in 0..Reprobe
  /\ probe = NoProbe \/ probe.limit \in 1..policy.ceiling
  /\ limiter_rate \in Nat /\ Len(spawned) <= MaxSpawned
  /\ running \in {"yes", "draining", "no"}

\* "limit x p95_obj_size <= fraction x total_ram" (adaptive.rs, finish): from
\* the first tick on the limit in force keeps the objects in flight inside the
\* memory budget, through slow start, probes and their reverts; only a budget
\* below one object leaves one.  And the operator's --limit-rate (or else the
\* backend's) is never exceeded and never lifted, whatever the goodput and
\* whichever order the spawned retunes run in.  With the types of the state.
BudgetsHold ==
  /\ ControllerTypeOK
  /\ sampled => \/ gate = 1
                \/ TotalRam = 0
                \/ 100 * gate * p95 <= policy.percent * TotalRam
  /\ (applier /\ policy.max_rate > 0) => limiter_rate \in 1..policy.max_rate

\* "Cooldown after a congestion event during which we never increase"
\* (adaptive.rs, COOLDOWN): between a tick that saw congestion and the end of
\* the cooldown no decision raises the limit in force, a reverted probe and a
\* late tick included.
CooldownHolds ==
  [][gate' > gate => calm_for' >= Cooldown]_controllerVars

\* The controller never wedges: once the operations succeed at the best
\* latency and the CPU is not the bottleneck, the limit in force climbs to all
\* the policy and the memory budget allow, whatever happened before.
Recovers ==
  weather = "calm" ~> (gate = memory_cap(policy, p95) \/ running = "no")
=============================================================================
