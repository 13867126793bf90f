------------------------- MODULE AppleSiliconProvider -------------------------
(***************************************************************************)
(* AppleSiliconProvider (src/src/providers/apple_silicon.rs) under its     *)
(* sampling loop.  The provider keeps two things that must stay in step:   *)
(* the previous IOReport samples, which sample_energy_model_delta slides,  *)
(* and the time of the previous reading, which sample_power_state stamps.  *)
(* The first is public, so main may slide the samples alone.               *)
(*                                                                         *)
(* IOReport is external: energy counters in nJ per channel that may be     *)
(* reset (sleep), any call on them may fail, and a channel may come back   *)
(* without a sample or a name.  The wall clock may step back, and reads 0  *)
(* before the epoch.                                                       *)
(***************************************************************************)
EXTENDS PendingQueue

CONSTANTS
  Channels,      \* the channels of the Energy Model group
  NJ_PER_UJ,     \* 1000 in the code, scaled down for TLC
  Bursts,        \* nJ a channel may count between two readings
  IdlePowers,    \* baselines main may set, uW
  MaxActive,     \* bound: length of the active PIDs main sets
  Snapshots,     \* burst powers of the snapshots main attributes with, uW
  Spans,         \* window lengths main attributes, ns
  MaxBurnt,      \* bound: nJ burnt in a behaviour
  Times,         \* bound: readings of the wall clock, ns
  MaxFaults,     \* bound: backward steps of the wall clock, resets of a
                 \*   counter and samples with an unreadable channel
  MaxEnqueued    \* bound: uJ put into pending up to which main enqueues more

ASSUME AppleAssumption ==
  /\ IsFiniteSet(Channels) /\ NJ_PER_UJ \in Nat \ {0}
  /\ Bursts \subseteq Nat /\ IdlePowers \subseteq U64 /\ 0 \in IdlePowers
  /\ MaxActive \in Nat /\ Snapshots \subseteq U64 /\ Spans \subseteq U64
  /\ MaxBurnt \in Nat /\ Times \subseteq U64
  /\ MaxFaults \in Nat /\ MaxEnqueued \in Nat

VARIABLES
  previous_samples,     \* channel -> nJ, or NoSamples before the seed
  last_observed_at_ns,  \* ioreport_state, 0 before the first reading
  active_pids, idle_power_uw,
  count,                \* channel -> the counter, nJ
  burnt,                \* nJ all channels burnt
  now, faults,
  stamped,              \* history: burnt when last_observed_at_ns was stamped
  sinceTick,            \* history: nJ burnt since the loop's last attempt
  tickBurn, tickNs      \* history: nJ and time between its last two attempts

provider == <<previous_samples, last_observed_at_ns, active_pids, idle_power_uw>>
world == <<count, burnt, now, faults>>
ghosts == <<stamped, sinceTick, tickBurn, tickNs>>
avars == <<loopVars, queueVars, provider, world, ghosts>>

NoSamples == [c \in {} |-> 0]
PidLists == UNION {[1 .. n -> Pids] : n \in 0 .. MaxActive}

Total(f) == MapThenSumSet(LAMBDA c : f[c], DOMAIN f)

\* with_idle_power_uw; new passes 0
Init ==
  /\ LoopInit
  /\ QueueInit
  /\ previous_samples = NoSamples
  /\ last_observed_at_ns = 0
  /\ active_pids = <<>>
  /\ idle_power_uw \in IdlePowers
  /\ count = [c \in Channels |-> 0]
  /\ burnt = 0
  /\ now = 0
  /\ faults = 0
  /\ stamped = 0
  /\ sinceTick = 0
  /\ tickBurn = 0
  /\ tickNs = 0

-------------------------------------------------------------------------------
(* The world *)

\* a step of the world that is a fault, or is none
Fault(is) == (is => faults < MaxFaults) /\ faults' = IF is THEN faults + 1 ELSE faults

Elapse(nj, t) ==
  /\ burnt + Total(nj) <= MaxBurnt
  /\ Fault(t <= now)
  /\ count' = [c \in Channels |-> count[c] + nj[c]]
  /\ burnt' = burnt + Total(nj)
  /\ sinceTick' = IF pc = "main" \/ prev = NoSnapshot THEN 0 ELSE sinceTick + Total(nj)
  /\ now' = t
  /\ UNCHANGED <<loopVars, queueVars, provider, stamped, tickBurn, tickNs>>

Reset(c) ==
  /\ count[c] > 0
  /\ Fault(TRUE)
  /\ count' = [count EXCEPT ![c] = 0]
  /\ UNCHANGED <<loopVars, queueVars, provider, burnt, now, ghosts>>

-------------------------------------------------------------------------------
(* sample_energy_model_delta, when the channels in `seen` can be read *)

\* mutant: the count since boot is taken for the delta
raw_since_boot(c) == count[c]

\* mutant: the window slides before the delta is taken
slid_first(c) == 0

\* IOReportCreateSamplesDelta and IOReportSimpleGetIntegerValue
raw_nj(c) == count[c] - previous_samples[c]

\* what is reported: nothing on the seeding call, otherwise the channels that
\* went forward, each truncated to uJ
energy_uj(seen) ==
  LET forward == {c \in seen : raw_nj(c) > 0}
  IN  IF previous_samples = NoSamples
      THEN [c \in {} |-> 0]
      ELSE [c \in forward |-> raw_nj(c) \div NJ_PER_UJ]

\* an unreadable channel is skipped; the window slides for all of them
sample_energy_model_delta(seen) ==
  /\ Fault(seen # Channels)
  /\ previous_samples' = count

-------------------------------------------------------------------------------
(* sample_power_state *)

total_uj(seen) == clamp(Total(energy_uj(seen)))

dt_ns ==
  IF last_observed_at_ns = 0 THEN 0 ELSE saturating_sub(now, last_observed_at_ns)

\* mutant: the division rounds up
ceil_power_uw(seen) ==
  IF dt_ns = 0 THEN 0 ELSE clamp((total_uj(seen) * NS + dt_ns - 1) \div dt_ns)

active_power_uw(seen) ==
  IF dt_ns = 0 THEN 0 ELSE clamp((total_uj(seen) * NS) \div dt_ns)

sample_power_state(seen) ==
  /\ sample_energy_model_delta(seen)
  /\ last_observed_at_ns' = now
  /\ stamped' = burnt
  /\ UNCHANGED <<active_pids, idle_power_uw, count, burnt, now>>

Attempt ==
  /\ sinceTick' = 0
  /\ tickBurn' = sinceTick
  /\ tickNs' = IF prev = NoSnapshot THEN 0 ELSE saturating_sub(now, prev)

SampleOk(seen) ==
  /\ TickOk(now, active_power_uw(seen), idle_power_uw, active_pids)
  /\ sample_power_state(seen)
  /\ Attempt
  /\ UNCHANGED queueVars

\* mutant: the time is stamped before the reading that fails
StampOnError ==
  /\ TickErr
  /\ last_observed_at_ns' = now
  /\ stamped' = burnt
  /\ Attempt
  /\ UNCHANGED <<queueVars, previous_samples, active_pids, idle_power_uw, world>>

\* some IOReport call failed: samples and time stay as they were
SampleErr ==
  /\ TickErr
  /\ Attempt
  /\ UNCHANGED <<queueVars, provider, world, stamped>>

Finish ==
  /\ Credit \/ Heartbeat
  /\ UNCHANGED <<queueVars, provider, world, ghosts>>

Control ==
  /\ StartLoop \/ DropLoop
  /\ UNCHANGED <<queueVars, provider, world, ghosts>>

-------------------------------------------------------------------------------
(* What main does with the provider when no loop has it *)

MainSample(seen) ==
  /\ pc = "main"
  /\ sample_power_state(seen)
  /\ UNCHANGED <<loopVars, queueVars, sinceTick, tickBurn, tickNs>>

\* the public call: the samples slide, the time does not
MainDelta(seen) ==
  /\ pc = "main"
  /\ sample_energy_model_delta(seen)
  /\ UNCHANGED <<loopVars, queueVars, last_observed_at_ns, active_pids, idle_power_uw,
                 count, burnt, now, ghosts>>

set_active_pids ==
  /\ pc = "main"
  /\ active_pids' \in PidLists
  /\ UNCHANGED <<loopVars, queueVars, previous_samples, last_observed_at_ns,
                 idle_power_uw, world, ghosts>>

set_idle_power_uw ==
  /\ pc = "main"
  /\ idle_power_uw' \in IdlePowers
  /\ UNCHANGED <<loopVars, queueVars, previous_samples, last_observed_at_ns,
                 active_pids, world, ghosts>>

\* attribute_joules_to_pid on a snapshot main has, and enqueue_attribution of
\* the result.  (A snapshot of other hardware is refused, nothing changes.)
attribute_joules_to_pid ==
  /\ enqueued < MaxEnqueued
  /\ \E p \in Pids, burst_power_uw \in Snapshots, window_ns \in Spans :
       enqueue_attribution(p, window_energy_uj(burst_power_uw, window_ns))
  /\ UNCHANGED <<provider, world, ghosts>>

Sync == sync_registry /\ UNCHANGED <<provider, world, ghosts>>

-------------------------------------------------------------------------------
Next ==
  \/ \E nj \in [Channels -> Bursts], t \in Times : Elapse(nj, t)
  \/ \E c \in Channels : Reset(c)
  \/ \E seen \in SUBSET Channels : SampleOk(seen) \/ MainSample(seen) \/ MainDelta(seen)
  \/ SampleErr
  \/ Finish
  \/ Control
  \/ set_active_pids
  \/ set_idle_power_uw
  \/ attribute_joules_to_pid
  \/ Sync

Spec == Init /\ [][Next]_avars

TypeOK ==
  /\ LoopTypeOK
  /\ QueueTypeOK
  /\ previous_samples = NoSamples \/ previous_samples \in [Channels -> Nat]
  /\ last_observed_at_ns \in U64 /\ active_pids \in PidLists /\ idle_power_uw \in U64
  /\ count \in [Channels -> Nat] /\ burnt \in Nat /\ now \in U64
  /\ faults \in Nat
  /\ stamped \in Nat /\ sinceTick \in Nat /\ tickBurn \in Nat /\ tickNs \in Nat

(***************************************************************************)
(* The loop never credits energy that was not burnt: resets of a counter,  *)
(* channels that vanish and come back, failed samples, clock steps, calls  *)
(* main makes between two loops and changes of the baseline included, what *)
(* the loops handed over and the tick under way still owes is covered by   *)
(* what the channels burnt.                                                *)
(***************************************************************************)
NeverFabricates ==
  LET owed == IF pc = "credit" THEN share * Len(todo) + remainder ELSE 0
  IN  (handed + owed) * NJ_PER_UJ <= burnt

(***************************************************************************)
(* A tick credits at most what was burnt since the loop's attempt before   *)
(* it: "the returned delta spans the full inter-tick gap", and neither a   *)
(* run of failed samples nor a loop that was dropped is charged to the     *)
(* PIDs active afterwards.                                                 *)
(***************************************************************************)
NoBackfill == pc = "credit" => delta * NJ_PER_UJ <= tickBurn

(***************************************************************************)
(* Samples and time stay in step: what the next reading counts was burnt   *)
(* after the last stamp, so no snapshot ever overstates the power, though  *)
(* sample_energy_model_delta may slide the samples alone and a reading may *)
(* fail half way.                                                          *)
(***************************************************************************)
PowerNeverOverstated ==
  last_observed_at_ns > 0 =>
    \A seen \in SUBSET Channels : total_uj(seen) * NJ_PER_UJ <= burnt - stamped

(***************************************************************************)
(* And a tick loses little: with all channels readable, no reset, a clock  *)
(* that only went forward and no baseline, the credit falls short of what  *)
(* was burnt by less than 1 uJ per channel (each is truncated apart), plus *)
(* 1 uJ and 1 uJ per second of the tick.  The reading the tick is measured *)
(* from must not have been stamped 0, which the code takes for "never",    *)
(* and the burn must be one whose power fits a u64 (below 18 kJ a tick).   *)
(***************************************************************************)
TickLosesLittle ==
  LET truncated == Cardinality(Channels) * (NJ_PER_UJ - 1)
      inRange == (tickBurn \div NJ_PER_UJ) * NS <= MaxU
  IN  (pc = "credit" /\ faults = 0 /\ idle_power_uw = 0 /\ tickNs < prev /\ inRange)
        => (tickBurn - delta * NJ_PER_UJ - truncated) * NS < NJ_PER_UJ * (NS + tickNs)

(***************************************************************************)
(* debug_assert!(window_energy_uj(active_power_uw, dt_ns) <= total_uj + 1) *)
(* holds at every reading the provider could take now: turning energy into *)
(* power and back never gains.                                             *)
(***************************************************************************)
DebugAssertHolds ==
  \A seen \in SUBSET Channels :
    window_energy_uj(active_power_uw(seen), dt_ns) <= saturating_add(total_uj(seen), 1)
===============================================================================
