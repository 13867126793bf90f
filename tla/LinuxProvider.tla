---------------------------- MODULE LinuxProvider ----------------------------
(***************************************************************************)
(* LinuxProvider (src/src/providers/linux.rs) under its sampling loop: the *)
(* RAPL counter turned into power, the count of in-flight dma_fences per   *)
(* PID, and the pending queue.                                             *)
(*                                                                         *)
(* Around it stands the world it measures.  The package burns energy; the  *)
(* sysfs counter shows it modulo max_energy_range_uj + 1, may start again  *)
(* at 0 (a suspend, a reload of the module) and may be unreadable; the     *)
(* wall clock may step back.  The kernel creates and signals fences, and   *)
(* the operator's eBPF probe queues the events for main, in order, in a    *)
(* perf array that may be full.  A fence may outlive its process.          *)
(***************************************************************************)
EXTENDS PendingQueue

CONSTANTS
  MaxU32,      \* u32::MAX, where a count of fences saturates
  MaxRange,    \* max_energy_range_uj of the counter
  Bursts,      \* uJ the package may burn between two readings
  FencePower,  \* GPU power stamped on a fence, uW
  FenceTimes,  \* lengths of fence windows, ns
  MaxBurnt,    \* bound: uJ the package burns in a behaviour
  MaxTime,     \* bound: the wall clock
  MaxFaults,   \* bound: backward steps of the wall clock and counter resets
  MaxLost,     \* bound: events the perf array drops
  MaxFences,   \* bound: fences created in a behaviour
  MaxEnqueued, \* bound: uJ put into pending up to which main enqueues more
  MaxExits     \* bound: process exits in a behaviour

ASSUME LinuxAssumption ==
  /\ MaxU32 \in U64
  /\ MaxRange \in U64 /\ MaxRange < MaxU
  /\ Bursts \subseteq Nat /\ FenceTimes \subseteq U64 /\ FencePower \in U64
  /\ MaxBurnt \in Nat /\ MaxTime \in U64 /\ MaxFaults \in Nat /\ MaxLost \in Nat
  /\ MaxFences \in Nat /\ MaxExits \in Nat /\ MaxEnqueued \in Nat

VARIABLES
  rapl,      \* rapl_state: [energy, at, max], or Unread
  active,    \* active_pids: PID -> in-flight count, 0 for an absent key
  burnt,     \* uJ the package burnt since boot
  now,       \* the wall clock, ns
  base,      \* burnt when the counter was last 0
  backs, resets,   \* how often the clock stepped back, the counter was reset
  hasRange,  \* can the max_energy_range_uj file be read
  busy,      \* PID -> fences in flight of the process that has the PID
  orphans,   \* PID -> fences in flight of processes that exited
  ring,      \* the probe's events for main
  fences, exits, lost,   \* how many so far; lost are the dropped events
  sinceTick,        \* history: uJ burnt since the last attempt to sample
  tickBurn, tickNs  \* history: uJ burnt and time passed before that attempt

world == <<burnt, base, now, backs, resets, hasRange>>
kernel == <<busy, orphans, ring, fences, exits, lost>>
ghosts == <<sinceTick, tickBurn, tickNs>>
lvars == <<loopVars, queueVars, rapl, active, world, kernel, ghosts>>

Unread == [energy |-> 0, at |-> -1, max |-> 0]
Events == [kind : {"init", "signal", "exit"}, pid : Pids]

Init ==
  /\ LoopInit
  /\ QueueInit
  /\ rapl = Unread
  /\ active = [p \in Pids |-> 0]
  /\ burnt = 0
  /\ now = 0
  /\ base = 0
  /\ backs = 0
  /\ resets = 0
  /\ hasRange \in BOOLEAN
  /\ busy = [p \in Pids |-> 0]
  /\ orphans = [p \in Pids |-> 0]
  /\ ring = <<>>
  /\ fences = 0
  /\ exits = 0
  /\ lost = 0
  /\ sinceTick = 0
  /\ tickBurn = 0
  /\ tickNs = 0

-------------------------------------------------------------------------------
(* The world *)

Elapse(uj, t) ==
  /\ burnt + uj <= MaxBurnt
  /\ t > now \/ backs + resets < MaxFaults
  /\ burnt' = burnt + uj
  /\ sinceTick' = sinceTick + uj
  /\ now' = t
  /\ backs' = IF t > now THEN backs ELSE backs + 1
  /\ UNCHANGED <<loopVars, queueVars, rapl, active, base, resets, hasRange, kernel,
                 tickBurn, tickNs>>

CounterReset ==
  /\ backs + resets < MaxFaults
  /\ base # burnt
  /\ base' = burnt
  /\ resets' = resets + 1
  /\ UNCHANGED <<loopVars, queueVars, rapl, active, burnt, now, backs, hasRange, kernel,
                 ghosts>>

\* the event reaches the perf array, or finds it full
Emit(kind, p) ==
  \/ ring' = Append(ring, [kind |-> kind, pid |-> p]) /\ UNCHANGED lost
  \/ lost < MaxLost /\ lost' = lost + 1 /\ UNCHANGED ring

FenceInit(p) ==
  /\ fences < MaxFences
  /\ fences' = fences + 1
  /\ busy' = [busy EXCEPT ![p] = @ + 1]
  /\ Emit("init", p)
  /\ UNCHANGED <<loopVars, queueVars, rapl, active, world, orphans, exits, ghosts>>

FenceSignal(p) ==
  /\ \/ /\ busy[p] > 0
        /\ busy' = [busy EXCEPT ![p] = @ - 1]
        /\ UNCHANGED orphans
     \/ /\ orphans[p] > 0
        /\ orphans' = [orphans EXCEPT ![p] = @ - 1]
        /\ UNCHANGED busy
  /\ Emit("signal", p)
  /\ UNCHANGED <<loopVars, queueVars, rapl, active, world, fences, exits, ghosts>>

\* the process exits; its PID may be used again
ProcessExit(p) ==
  /\ exits < MaxExits
  /\ exits' = exits + 1
  /\ orphans' = [orphans EXCEPT ![p] = @ + busy[p]]
  /\ busy' = [busy EXCEPT ![p] = 0]
  /\ Emit("exit", p)
  /\ UNCHANGED <<loopVars, queueVars, rapl, active, world, fences, ghosts>>

-------------------------------------------------------------------------------
(* read_rapl_power_uw *)

Reading == (burnt - base) % (MaxRange + 1)

max_energy_uj ==
  IF rapl # Unread THEN rapl.max ELSE IF hasRange THEN MaxRange ELSE MaxU

\* mutant: the wrapped delta misses the step from max to 0
WrapWithoutStep(energy_uj) ==
  IF energy_uj >= rapl.energy
  THEN energy_uj - rapl.energy
  ELSE saturating_add(saturating_sub(max_energy_uj, rapl.energy), energy_uj)

\* mutant: a backward counter is always taken for a wrap
AlwaysWrap(energy_uj) ==
  IF energy_uj >= rapl.energy
  THEN energy_uj - rapl.energy
  ELSE (max_energy_uj - rapl.energy) + energy_uj + 1

rapl_delta_uj(energy_uj) ==
  IF energy_uj >= rapl.energy
  THEN energy_uj - rapl.energy
  ELSE IF max_energy_uj = MaxU
  THEN 0
  ELSE saturating_add(saturating_add(saturating_sub(max_energy_uj, rapl.energy),
                                     energy_uj), 1)

rapl_power_uw ==
  LET dt_ns == saturating_sub(now, rapl.at)
  IN  IF rapl = Unread \/ dt_ns = 0
      THEN 0
      ELSE clamp((rapl_delta_uj(Reading) * NS) \div dt_ns)

read_rapl_power_uw == rapl' = [energy |-> Reading, at |-> now, max |-> max_energy_uj]

\* active_pid_set: the keys of a BTreeMap, ascending
active_pid_set ==
  LET keys == {p \in Pids : active[p] > 0}
      rank(p) == Cardinality({q \in keys : q <= p})
  IN  [i \in 1 .. Cardinality(keys) |-> CHOOSE p \in keys : rank(p) = i]

Attempt ==
  /\ sinceTick' = 0
  /\ tickBurn' = sinceTick
  /\ tickNs' = IF prev = NoSnapshot THEN 0 ELSE saturating_sub(now, prev)

\* a tick of the loop whose sample_power_state succeeds, or fails: the
\* counter could not be read and rapl_state is as it was
SampleOk ==
  /\ TickOk(now, rapl_power_uw, 0, active_pid_set)
  /\ read_rapl_power_uw
  /\ Attempt
  /\ UNCHANGED <<queueVars, active, world, kernel>>

SampleErr ==
  /\ TickErr
  /\ Attempt
  /\ UNCHANGED <<queueVars, rapl, active, world, kernel>>

Finish ==
  /\ Credit \/ Heartbeat
  /\ UNCHANGED <<queueVars, rapl, active, world, kernel, ghosts>>

Control ==
  /\ StartLoop \/ DropLoop
  /\ UNCHANGED <<queueVars, rapl, active, world, kernel, ghosts>>

-------------------------------------------------------------------------------
(* What main does with the provider when no loop has it *)

\* a sample_power_state call of its own
MainSample ==
  /\ pc = "main"
  /\ read_rapl_power_uw
  /\ Attempt
  /\ UNCHANGED <<loopVars, queueVars, active, world, kernel>>

\* u32::saturating_add
mark_pid_active(p) == active' = [active EXCEPT ![p] = IF @ < MaxU32 THEN @ + 1 ELSE @]

mark_pid_idle(p) == active' = [active EXCEPT ![p] = 0]

\* mutant: presence instead of a count, one signal clears the PID
clear_on_signal(p, window_ns) ==
  /\ active' = [active EXCEPT ![p] = 0]
  /\ Push(p, window_energy_uj(FencePower, window_ns))

correlate_fence(p, window_ns) ==
  /\ active' = [active EXCEPT ![p] = saturating_sub(@, 1)]
  /\ Push(p, window_energy_uj(FencePower, window_ns))

Receive(kind) ==
  /\ pc = "main"
  /\ ring # <<>>
  /\ Head(ring).kind = kind
  /\ ring' = Tail(ring)
  /\ UNCHANGED <<loopVars, rapl, world, busy, orphans, fences, exits, lost, ghosts>>

OnInit == Receive("init") /\ mark_pid_active(Head(ring).pid) /\ UNCHANGED queueVars

OnSignal ==
  /\ Receive("signal")
  /\ \E t \in FenceTimes : correlate_fence(Head(ring).pid, t)

OnExit == Receive("exit") /\ mark_pid_idle(Head(ring).pid) /\ UNCHANGED queueVars

Drain == OnInit \/ OnSignal \/ OnExit

Enqueue ==
  /\ enqueued < MaxEnqueued
  /\ \E p \in Pids : enqueue_attribution(p, 1)
  /\ UNCHANGED <<rapl, active, world, kernel, ghosts>>

Sync == sync_registry /\ UNCHANGED <<rapl, active, world, kernel, ghosts>>

-------------------------------------------------------------------------------
Next ==
  \/ \E uj \in Bursts, t \in 0 .. MaxTime : Elapse(uj, t)
  \/ CounterReset
  \/ \E p \in Pids : FenceInit(p) \/ FenceSignal(p) \/ ProcessExit(p)
  \/ SampleOk
  \/ SampleErr
  \/ Finish
  \/ Control
  \/ MainSample
  \/ Drain
  \/ Enqueue
  \/ Sync

Spec == Init /\ [][Next]_lvars

\* main drains events whenever it keeps getting the provider, the loop goes
\* on ticking, and fences that are in flight are signalled
FairSpec ==
  /\ Spec
  /\ SF_lvars(Drain)
  /\ WF_lvars(SampleOk)
  /\ WF_lvars(Finish)
  /\ \A p \in Pids : WF_lvars(FenceSignal(p))

TypeOK ==
  /\ LoopTypeOK
  /\ QueueTypeOK
  /\ rapl = Unread \/ rapl \in [energy : U64, at : U64, max : U64]
  /\ active \in [Pids -> 0 .. MaxU32]
  /\ burnt \in Nat /\ base \in 0 .. burnt /\ now \in U64 /\ backs \in Nat
  /\ resets \in Nat /\ hasRange \in BOOLEAN
  /\ busy \in [Pids -> Nat] /\ orphans \in [Pids -> Nat]
  /\ ring \in Seq(Events) /\ fences \in Nat /\ exits \in Nat /\ lost \in Nat
  /\ sinceTick \in Nat /\ tickBurn \in Nat /\ tickNs \in Nat

\* what resets of the counter, taken for wraps, may add
Invented == IF hasRange THEN resets * MaxRange ELSE 0

(***************************************************************************)
(* The loop never credits energy that was not burnt: whatever the counter  *)
(* wraps, the clock steps back, the samples that fail and the loops that   *)
(* are dropped, what the loops handed to the registry, and what the tick   *)
(* under way still owes, stays within what the package burnt.  A counter   *)
(* that was reset looks like one that wrapped; even then no more than one  *)
(* range per reset is invented, and nothing if the range is unknown.       *)
(* "errors instead of returning fabricated data", "report zero rather than *)
(* saturate to a fabricated giant delta" (linux.rs).                       *)
(***************************************************************************)
NeverFabricates ==
  /\ handed <= burnt + Invented
  /\ pc = "credit" => handed + share * Len(todo) + remainder <= burnt + Invented

(***************************************************************************)
(* A tick credits at most what was burnt since the attempt before it, so a *)
(* run of failed samples is never dumped on the PIDs that happen to be     *)
(* active when the telemetry comes back (provider.rs, the comment on       *)
(* previous_snapshot = None).  A reset may add its one range.              *)
(***************************************************************************)
NoBackfill == pc = "credit" => delta <= tickBurn + Invented

(***************************************************************************)
(* And it loses almost nothing: with a clock that never stepped back, no   *)
(* reset, a known range and less than one turn of the counter per tick,    *)
(* the credit falls short of what was burnt by less than 1 uJ plus 1 uJ    *)
(* per second of the tick, wrap or no wrap.  (A tick of 18 kJ or more may  *)
(* saturate the u64 power, and then loses more.)                           *)
(***************************************************************************)
TickLosesLittle ==
  (pc = "credit" /\ backs = 0 /\ resets = 0 /\ hasRange /\ tickBurn <= MaxRange
     /\ tickBurn * NS <= MaxU) =>
    (tickBurn - delta) * NS < NS + tickNs

\* events of a kind main has not received yet
Queued(kind, p) ==
  Cardinality({i \in DOMAIN ring : ring[i] = [kind |-> kind, pid |-> p]})

(***************************************************************************)
(* As long as no process exits with fences in flight, main's view of the   *)
(* fences is exact once it has handled the queued events: a PID is active  *)
(* with exactly as many fences as the kernel has in flight for it ("a      *)
(* single signaled fence cannot prematurely mark a still-busy PID idle").  *)
(* Events the perf array dropped put it out by one each, never by more.    *)
(***************************************************************************)
ActiveCountsFences ==
  exits = 0 => \A p \in Pids :
    active[p] + Queued("init", p) - Queued("signal", p) - busy[p] \in -lost .. lost

(***************************************************************************)
(* "a single signaled fence cannot prematurely mark a still-busy PID idle" *)
(* (linux.rs, mark_pid_active), with exits: handling a signal takes a PID  *)
(* out of the active set only if the process that has the PID is done.     *)
(***************************************************************************)
SignalKeepsBusyPid ==
  [][\A p \in Pids : (OnSignal /\ active[p] > 0 /\ active'[p] = 0)
                        => busy[p] = 0 \/ ring' # <<>>]_lvars

(***************************************************************************)
(* The active set is "surfaced to the differential sampling loop [...] so  *)
(* the 100 ms delta energy is split across the right PIDs" (linux.rs): a   *)
(* PID that is done for good eventually gets no share any more.            *)
(***************************************************************************)
IdlePidLeavesSplit ==
  \A p \in Pids : <>[](busy[p] = 0 /\ orphans[p] = 0) => <>[](active[p] = 0)
===============================================================================
