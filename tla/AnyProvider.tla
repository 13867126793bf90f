----------------------------- MODULE AnyProvider -----------------------------
(***************************************************************************)
(* The sampling loop on top of any provider the EnergyProvider trait       *)
(* allows: every sample may carry any power and any PID list (active_pids  *)
(* returns a Vec: it may be empty, unsorted or hold a PID twice), the      *)
(* telemetry may go down and come back, the wall clock may step back, and  *)
(* main may drop the loop and start another.                               *)
(***************************************************************************)
EXTENDS SamplingLoop, FiniteSetsExt

CONSTANTS Powers,      \* powers a sample may report, in uW
          MaxActive,   \* bound: length of the active_pids list
          Clock,       \* what the wall clock may read, ns
          MaxBack      \* bound: backward steps of the wall clock

ASSUME AnyProviderAssumption ==
  /\ Powers \subseteq U64 /\ Powers # {}
  /\ MaxActive \in Nat /\ Clock \subseteq U64 /\ 0 \in Clock /\ MaxBack \in Nat

VARIABLES now,    \* the wall clock, ns
          backs,  \* how often it stepped back
          down    \* is the telemetry failing

pvars == <<loopVars, now, backs, down>>
env == <<now, backs, down>>

PidLists == UNION {[1 .. n -> Pids] : n \in 0 .. MaxActive}

Init == LoopInit /\ now = 0 /\ backs = 0 /\ down = FALSE

Elapse(t) ==
  /\ t # now
  /\ t > now \/ backs < MaxBack
  /\ now' = t
  /\ backs' = IF t < now THEN backs + 1 ELSE backs
  /\ UNCHANGED <<loopVars, down>>

Flip == down' = ~down /\ UNCHANGED <<loopVars, now, backs>>

SampleOk ==
  /\ ~down
  /\ \E active, idle \in Powers, pids \in PidLists : TickOk(now, active, idle, pids)
  /\ UNCHANGED env

SampleErr == down /\ TickErr /\ UNCHANGED env

Tick == SampleOk \/ SampleErr

Finish == (Credit \/ Heartbeat) /\ UNCHANGED env

Next ==
  \/ Tick
  \/ Finish
  \/ StartLoop /\ UNCHANGED env
  \/ DropLoop /\ UNCHANGED env
  \/ Flip
  \/ \E t \in Clock : Elapse(t)

Spec == Init /\ [][Next]_pvars

\* The interval goes on ticking, and a tick that began runs to its end.
FairSpec == Spec /\ WF_pvars(Tick) /\ WF_pvars(Finish)

ProviderTypeOK ==
  /\ LoopTypeOK
  /\ now \in Clock /\ backs \in 0 .. MaxBack /\ down \in BOOLEAN

(***************************************************************************)
(* "Bucket the energy under PID 0 so the total stays accountable": as long *)
(* as nothing saturates, the buckets of the registry add up to what the    *)
(* heartbeats reported, whatever lists of PIDs the energy was split over.  *)
(***************************************************************************)
RegistryHoldsTotal ==
  (pc = "await" /\ start + cumulative < MaxU) =>
    MapThenSumSet(LAMBDA p : energy[p], Buckets) = start + cumulative

(***************************************************************************)
(* "A transient telemetry hiccup must never kill the daemon": once the     *)
(* telemetry is back for good and the loop is not dropped, ticks go on     *)
(* crediting energy, however often sampling failed before.                 *)
(***************************************************************************)
LoopSurvivesErrors ==
  <>[](~down /\ pc # "main") => []<>(pc = "credit")

-------------------------------------------------------------------------------
(* What the energy functions owe their callers, for every u64 power and share
   and the time that has passed *)

\* micro-joules of p microwatts over n nanoseconds, rounded down once
ExactUj(p, n) == (p * n) \div NS

(***************************************************************************)
(* window_energy_uj splits the window into whole seconds and a rest to     *)
(* stay within u64.  The result is exact whenever neither the sub-second   *)
(* product nor the result saturates, and never above the exact energy.     *)
(***************************************************************************)
WindowEnergyIsExact ==
  \A p \in U64 :
    LET e == window_energy_uj(p, now)
        exact == ExactUj(p, now)
    IN  /\ e <= exact
        /\ (p * (NS - 1) <= MaxU /\ exact <= MaxU) => e = exact

(***************************************************************************)
(* The deterministic model gives a process no more than the burst energy   *)
(* of the whole busy time, even when the process claims more time than the *)
(* device was busy, and exactly (P_total - P_idle) * T_process otherwise.  *)
(***************************************************************************)
ModelStaysWithinBusyTime ==
  \A power, idle, s \in U64 :
    LET uj == deterministic_attribution_uj(power, idle, s, now)
        burst == IF power < idle THEN 0 ELSE power - idle
    IN  /\ uj <= ExactUj(burst, now)
        /\ (s <= now /\ ExactUj(burst, s) <= MaxU) => uj = ExactUj(burst, s)

(***************************************************************************)
(* The CPU share of a RAPL delta never exceeds the delta, and the shares   *)
(* of two processes that split the CPU never exceed it together.           *)
(***************************************************************************)
SharesStayWithinDelta ==
  \A uj, s, t \in U64 :
    /\ rapl_fallback_uj(uj, s) <= uj
    /\ s + t <= MILLION => rapl_fallback_uj(uj, s) + rapl_fallback_uj(uj, t) <= uj
===============================================================================
