----------------------------- MODULE Attribution -----------------------------
(***************************************************************************)
(* The energy arithmetic of src/src/core/attribution.rs.  Powers are in uW *)
(* (mW for NVML), times in ns (ms for NVML), energies in uJ.  The u128     *)
(* intermediates never overflow, so they are plain integers here; a u64    *)
(* intermediate saturates.                                                 *)
(***************************************************************************)
EXTENDS SatArith

CONSTANTS NANOSECONDS_PER_SECOND,   \* 10^9 in the code, scaled down for TLC
          MILLION                   \* the unit of cpu_share_micros

ASSUME AttributionAssumption ==
  /\ NANOSECONDS_PER_SECOND \in Nat \ {0}
  /\ MILLION \in Nat \ {0}

NS == NANOSECONDS_PER_SECOND

baseline_burst_power_uw(active, idle) == saturating_sub(active, idle)

\* mutant: one product of power and time, which saturates
unsplit_uj(power_uw, window_ns) == saturating_mul(power_uw, window_ns) \div NS

window_energy_uj(power_uw, window_ns) ==
  LET whole_seconds == window_ns \div NS
      remainder_ns == window_ns % NS
  IN  saturating_add(saturating_mul(power_uw, whole_seconds),
                     saturating_mul(power_uw, remainder_ns) \div NS)

burst_energy_uj(active, idle, window_ns) ==
  window_energy_uj(baseline_burst_power_uw(active, idle), window_ns)

\* mutant: the PID's time is not capped by the busy time
uncapped_attribution_uj(power, idle, proc, busy) ==
  IF busy = 0 THEN 0 ELSE clamp((saturating_sub(power, idle) * proc) \div NS)

deterministic_attribution_uj(power, idle, proc, busy) ==
  LET proc_ns == IF proc < busy THEN proc ELSE busy
  IN  IF busy = 0
      THEN 0
      ELSE clamp((saturating_sub(power, idle) * proc_ns) \div NS)

\* mutant: the share is not capped at one million
uncapped_fallback_uj(rapl_uj_delta, share) == clamp((rapl_uj_delta * share) \div MILLION)

rapl_fallback_uj(rapl_uj_delta, cpu_share_micros) ==
  LET share == IF cpu_share_micros < MILLION THEN cpu_share_micros ELSE MILLION
  IN  clamp((rapl_uj_delta * share) \div MILLION)

nvml_window_energy_uj(power_mw, dt_ms) == clamp(power_mw * dt_ms)
===============================================================================
