---------------------------- MODULE SamplingLoop ----------------------------
(***************************************************************************)
(* EnergyProvider::start_sampling_loop (src/src/core/provider.rs), the     *)
(* differential sampling daemon every provider inherits.  This module has  *)
(* the loop's own state and one action per step of it; a provider module   *)
(* extends it and says what sample_power_state and active_pids return.     *)
(*                                                                         *)
(* The future borrows the provider mutably for as long as it lives, so     *)
(* main can call the provider only while pc = "main".  The loop's one      *)
(* await is interval.tick(): dropping the future can happen there and      *)
(* nowhere else, never in the middle of a split.  add_micro_joules is one  *)
(* step, which module Registry justifies (ImplementsAtomic).               *)
(***************************************************************************)
EXTENDS Attribution, Sequences, FiniteSets

CONSTANT Pids   \* the PIDs a provider may report active; 0 is the system bucket

\* a PID is a u32
ASSUME PidsAssumption == Pids \subseteq Nat /\ IsFiniteSet(Pids)

VARIABLES
  energy,       \* the registry: PID -> cumulative uJ (0 for an absent PID)
  pc,           \* "main" when no loop runs, else "await" or "credit"
  prev,         \* observed_at_ns of previous_snapshot, or NoSnapshot
  cumulative,   \* cumulative_delta_uj
  delta, todo, share, remainder,   \* the tick under way: delta_uj, the PIDs
                                   \*   still to credit and the split
  handed, start \* history: uJ all loops handed to the registry so far, and
                \*   its value when this loop began

loopVars == <<energy, pc, prev, cumulative, delta, todo, share, remainder,
              handed, start>>

SystemPid == 0
Buckets == Pids \cup {SystemPid}
NoSnapshot == -1

LoopInit ==
  /\ energy = [p \in Buckets |-> 0]
  /\ pc = "main"
  /\ prev = NoSnapshot
  /\ cumulative = 0
  /\ delta = 0
  /\ todo = <<>>
  /\ share = 0
  /\ remainder = 0
  /\ handed = 0
  /\ start = 0

StartLoop ==
  /\ pc = "main"
  /\ pc' = "await"
  /\ prev' = NoSnapshot
  /\ cumulative' = 0
  /\ start' = handed
  /\ UNCHANGED <<energy, delta, todo, share, remainder, handed>>

DropLoop ==
  /\ pc = "await"
  /\ pc' = "main"
  /\ UNCHANGED <<energy, prev, cumulative, delta, todo, share, remainder, handed, start>>

\* mutant: the failed tick keeps the previous snapshot
KeepSnapshot ==
  /\ pc = "await"
  /\ UNCHANGED loopVars

\* mutant: the error ends the loop
DieOnError ==
  /\ pc = "await"
  /\ pc' = "dead"
  /\ UNCHANGED <<energy, prev, cumulative, delta, todo, share, remainder, handed, start>>

\* sample_power_state failed: warn, forget the previous snapshot, go on
TickErr ==
  /\ pc = "await"
  /\ prev' = NoSnapshot
  /\ UNCHANGED <<energy, pc, cumulative, delta, todo, share, remainder, handed, start>>

\* mutant: the remainder of the division is not handed out
DropRemainder(pids, delta_uj) ==
  IF pids = <<>>
  THEN [todo |-> <<SystemPid>>, share |-> delta_uj, remainder |-> 0]
  ELSE [todo |-> pids, share |-> delta_uj \div Len(pids), remainder |-> 0]

\* mutant: with nobody active the energy goes nowhere
DropUnattributed(pids, delta_uj) ==
  LET n == IF pids = <<>> THEN 1 ELSE Len(pids)
  IN  [todo |-> pids, share |-> delta_uj \div n, remainder |-> delta_uj % n]

\* nobody active: all of it to PID 0; otherwise equal shares
Split(pids, delta_uj) ==
  LET n == Len(pids)
  IN  IF pids = <<>>
      THEN [todo |-> <<SystemPid>>, share |-> delta_uj, remainder |-> 0]
      ELSE [todo |-> pids,
            share |-> delta_uj \div n,
            remainder |-> delta_uj - saturating_mul(delta_uj \div n, n)]

\* A sample arrived.  (previous_snapshot is assigned at the end of the tick;
\* nothing reads it before.)
TickOk(observed_at_ns, active_power_uw, idle_power_uw, pids) ==
  LET dt_ns == saturating_sub(observed_at_ns, prev)
      delta_uj == burst_energy_uj(active_power_uw, idle_power_uw, dt_ns)
      split == Split(pids, delta_uj)
  IN  /\ pc = "await"
      /\ prev' = observed_at_ns
      /\ IF prev = NoSnapshot
         THEN UNCHANGED <<pc, delta, todo, share, remainder>>
         ELSE /\ pc' = "credit"
              /\ delta' = delta_uj
              /\ todo' = split.todo
              /\ share' = split.share
              /\ remainder' = split.remainder
      /\ UNCHANGED <<energy, cumulative, handed, start>>

\* one round of the `for pid in &pids` loop
Credit ==
  LET extra == IF remainder > 0 THEN 1 ELSE 0
      uj == share + extra
  IN  /\ pc = "credit"
      /\ todo # <<>>
      /\ energy' = [energy EXCEPT ![Head(todo)] = saturating_add(@, uj)]
      /\ remainder' = remainder - extra
      /\ todo' = Tail(todo)
      /\ handed' = handed + uj
      /\ UNCHANGED <<pc, prev, cumulative, delta, share, start>>

\* the heartbeat closes the tick
Heartbeat ==
  /\ pc = "credit"
  /\ todo = <<>>
  /\ cumulative' = saturating_add(cumulative, delta)
  /\ pc' = "await"
  /\ UNCHANGED <<energy, prev, delta, todo, share, remainder, handed, start>>

LoopTypeOK ==
  /\ energy \in [Buckets -> U64]
  /\ pc \in {"main", "await", "credit"}
  /\ prev \in U64 \cup {NoSnapshot}
  /\ cumulative \in U64
  /\ delta \in U64
  /\ todo \in Seq(Buckets)
  /\ share \in U64
  /\ remainder \in U64
  /\ handed \in Nat
  /\ start \in Nat

(***************************************************************************)
(* "The math is deterministic and total-preserving": between two ticks the *)
(* heartbeat's total_delta is exactly what this loop has handed to the     *)
(* registry, however many PIDs the energy was split across, and in the     *)
(* middle of a split what is still owed is the rest of delta_uj.           *)
(***************************************************************************)
SplitPreservesTotal ==
  /\ start <= handed
  /\ pc = "await" => cumulative = clamp(handed - start)
  /\ pc = "credit" =>
       /\ remainder <= Len(todo)
       /\ clamp(cumulative + delta) =
            clamp((handed - start) + share * Len(todo) + remainder)
===============================================================================
