----------------------------- MODULE PendingQueue -----------------------------
(***************************************************************************)
(* The `pending` buffer the Linux and the Windows provider share in form:  *)
(* attributions wait in it until sync_registry drains them into the        *)
(* registry.  All of it needs the provider, so nothing here can happen     *)
(* while a sampling loop holds it (pc # "main").                           *)
(***************************************************************************)
EXTENDS SamplingLoop, FiniteSetsExt

VARIABLES
  pending,    \* the attributions not yet pushed, records of pid and uj
  enqueued,   \* history: uJ ever put into pending
  synced      \* history: uJ the sync_registry calls said they pushed

queueVars == <<pending, enqueued, synced>>

QueueInit == pending = <<>> /\ enqueued = 0 /\ synced = 0

\* the uJ of a list of attributions, all of them or those of one PID
SumUj(list) == MapThenSumSet(LAMBDA i : list[i].uj, DOMAIN list)
SumUjOf(list, p) ==
  MapThenSumSet(LAMBDA i : list[i].uj, {i \in DOMAIN list : list[i].pid = p})

\* add_micro_joules for every entry of a list, in order.  Saturating adds
\* commute, so each PID ends at its clamped sum.
AddAll(list) == energy' = [p \in Buckets |-> clamp(energy[p] + SumUjOf(list, p))]

\* self.pending.push(attribution)
Push(pid, uj) ==
  /\ pending' = Append(pending, [pid |-> pid, uj |-> uj])
  /\ enqueued' = enqueued + uj
  /\ UNCHANGED synced

enqueue_attribution(pid, uj) ==
  /\ pc = "main"
  /\ Push(pid, uj)
  /\ UNCHANGED loopVars

\* mutant: the buffer is read but not drained
sync_without_drain ==
  /\ pc = "main"
  /\ AddAll(pending)
  /\ synced' = synced + clamp(SumUj(pending))
  /\ UNCHANGED <<pending, enqueued, pc, prev, cumulative, delta, todo, share,
                 remainder, handed, start>>

sync_registry ==
  /\ pc = "main"
  /\ AddAll(pending)
  /\ pending' = <<>>
  /\ synced' = synced + clamp(SumUj(pending))
  /\ UNCHANGED <<enqueued, pc, prev, cumulative, delta, todo, share,
                 remainder, handed, start>>

QueueTypeOK ==
  /\ pending \in Seq([pid : Buckets, uj : U64])
  /\ enqueued \in Nat
  /\ synced \in Nat

(***************************************************************************)
(* Across any mix of loops, fence events and syncs, every attribution      *)
(* reaches the registry once: what the loops handed over plus what was     *)
(* ever enqueued is what the registry holds plus what still waits.         *)
(***************************************************************************)
EveryAttributionArrivesOnce ==
  handed + enqueued <= MaxU =>
    MapThenSumSet(LAMBDA p : energy[p], Buckets) + SumUj(pending) = handed + enqueued
===============================================================================
