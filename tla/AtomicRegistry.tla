---------------------------- MODULE AtomicRegistry ----------------------------
(***************************************************************************)
(* What AmalgafyRegistry promises its writers: a map PID -> cumulative     *)
(* micro-joules on which every add_micro_joules call takes effect exactly  *)
(* once, atomically, at some moment between its call and its return, and   *)
(* returns the PID's new total.  A PID without a slot reads as 0.          *)
(***************************************************************************)
EXTENDS SatArith

CONSTANTS Pids,      \* the PIDs
          Deltas,    \* the micro-joule amounts writers add
          Writers    \* the threads that call add_micro_joules

VARIABLES energy,    \* PID -> cumulative micro-joules
          busy,      \* writer -> is a call under way
          job,       \* writer -> the arguments of its last call
          ret        \* writer -> what its last finished call returned

absVars == <<energy, busy, job, ret>>

Jobs == [pid : Pids, uj : Deltas]

Init ==
  /\ energy = [p \in Pids |-> 0]
  /\ busy = [w \in Writers |-> FALSE]
  /\ job \in [Writers -> Jobs]
  /\ ret = [w \in Writers |-> 0]

Invoke(w, j) ==
  /\ ~busy[w]
  /\ busy' = [busy EXCEPT ![w] = TRUE]
  /\ job' = [job EXCEPT ![w] = j]
  /\ UNCHANGED <<energy, ret>>

Apply(w) ==
  LET p == job[w].pid
      total == saturating_add(energy[p], job[w].uj)
  IN  /\ busy[w]
      /\ energy' = [energy EXCEPT ![p] = total]
      /\ ret' = [ret EXCEPT ![w] = total]
      /\ busy' = [busy EXCEPT ![w] = FALSE]
      /\ UNCHANGED job

Next == \E w \in Writers : Apply(w) \/ \E j \in Jobs : Invoke(w, j)

Spec == Init /\ [][Next]_absVars
===============================================================================
