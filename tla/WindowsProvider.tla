--------------------------- MODULE WindowsProvider ---------------------------
(***************************************************************************)
(* WindowsProvider (src/src/providers/windows.rs) under its sampling loop: *)
(* NVML power times time, split over the compute processes NVML lists.     *)
(*                                                                         *)
(* sample_compute_processes asks NVML in a loop until the scratch buffer   *)
(* is large enough.  The processes on the GPU may change between two       *)
(* questions, so every question is a step; the rest of the calling method  *)
(* runs in the step that ends the loop.  NVML (nvml.dll) is external: a    *)
(* question ends with the list, with the number of entries it would need,  *)
(* or with some other error.                                               *)
(***************************************************************************)
EXTENDS PendingQueue

CONSTANTS
  MilliWatts,    \* NVML power readings
  IdlePowers,    \* calibrated baselines callers pass, uW
  Windows,       \* window lengths callers pass
  THOUSAND,      \* uW in a mW
  CAPACITY,      \* Vec::with_capacity(32) of new()
  MaxProcs,      \* bound: compute processes on the GPU
  MaxChanges,    \* bound: changes of the process list and backward steps of the clock
  MaxTime,       \* bound: the wall clock
  MaxCalls,      \* bound: calls main makes
  MaxEnqueued    \* bound: uJ main enqueues

ASSUME WindowsAssumption ==
  /\ MilliWatts \subseteq Nat /\ IdlePowers \subseteq U64 /\ Windows \subseteq U64
  /\ THOUSAND \in Nat \ {0} /\ CAPACITY \in Nat \ {0}
  /\ MaxProcs \in Nat /\ MaxChanges \in Nat /\ MaxTime \in U64
  /\ MaxCalls \in Nat /\ MaxEnqueued \in Nat

VARIABLES
  last_pids,   \* busy_state.last_pids
  len, cap,    \* length and capacity of compute_scratch
  call,        \* the method inside sample_compute_processes, with what it has
  procs,       \* NVML's list of compute processes, in NVML's order
  now,         \* the wall clock, ns
  changes, calls,
  odd,         \* history: parity of the questions asked in this call
  refresh,     \* history: what the last tick's refresh got
  exact, atMost  \* history: uJ of the windows sample_window_energy split, and
                 \*   of those attribute_window split

gpu == <<procs, now, changes>>
history == <<refresh, exact, atMost>>
wvars == <<loopVars, queueVars, last_pids, len, cap, call, gpu, calls, odd, history>>

NoCall == [kind |-> "none"]
InTick == call # NoCall /\ call.kind = "tick"
ProcLists == UNION {[1 .. n -> Pids] : n \in 0 .. MaxProcs}

Init ==
  /\ LoopInit
  /\ QueueInit
  /\ last_pids = <<>>
  /\ len = 0
  /\ cap = CAPACITY
  /\ call = NoCall
  /\ procs \in ProcLists
  /\ now = 0
  /\ changes = 0
  /\ calls = 0
  /\ odd = FALSE
  /\ refresh = [ok |-> FALSE, pids |-> <<>>]
  /\ exact = 0
  /\ atMost = 0

-------------------------------------------------------------------------------
(* The world *)

Elapse(t) ==
  /\ t > now \/ (t < now /\ changes < MaxChanges)
  /\ now' = t
  /\ changes' = IF t > now THEN changes ELSE changes + 1
  /\ UNCHANGED <<loopVars, queueVars, last_pids, len, cap, call, procs,
                 calls, odd, history>>

ProcsChange ==
  /\ changes < MaxChanges
  /\ changes' = changes + 1
  /\ procs' \in ProcLists \ {procs}
  /\ UNCHANGED <<loopVars, queueVars, last_pids, len, cap, call, now, calls, odd,
                 history>>

-------------------------------------------------------------------------------
(* Calls up to their first question.  A failed power reading ends main's   *)
(* calls without an effect and makes the loop's tick fail.                 *)

Begin(c) ==
  /\ call = NoCall
  /\ call' = c
  /\ odd' = FALSE
  /\ UNCHANGED <<loopVars, queueVars, last_pids, len, cap, gpu, history>>

BeginTick ==
  /\ pc = "await"
  /\ \E mw \in MilliWatts : Begin([kind |-> "tick", uw |-> mw * THOUSAND, at |-> now])
  /\ UNCHANGED calls

\* list_compute_processes, sample_power_state outside a loop,
\* sample_window_energy or attribute_window
BeginMain ==
  /\ pc = "main"
  /\ calls < MaxCalls
  /\ calls' = calls + 1
  /\ \/ Begin([kind |-> "list"])
     \/ Begin([kind |-> "sample"])
     \/ \E mw \in MilliWatts, dt_ms \in Windows :
          Begin([kind |-> "window", mw |-> mw, dt |-> dt_ms])
     \/ \E mw \in MilliWatts, idle \in IdlePowers, window_ns \in Windows :
          Begin([kind |-> "model", uw |-> mw * THOUSAND, idle |-> idle, dt |-> window_ns])

PowerErr ==
  /\ call = NoCall
  /\ TickErr
  /\ UNCHANGED <<queueVars, last_pids, len, cap, call, gpu, calls, odd, history>>

-------------------------------------------------------------------------------
(* sample_compute_processes *)

\* Vec::reserve(additional): nothing if the spare capacity is enough already
reserve(additional) ==
  LET wanted == len + additional
  IN  cap' = IF wanted <= cap THEN cap
             ELSE IF wanted > 2 * cap THEN wanted ELSE 2 * cap

\* NVML_ERROR_INSUFFICIENT_SIZE
AskAgain ==
  /\ call # NoCall
  /\ Len(procs) > cap
  /\ reserve(Len(procs) - cap)
  /\ odd' = ~odd
  /\ UNCHANGED <<loopVars, queueVars, last_pids, len, call, gpu, calls, history>>

\* any other error: main's call returns it (sample_power_state only warns),
\* the tick goes on with the PIDs of the refresh before
AskErr ==
  /\ call # NoCall
  /\ call' = NoCall
  /\ IF InTick
     THEN /\ TickOk(call.at, call.uw, 0, last_pids)
          /\ refresh' = [ok |-> FALSE, pids |-> <<>>]
     ELSE UNCHANGED <<loopVars, refresh>>
  /\ UNCHANGED <<queueVars, last_pids, len, cap, gpu, calls, odd, exact, atMost>>

\* NVML_SUCCESS: NVML wrote Len(procs) entries and set_len follows
Answered ==
  /\ call # NoCall
  /\ Len(procs) <= cap
  /\ len' = Len(procs)
  /\ call' = NoCall
  /\ UNCHANGED <<queueVars, cap, gpu, calls, odd>>

-------------------------------------------------------------------------------
(* The rest of each method *)

\* mutant: the tick does not refresh the active PIDs
TickWithoutRefresh ==
  /\ InTick
  /\ Answered
  /\ TickOk(call.at, call.uw, 0, last_pids)
  /\ refresh' = [ok |-> TRUE, pids |-> procs]
  /\ UNCHANGED <<last_pids, exact, atMost>>

sample_power_state ==
  /\ call.kind \in {"tick", "sample"}
  /\ Answered
  /\ last_pids' = procs
  /\ IF InTick
     THEN /\ TickOk(call.at, call.uw, 0, last_pids')
          /\ refresh' = [ok |-> TRUE, pids |-> procs]
     ELSE UNCHANGED <<loopVars, refresh>>
  /\ UNCHANGED <<exact, atMost>>

list_compute_processes ==
  /\ call.kind = "list"
  /\ Answered
  /\ UNCHANGED <<loopVars, last_pids, refresh, exact, atMost>>

\* the registry gets uj[i] for the i-th process, which becomes active
Attribute(uj) ==
  /\ AddAll([i \in DOMAIN procs |-> [pid |-> procs[i], uj |-> uj[i]]])
  /\ last_pids' = procs
  /\ UNCHANGED <<pc, prev, cumulative, delta, todo, share, remainder, handed, start>>

\* mutant: every process gets the remainder's extra micro-joule
GenerousShares(total, n) == [i \in 1 .. n |-> total \div n + (IF total % n > 0 THEN 1 ELSE 0)]

EqualShares(total, n) ==
  [i \in 1 .. n |-> total \div n + (IF i <= total - (total \div n) * n THEN 1 ELSE 0)]

sample_window_energy ==
  LET total == nvml_window_energy_uj(call.mw, call.dt)
  IN  /\ call.kind = "window"
      /\ Answered
      /\ IF procs = <<>> \/ total = 0
         THEN UNCHANGED <<loopVars, last_pids, exact>>
         ELSE /\ Attribute(EqualShares(total, Len(procs)))
              /\ exact' = exact + total
      /\ UNCHANGED <<refresh, atMost>>

attribute_window ==
  LET n == Len(procs)
      uj == deterministic_attribution_uj(call.uw, call.idle, call.dt \div n, call.dt)
  IN  /\ call.kind = "model"
      /\ Answered
      /\ IF procs = <<>>
         THEN UNCHANGED <<loopVars, last_pids, atMost>>
         ELSE /\ Attribute([i \in 1 .. n |-> uj])
              /\ atMost' = atMost + burst_energy_uj(call.uw, call.idle, call.dt)
      /\ UNCHANGED <<refresh, exact>>

Question ==
  \/ AskAgain
  \/ AskErr
  \/ sample_power_state
  \/ list_compute_processes
  \/ sample_window_energy
  \/ attribute_window

-------------------------------------------------------------------------------
Idle == UNCHANGED <<last_pids, len, cap, call, gpu, calls, odd, history>>

Finish == (Credit \/ Heartbeat) /\ UNCHANGED queueVars /\ Idle

Control == call = NoCall /\ (StartLoop \/ DropLoop) /\ UNCHANGED queueVars /\ Idle

Enqueue ==
  /\ call = NoCall
  /\ enqueued < MaxEnqueued
  /\ \E p \in Pids : enqueue_attribution(p, 1)
  /\ Idle

Sync == call = NoCall /\ sync_registry /\ Idle

Next ==
  \/ \E t \in 0 .. MaxTime : Elapse(t)
  \/ ProcsChange
  \/ BeginTick
  \/ BeginMain
  \/ PowerErr
  \/ Question
  \/ Finish
  \/ Control
  \/ Enqueue
  \/ Sync

Spec == Init /\ [][Next]_wvars

\* the thread inside a call keeps running, and so does a tick
FairSpec == Spec /\ WF_wvars(Question) /\ WF_wvars(Finish)

TypeOK ==
  /\ LoopTypeOK
  /\ QueueTypeOK
  /\ last_pids \in Seq(Pids)
  /\ cap \in Nat /\ len \in 0 .. cap
  /\ call.kind \in {"none", "tick", "list", "sample", "window", "model"}
  /\ procs \in ProcLists /\ now \in U64 /\ changes \in Nat /\ calls \in Nat
  /\ odd \in BOOLEAN /\ exact \in Nat /\ atMost \in Nat
  /\ refresh \in [ok : BOOLEAN, pids : Seq(Pids)]

(***************************************************************************)
(* The registry never holds more than the loops' energy, the enqueued      *)
(* records and the energy of the windows main attributed, and only         *)
(* attribute_window, which rounds every share down, may give less: the     *)
(* equal split of sample_window_energy loses nothing, even when NVML lists *)
(* a PID twice.  (u64::MAX may stand for more than it says.)               *)
(***************************************************************************)
WindowsAddUp ==
  LET held == MapThenSumSet(LAMBDA p : energy[p], Buckets) + SumUj(pending)
      sure == handed + enqueued + exact
  IN  sure + atMost < MaxU => held \in sure .. (sure + atMost)

(***************************************************************************)
(* A tick whose refresh succeeded splits its energy over the processes     *)
(* NVML listed in that very tick, and over PID 0 only if there were none   *)
(* ("otherwise the loop would fan all energy onto PID 0 even while real    *)
(* workloads are running"), however old the PIDs of earlier calls are.     *)
(***************************************************************************)
SplitIsFresh ==
  (pc = "credit" /\ call = NoCall /\ refresh.ok) =>
    LET over == IF refresh.pids = <<>> THEN <<SystemPid>> ELSE refresh.pids
    IN  /\ Len(todo) <= Len(over)
        /\ todo = SubSeq(over, Len(over) - Len(todo) + 1, Len(over))

(***************************************************************************)
(* "Providers MUST therefore bound their own I/O so that a kernel deadlock *)
(* cannot freeze the 100 ms tick indefinitely" (provider.rs): every call   *)
(* of sample_compute_processes returns.                                    *)
(***************************************************************************)
EveryQueryReturns == call # NoCall ~> call = NoCall
===============================================================================
