----------------------------- MODULE LinuxProofs -----------------------------
(***************************************************************************)
(* What TLAPS proves of the Linux provider under its sampling loop, for    *)
(* every counter range, every number of PIDs and fences, and any wraps,    *)
(* resets, clock steps, failed samples and dropped events.                 *)
(***************************************************************************)
EXTENDS LinuxProvider, SamplingProofs

-------------------------------------------------------------------------------
(* Types, and the balance of the queue *)

\* what mark_pid_active makes of a count
OneMore(n) == IF n < MaxU32 THEN n + 1 ELSE n

(***************************************************************************)
(* active_pid_set lists PIDs: every place in the ascending order of the    *)
(* keys is taken.                                                          *)
(***************************************************************************)
LEMMA ActivePidsAreListed ==
  ASSUME active \in [Pids -> 0 .. MaxU32]
  PROVE  active_pid_set \in Seq(Pids)
<1> DEFINE keys == {p \in Pids : active[p] > 0}
           n == Cardinality(keys)
           Below(p) == {q \in keys : q <= p}
           rank == [p \in keys |-> Cardinality(Below(p))]
<1>1. IsFiniteSet(keys) /\ n \in Nat /\ keys \subseteq Nat /\ keys \subseteq Pids
  BY PidsAssumption, FS_Subset, FS_CardinalityType
<1>2. IsFiniteSet(1 .. n) /\ Cardinality(1 .. n) = n
  BY <1>1, FS_Interval
<1>3. active_pid_set = [i \in 1 .. n |-> CHOOSE p \in keys : Cardinality(Below(p)) = i]
  BY DEF active_pid_set
<1> HIDE DEF keys, n
<1>4. \A p \in keys : IsFiniteSet(Below(p)) /\ p \in Below(p) /\ Below(p) \in SUBSET keys
  BY <1>1, FS_Subset
<1>5. \A p \in keys : rank[p] \in 1 .. n
  <2> TAKE p \in keys
  <2>1. Cardinality(Below(p)) \in Nat /\ Cardinality(Below(p)) <= n
    BY <1>1, <1>4, FS_Subset, FS_CardinalityType DEF n
  <2>2. Cardinality(Below(p)) # 0
    BY <1>4, FS_EmptySet
  <2> QED BY <1>1, <2>1, <2>2
<1>6. \A p, q \in keys : p # q => rank[p] # rank[q]
  <2>1. ASSUME NEW p \in keys, NEW q \in keys, p < q
        PROVE  Cardinality(Below(p)) # Cardinality(Below(q))
    <3>0. p \in Nat /\ q \in Nat /\ \A r \in keys : r \in Nat
      BY <1>1
    <3>1. Below(p) \in SUBSET Below(q) /\ q \in Below(q) /\ q \notin Below(p)
      <4>1. \A r \in keys : r <= p => r <= q
        BY <2>1, <3>0
      <4>2. q <= q /\ ~(q <= p)
        BY <2>1, <3>0
      <4> QED BY <4>1, <4>2
    <3>2. Below(p) # Below(q) /\ IsFiniteSet(Below(q))
      BY <1>4, <3>1
    <3> HIDE DEF Below
    <3> QED BY <3>1, <3>2, FS_Subset
  <2> QED BY <1>1, <2>1
<1>7. rank \in Injection(keys, 1 .. n)
  BY <1>5, <1>6 DEF Injection, IsInjective
<1>8. rank \in Surjection(keys, 1 .. n)
  <2> HIDE DEF rank
  <2> QED BY <1>1, <1>2, <1>7, FS_Injection DEF n
<1>9. \A i \in 1 .. n : \E p \in keys : Cardinality(Below(p)) = i
  <2>1. \A i \in 1 .. n : \E p \in keys : rank[p] = i
    <3> HIDE DEF rank
    <3> QED BY <1>8 DEF Surjection
  <2> QED BY <2>1
<1>10. \A i \in 1 .. n : (CHOOSE p \in keys : Cardinality(Below(p)) = i) \in Pids
  BY <1>1, <1>9
<1>11. active_pid_set \in [1 .. n -> Pids]
  BY <1>3, <1>10
<1> QED BY <1>1, <1>11

(***************************************************************************)
(* What the counter shows is a u64 below its range.                        *)
(***************************************************************************)
LEMMA ReadingType ==
  ASSUME TypeOK
  PROVE  /\ Reading \in 0 .. MaxRange /\ Reading \in U64
         /\ max_energy_uj \in U64
         /\ rapl_power_uw \in Nat
<1> USE LinuxAssumption, MaxUAssumption
<1>1. burnt - base \in Nat /\ MaxRange \in Nat /\ MaxRange + 1 \in Nat \ {0}
  BY DEF TypeOK, U64
<1>2. Reading \in 0 .. MaxRange /\ Reading \in U64
  BY <1>1 DEF Reading, U64
<1>3. max_energy_uj \in U64
  BY DEF TypeOK, max_energy_uj, U64
<1>4. rapl_power_uw \in Nat
  <2> DEFINE dt == saturating_sub(now, rapl.at)
             d == rapl_delta_uj(Reading)
  <2>1. CASE rapl = Unread
    BY <2>1 DEF rapl_power_uw
  <2>2. CASE rapl # Unread
    <3>1. rapl.energy \in Nat /\ rapl.at \in Nat /\ now \in Nat /\ Reading \in Nat /\ max_energy_uj \in Nat
      BY <1>2, <1>3, <2>2 DEF TypeOK, U64
    <3>2. dt \in Nat
      BY <3>1 DEF saturating_sub
    <3> DEFINE a == saturating_sub(max_energy_uj, rapl.energy)
               b == saturating_add(a, Reading)
    <3>3. a \in Nat
      BY <3>1 DEF saturating_sub
    <3> HIDE DEF a
    <3>4. b \in Nat
      BY <3>1, <3>3, ClampBounds DEF saturating_add, U64
    <3> HIDE DEF b
    <3>5. saturating_add(b, 1) \in Nat
      BY <3>4, ClampBounds DEF saturating_add, U64
    <3>6. d \in Nat
      BY <3>1, <3>5 DEF rapl_delta_uj, a, b
    <3> HIDE DEF d
    <3>7. NS \in Nat \ {0} /\ d * NS \in Nat
      BY <3>6, AttributionAssumption DEF NS
    <3>8. dt # 0 => (d * NS) \div dt \in Nat
      BY <3>2, <3>7, DivisionBounds
    <3>9. dt # 0 => clamp((d * NS) \div dt) \in Nat
      BY <3>8, ClampBounds DEF U64
    <3> QED BY <3>9 DEF rapl_power_uw, d
  <2> QED BY <2>1, <2>2
<1> QED BY <1>2, <1>3, <1>4

TypeInv ==
  /\ TypeOK
  /\ LoopOK
  /\ Within(0, 0, MaxU)

WorldTypeOK ==
  /\ burnt \in Nat /\ base \in 0 .. burnt /\ now \in U64 /\ backs \in Nat
  /\ resets \in Nat /\ hasRange \in BOOLEAN

KernelTypeOK ==
  /\ busy \in [Pids -> Nat] /\ orphans \in [Pids -> Nat]
  /\ ring \in Seq(Events) /\ fences \in Nat /\ exits \in Nat /\ lost \in Nat

GhostTypeOK == sinceTick \in Nat /\ tickBurn \in Nat /\ tickNs \in Nat

RaplTypeOK == rapl = Unread \/ rapl \in [energy : U64, at : U64, max : U64]

(***************************************************************************)
(* TypeOK by the parts that change together.                               *)
(***************************************************************************)
LEMMA TypeParts ==
  TypeInv <=> /\ LoopOK /\ QueueTypeOK /\ Within(0, 0, MaxU) /\ RaplTypeOK /\ active \in [Pids -> 0 .. MaxU32]
              /\ WorldTypeOK /\ KernelTypeOK /\ GhostTypeOK
  BY DEF TypeInv, TypeOK, LoopOK, RaplTypeOK, WorldTypeOK, KernelTypeOK, GhostTypeOK

(***************************************************************************)
(* And so they are after a step.                                           *)
(***************************************************************************)
LEMMA TypePartsNext ==
  TypeInv' <=> /\ LoopOK' /\ QueueTypeOK' /\ Within(0, 0, MaxU)' /\ RaplTypeOK' /\ (active \in [Pids -> 0 .. MaxU32])'
               /\ WorldTypeOK' /\ KernelTypeOK' /\ GhostTypeOK'
  BY TypeParts, PTL

(***************************************************************************)
(* An event that is queued or dropped keeps the types of the kernel's side *)
(***************************************************************************)
LEMMA EmitType ==
  ASSUME ring \in Seq(Events), lost \in Nat, NEW kind \in {"init", "signal", "exit"},
         NEW p \in Pids, Emit(kind, p)
  PROVE  ring' \in Seq(Events) /\ lost' \in Nat
<1> DEFINE e == [kind |-> kind, pid |-> p]
<1>1. e \in Events
  BY DEF Events
<1>2. \/ ring' = Append(ring, e) /\ lost' = lost
      \/ ring' = ring /\ lost' = lost + 1
  BY DEF Emit
<1> HIDE DEF e
<1>3. Append(ring, e) \in Seq(Events)
  BY <1>1
<1>4. CASE ring' = Append(ring, e) /\ lost' = lost
  BY ONLY <1>3, <1>4, lost \in Nat, Zenon
<1>5. CASE ring' = ring /\ lost' = lost + 1
  <2>1. lost + 1 \in Nat
    OBVIOUS
  <2> QED BY ONLY <1>5, <2>1, ring \in Seq(Events), Zenon
<1> QED BY <1>2, <1>4, <1>5

(***************************************************************************)
(* A sampling attempt keeps the types of its history.                      *)
(***************************************************************************)
LEMMA AttemptType ==
  ASSUME TypeInv, Attempt
  PROVE  GhostTypeOK'
<1>1. sinceTick \in Nat /\ now \in Nat /\ (prev # NoSnapshot => prev \in Nat)
  BY MaxUAssumption DEF TypeInv, TypeOK, LoopTypeOK, U64
<1> QED BY <1>1 DEF Attempt, GhostTypeOK, saturating_sub

(***************************************************************************)
(* Every step keeps the types and the balance of the queue.                *)
(***************************************************************************)
LEMMA TypeStep == TypeInv /\ [Next]_lvars => TypeInv'
<1> SUFFICES ASSUME TypeInv, [Next]_lvars PROVE TypeInv'
  OBVIOUS
<1> USE LinuxAssumption, MaxUAssumption
<1>0. /\ LoopOK /\ QueueTypeOK /\ Within(0, 0, MaxU) /\ RaplTypeOK /\ active \in [Pids -> 0 .. MaxU32]
      /\ WorldTypeOK /\ KernelTypeOK /\ GhostTypeOK
  BY TypeParts
<1>1. ASSUME UNCHANGED <<loopVars, queueVars>>
      PROVE  LoopOK' /\ QueueTypeOK' /\ Within(0, 0, MaxU)'
  BY <1>0, <1>1, QueueKept DEF loopVars, LoopOK, LoopTypeOK
<1>2. ASSUME NEW uj \in Bursts, NEW t \in 0 .. MaxTime, Elapse(uj, t) PROVE TypeInv'
  <2>1. uj \in Nat /\ t \in U64
    BY DEF U64
  <2>2. WorldTypeOK' /\ GhostTypeOK'
    BY <1>0, <1>2, <2>1 DEF Elapse, WorldTypeOK, GhostTypeOK
  <2> QED BY <1>0, <1>1, <1>2, <2>2, TypePartsNext DEF Elapse, kernel, RaplTypeOK, KernelTypeOK
<1>3. CASE CounterReset
  <2>1. WorldTypeOK'
    BY <1>0, <1>3 DEF CounterReset, WorldTypeOK
  <2> QED BY <1>0, <1>1, <1>3, <2>1, TypePartsNext
          DEF CounterReset, kernel, ghosts, RaplTypeOK, KernelTypeOK, GhostTypeOK
<1>4. ASSUME NEW p \in Pids, FenceInit(p) \/ FenceSignal(p) \/ ProcessExit(p) PROVE TypeInv'
  <2>1. UNCHANGED <<loopVars, queueVars, rapl, active, world, ghosts>>
    BY <1>4 DEF FenceInit, FenceSignal, ProcessExit
  <2>2. KernelTypeOK'
    <3>1. busy[p] \in Nat /\ orphans[p] \in Nat
      BY <1>0 DEF KernelTypeOK
    <3>2. CASE FenceInit(p)
      BY <1>0, <3>1, <3>2, EmitType DEF FenceInit, KernelTypeOK
    <3>3. CASE FenceSignal(p)
      <4>1. ring' \in Seq(Events) /\ lost' \in Nat
        BY <1>0, <3>3, EmitType DEF FenceSignal, KernelTypeOK
      <4>2. busy' \in [Pids -> Nat] /\ orphans' \in [Pids -> Nat]
        <5>1. CASE busy[p] > 0 /\ busy' = [busy EXCEPT ![p] = @ - 1] /\ UNCHANGED orphans
          BY <1>0, <3>1, <5>1 DEF KernelTypeOK
        <5>2. CASE orphans[p] > 0 /\ orphans' = [orphans EXCEPT ![p] = @ - 1] /\ UNCHANGED busy
          BY <1>0, <3>1, <5>2 DEF KernelTypeOK
        <5> QED BY <3>3, <5>1, <5>2 DEF FenceSignal
      <4> QED BY <1>0, <3>3, <4>1, <4>2 DEF FenceSignal, KernelTypeOK
    <3>4. CASE ProcessExit(p)
      BY <1>0, <3>1, <3>4, EmitType DEF ProcessExit, KernelTypeOK
    <3> QED BY <1>4, <3>2, <3>3, <3>4
  <2> QED BY <1>0, <1>1, <2>1, <2>2, TypePartsNext
          DEF world, ghosts, RaplTypeOK, WorldTypeOK, GhostTypeOK
<1>5. CASE SampleOk
  <2>1. TickOk(now, rapl_power_uw, 0, active_pid_set) /\ read_rapl_power_uw /\ Attempt
        /\ UNCHANGED <<queueVars, active, world, kernel>>
    BY <1>5 DEF SampleOk
  <2>2. now \in U64 /\ rapl_power_uw \in Nat /\ active_pid_set \in Seq(Pids)
    BY <1>0, ReadingType, ActivePidsAreListed DEF WorldTypeOK, TypeInv
  <2>3. LoopOK' /\ UNCHANGED <<energy, handed>>
    BY <1>0, <2>1, <2>2, TickOkStep
  <2>4. QueueTypeOK' /\ Within(0, 0, MaxU)'
    BY <1>0, <2>1, <2>3, QueueKept
  <2>5. RaplTypeOK'
    BY <1>0, <2>1, ReadingType DEF read_rapl_power_uw, RaplTypeOK, WorldTypeOK, TypeInv
  <2>6. GhostTypeOK'
    BY <2>1, AttemptType
  <2> QED BY <1>0, <2>1, <2>3, <2>4, <2>5, <2>6, TypePartsNext
          DEF world, kernel, WorldTypeOK, KernelTypeOK
<1>6. CASE SampleErr
  <2>1. TickErr /\ Attempt /\ UNCHANGED <<queueVars, rapl, active, world, kernel>>
    BY <1>6 DEF SampleErr
  <2>2. LoopOK' /\ UNCHANGED <<energy, handed>>
    BY <1>0, <2>1, ControlStep
  <2>3. QueueTypeOK' /\ Within(0, 0, MaxU)'
    BY <1>0, <2>1, <2>2, QueueKept
  <2>4. GhostTypeOK'
    BY <2>1, AttemptType
  <2> QED BY <1>0, <2>1, <2>2, <2>3, <2>4, TypePartsNext
          DEF world, kernel, RaplTypeOK, WorldTypeOK, KernelTypeOK
<1>7. CASE Finish \/ Control
  <2>1. UNCHANGED <<queueVars, rapl, active, world, kernel, ghosts>>
    BY <1>7 DEF Finish, Control
  <2>2. LoopOK' /\ QueueTypeOK' /\ Within(0, 0, MaxU)'
    <3>1. CASE Credit
      BY <1>0, <2>1, <3>1, CreditStep, CreditArrives
    <3>2. CASE Heartbeat
      BY <1>0, <2>1, <3>2, HeartbeatStep, QueueKept
    <3>3. CASE StartLoop \/ DropLoop
      BY <1>0, <2>1, <3>3, ControlStep, QueueKept
    <3> QED BY <1>7, <3>1, <3>2, <3>3 DEF Finish, Control
  <2> QED BY <1>0, <2>1, <2>2, TypePartsNext
          DEF world, kernel, ghosts, RaplTypeOK, WorldTypeOK, KernelTypeOK, GhostTypeOK
<1>8. CASE MainSample
  <2>1. read_rapl_power_uw /\ Attempt /\ UNCHANGED <<loopVars, queueVars, active, world, kernel>>
    BY <1>8 DEF MainSample
  <2>2. RaplTypeOK'
    BY <1>0, <2>1, ReadingType DEF read_rapl_power_uw, RaplTypeOK, WorldTypeOK, TypeInv
  <2>3. GhostTypeOK'
    BY <2>1, AttemptType
  <2> QED BY <1>0, <1>1, <2>1, <2>2, <2>3, TypePartsNext
          DEF world, kernel, WorldTypeOK, KernelTypeOK
<1>9. CASE Drain
  <2>1. /\ ring # <<>> /\ ring' = Tail(ring)
        /\ UNCHANGED <<loopVars, rapl, world, busy, orphans, fences, exits, lost, ghosts>>
    BY <1>9 DEF Drain, OnInit, OnSignal, OnExit, Receive
  <2> DEFINE p == Head(ring).pid
  <2>2. p \in Pids /\ p \in Buckets /\ Tail(ring) \in Seq(Events)
    <3>1. Head(ring) \in Events /\ Tail(ring) \in Seq(Events)
      BY <1>0, <2>1 DEF KernelTypeOK
    <3> QED BY <3>1 DEF Events, Buckets
  <2>3. KernelTypeOK'
    BY <1>0, <2>1, <2>2 DEF KernelTypeOK
  <2>4. active[p] \in Nat /\ active[p] <= MaxU32 /\ MaxU32 \in Nat
    BY <1>0, <2>2 DEF U64
  <2>5. active' \in [Pids -> 0 .. MaxU32]
    <3>1. OneMore(active[p]) \in 0 .. MaxU32
      BY <2>4 DEF OneMore
    <3>2. saturating_sub(active[p], 1) \in 0 .. MaxU32
      BY <2>4 DEF saturating_sub
    <3>3. 0 \in 0 .. MaxU32
      BY <2>4
    <3> HIDE DEF p
    <3>4. \E n \in 0 .. MaxU32 : active' = [active EXCEPT ![p] = n]
      BY <1>9, <3>1, <3>2, <3>3
         DEF Drain, OnInit, OnSignal, OnExit, mark_pid_active, mark_pid_idle, correlate_fence,
             OneMore, p
    <3> QED BY <1>0, <3>4
  <2>6. LoopOK' /\ QueueTypeOK' /\ Within(0, 0, MaxU)'
    <3>1. CASE OnSignal
      <4>1. PICK t \in FenceTimes : Push(p, window_energy_uj(FencePower, t))
        BY <3>1 DEF OnSignal, correlate_fence
      <4>2. window_energy_uj(FencePower, t) \in U64
        <5>1. FencePower \in Nat /\ t \in Nat
          BY DEF U64
        <5> QED BY <5>1, WindowEnergyIsU64
      <4>3. LoopOK'
        BY <1>0, <2>1 DEF loopVars, LoopOK, LoopTypeOK
      <4> QED BY <1>0, <2>1, <2>2, <4>1, <4>2, <4>3, PushStep
    <3>2. CASE OnInit \/ OnExit
      BY <1>1, <2>1, <3>2 DEF OnInit, OnExit
    <3> QED BY <1>9, <3>1, <3>2 DEF Drain
  <2> QED BY <1>0, <2>1, <2>3, <2>5, <2>6, TypePartsNext
          DEF world, ghosts, RaplTypeOK, WorldTypeOK, GhostTypeOK
<1>10. CASE Enqueue
  <2>1. PICK p \in Pids : enqueue_attribution(p, 1)
    BY <1>10 DEF Enqueue
  <2>2. Push(p, 1) /\ UNCHANGED <<loopVars, rapl, active, world, kernel, ghosts>>
    BY <1>10, <2>1 DEF Enqueue, enqueue_attribution
  <2>3. p \in Buckets /\ 1 \in U64
    BY DEF Buckets, U64
  <2>4. QueueTypeOK' /\ Within(0, 0, MaxU)'
    BY <1>0, <2>2, <2>3, PushStep
  <2>5. LoopOK'
    BY <1>0, <2>2 DEF loopVars, LoopOK, LoopTypeOK
  <2> QED BY <1>0, <2>2, <2>4, <2>5, TypePartsNext
          DEF world, kernel, ghosts, RaplTypeOK, WorldTypeOK, KernelTypeOK, GhostTypeOK
<1>11. CASE Sync
  <2>1. LoopOK' /\ QueueTypeOK' /\ Within(0, 0, MaxU)'
    BY <1>0, <1>11, SyncStep DEF Sync
  <2> QED BY <1>0, <1>11, <2>1, TypePartsNext
          DEF Sync, world, kernel, ghosts, RaplTypeOK, WorldTypeOK, KernelTypeOK, GhostTypeOK
<1>12. CASE UNCHANGED lvars
  BY <1>0, <1>1, <1>12, TypePartsNext
     DEF lvars, world, kernel, ghosts, RaplTypeOK, WorldTypeOK, KernelTypeOK, GhostTypeOK
<1> QED BY <1>2, <1>3, <1>4, <1>5, <1>6, <1>7, <1>8, <1>9, <1>10, <1>11, <1>12 DEF Next

(***************************************************************************)
(* The types and the balance hold in every reachable state.                *)
(***************************************************************************)
LEMMA TypeInvariant == Spec => []TypeInv
<1>1. Init => TypeInv
  <2> SUFFICES ASSUME Init PROVE TypeInv
    OBVIOUS
  <2>1. LoopOK /\ QueueTypeOK /\ Within(0, 0, MaxU)
    BY LoopStart, QueueStart DEF Init
  <2>2. 0 \in U64 /\ 0 \in 0 .. 0 /\ 0 \in 0 .. MaxU32 /\ <<>> \in Seq(Events)
    BY MaxUAssumption, LinuxAssumption DEF U64
  <2> QED BY <2>1, <2>2, TypeParts DEF Init, RaplTypeOK, WorldTypeOK, KernelTypeOK, GhostTypeOK
<1> QED BY <1>1, TypeStep, PTL DEF Spec

(***************************************************************************)
(* Every number the provider keeps stays in its type, the saturating count *)
(* of fences and the listed PIDs included.                                 *)
(***************************************************************************)
THEOREM LinuxIsTyped == Spec => []TypeOK
<1>1. TypeInv => TypeOK
  BY DEF TypeInv
<1> QED BY <1>1, TypeInvariant, PTL

(***************************************************************************)
(* What the loops handed over and what was enqueued is in the registry or  *)
(* still pending, once, for every interleaving of loops, fences and syncs. *)
(***************************************************************************)
THEOREM LinuxAttributionsArrive == Spec => []EveryAttributionArrivesOnce
<1>1. TypeInv => EveryAttributionArrivesOnce
  BY ArrivedIs DEF TypeInv, TypeOK
<1> QED BY <1>1, TypeInvariant, PTL

-------------------------------------------------------------------------------
(* The counter *)

\* a counter that wraps at m reads r after x
Shows(x, m, r) == r = x % m

(***************************************************************************)
(* How far a counter that wraps at m moved, seen from its two readings.    *)
(***************************************************************************)
LEMMA WrappedDifference ==
  ASSUME NEW x \in Nat, NEW y \in Nat, y <= x, NEW m \in Nat \ {0},
         NEW r, NEW t, Shows(x, m, r), Shows(y, m, t)
  PROVE  /\ r \in Nat /\ r <= x /\ r < m /\ t \in Nat /\ t < m
         /\ t <= r => r - t <= x - y
         /\ r < t => (r + m) - t <= x - y
         /\ (x - y < m /\ t <= r) => r - t = x - y
         /\ (x - y < m /\ r < t) => (r + m) - t = x - y
<1> DEFINE q == x \div m
           s == y \div m
<1>1. /\ q \in Nat /\ r \in Nat /\ r < m /\ x = q * m + r
      /\ s \in Nat /\ t \in Nat /\ t < m /\ y = s * m + t
  BY DEF Shows
<1> HIDE DEF q, s
<1> DEFINE qm == q * m
           sm == s * m
<1>2. qm \in Nat /\ sm \in Nat
  BY <1>1
<1>3. s < q => qm >= sm + m
  <2> SUFFICES ASSUME s < q PROVE qm >= sm + m
    OBVIOUS
  <2>1. (s + 1) * m <= q * m
    <3>1. m * (s + 1) <= m * q
      BY <1>1, ProductGrows
    <3> QED BY <1>1, <3>1
  <2>2. (s + 1) * m = s * m + m
    BY <1>1
  <2> QED BY <2>1, <2>2
<1>4. q < s => sm >= qm + m
  <2> SUFFICES ASSUME q < s PROVE sm >= qm + m
    OBVIOUS
  <2>1. (q + 1) * m <= s * m
    <3>1. m * (q + 1) <= m * s
      BY <1>1, ProductGrows
    <3> QED BY <1>1, <3>1
  <2>2. (q + 1) * m = q * m + m
    BY <1>1
  <2> QED BY <2>1, <2>2
<1>5. s + 1 < q => qm >= sm + m + m
  <2> SUFFICES ASSUME s + 1 < q PROVE qm >= sm + m + m
    OBVIOUS
  <2>1. (s + 2) * m <= q * m
    <3>1. m * (s + 2) <= m * q
      BY <1>1, ProductGrows
    <3> QED BY <1>1, <3>1
  <2>2. (s + 2) * m = s * m + m + m
    BY <1>1
  <2> QED BY <2>1, <2>2
<1>6. (s = q => qm = sm) /\ (q = s + 1 => qm = sm + m)
  <2>1. (s + 1) * m = s * m + m
    BY <1>1
  <2> QED BY <1>1, <2>1
<1>7. x = qm + r /\ y = sm + t
  BY <1>1
<1> HIDE DEF qm, sm
<1>8. s = q \/ s < q \/ q < s
  BY <1>1
<1>9. r <= x
  BY <1>1, <1>2, <1>7
<1>10. t <= r => r - t <= x - y
  BY <1>1, <1>2, <1>3, <1>4, <1>6, <1>7, <1>8
<1>11. r < t => (r + m) - t <= x - y
  BY <1>1, <1>2, <1>3, <1>4, <1>6, <1>7, <1>8
<1>12. (x - y < m /\ t <= r) => r - t = x - y
  BY <1>1, <1>2, <1>3, <1>4, <1>6, <1>7, <1>8
<1>13. (x - y < m /\ r < t) => (r + m) - t = x - y
  <2> SUFFICES ASSUME x - y < m, r < t PROVE (r + m) - t = x - y
    OBVIOUS
  <2>1. CASE s = q
    BY <1>1, <1>2, <1>6, <1>7, <2>1
  <2>2. CASE q = s + 1
    BY <1>1, <1>2, <1>6, <1>7, <2>2
  <2>3. CASE s + 1 < q
    BY <1>1, <1>2, <1>5, <1>7, <2>3
  <2>4. CASE q < s
    BY <1>1, <1>2, <1>4, <1>7, <2>4
  <2> QED BY <1>1, <2>1, <2>2, <2>3, <2>4
<1> QED BY <1>1, <1>9, <1>10, <1>11, <1>12, <1>13

\* what k resets, taken for wraps, may add
RangeShare(k) == IF hasRange THEN k * MaxRange ELSE 0

\* the counter was last read when the package had burnt b uJ, c of them
\* before the counter was last 0, after k resets
SeenAt(b, c, k) ==
  /\ b \in 0 .. burnt /\ c \in 0 .. b /\ k \in 0 .. resets
  /\ rapl.energy = (b - c) % (MaxRange + 1)
  /\ (k = resets /\ c = base) \/ (k < resets /\ b <= base)

KnownRange == rapl.max = IF hasRange THEN MaxRange ELSE MaxU

(***************************************************************************)
(* More resets may add more, by one range each.                            *)
(***************************************************************************)
LEMMA RangeShareGrows ==
  ASSUME NEW j \in Nat, NEW k \in Nat, j <= k, hasRange \in BOOLEAN
  PROVE  /\ RangeShare(j) \in Nat /\ RangeShare(k) \in Nat /\ RangeShare(k - j) \in Nat
         /\ RangeShare(j) + RangeShare(k - j) = RangeShare(k)
         /\ RangeShare(k - j) <= RangeShare(k)
         /\ (j < k /\ hasRange) => MaxRange <= RangeShare(k - j)
<1> DEFINE m == MaxRange
<1>1. m \in Nat
  BY LinuxAssumption, MaxUAssumption DEF U64
<1> HIDE DEF m
<1>2. j * m \in Nat /\ k * m \in Nat /\ (k - j) * m \in Nat /\ j * m + (k - j) * m = k * m
  BY <1>1
<1>3. j < k => m <= (k - j) * m
  <2> SUFFICES ASSUME j < k PROVE m <= (k - j) * m
    OBVIOUS
  <2>1. k - j \in Nat /\ 1 <= k - j
    OBVIOUS
  <2>2. m * 1 <= m * (k - j)
    BY <1>1, <2>1, ProductGrows
  <2> QED BY <1>1, <2>1, <2>2
<1>4. (k - j) * m <= k * m
  <2> DEFINE a == j * m
             b == (k - j) * m
             c == k * m
  <2>1. a \in Nat /\ b \in Nat /\ c \in Nat /\ a + b = c
    BY <1>2
  <2> HIDE DEF a, b, c
  <2>2. b <= c
    BY <2>1
  <2> QED BY <2>2 DEF b, c
<1> QED BY <1>2, <1>3, <1>4 DEF RangeShare, m

(***************************************************************************)
(* What rapl_delta_uj returns is covered by what was burnt since the last  *)
(* reading and one range per reset since then, and is exact when there was *)
(* no reset, the range is known and the counter turned less than once.     *)
(***************************************************************************)
LEMMA DeltaIsCovered ==
  ASSUME TypeInv, rapl # Unread, KnownRange, NEW b, NEW c, NEW k, SeenAt(b, c, k)
  PROVE  LET d == rapl_delta_uj(Reading)
         IN  /\ d \in Nat /\ d <= (burnt - b) + RangeShare(resets - k)
             /\ (resets = 0 /\ hasRange /\ burnt - b <= MaxRange) => d = burnt - b
<1> USE LinuxAssumption, MaxUAssumption
<1> DEFINE m == MaxRange + 1
           x == burnt - base
           y == b - c
           r == x % m
           t == y % m
           d == rapl_delta_uj(Reading)
           R == RangeShare(resets - k)
<1>1. /\ burnt \in Nat /\ base \in Nat /\ base <= burnt /\ resets \in Nat /\ hasRange \in BOOLEAN
      /\ b \in Nat /\ b <= burnt /\ c \in Nat /\ c <= b /\ k \in Nat /\ k <= resets
      /\ MaxRange \in Nat /\ MaxU \in Nat /\ MaxRange < MaxU
  BY DEF TypeInv, TypeOK, SeenAt, U64
<1>2. x \in Nat /\ y \in Nat /\ m \in Nat \ {0}
  BY <1>1
<1>3. /\ Reading = r /\ rapl.energy = t
      /\ max_energy_uj = IF hasRange THEN MaxRange ELSE MaxU
  BY DEF Reading, SeenAt, KnownRange, max_energy_uj
<1>4. R \in Nat /\ (k < resets /\ hasRange => MaxRange <= R)
  BY <1>1, RangeShareGrows
<1> HIDE DEF R
<1>5. r \in Nat /\ r <= x /\ r < m
  <2>1. x <= x
    BY <1>2
  <2>2. Shows(x, m, r)
    BY DEF Shows
  <2> HIDE DEF x, m, r
  <2> QED BY <1>2, <2>1, <2>2, WrappedDifference
<1>6. t \in Nat /\ t < m
  <2>1. y <= y
    BY <1>2
  <2>2. Shows(y, m, t)
    BY DEF Shows
  <2> HIDE DEF y, m, t
  <2> QED BY <1>2, <2>1, <2>2, WrappedDifference
<1>7. /\ t <= r => d = r - t
      /\ (r < t /\ ~hasRange) => d = 0
      /\ (r < t /\ hasRange) => d = (r + m) - t
  <2> HIDE DEF r, t
  <2>1. d = IF r >= t THEN r - t ELSE IF max_energy_uj = MaxU THEN 0
            ELSE saturating_add(saturating_add(saturating_sub(max_energy_uj, t), r), 1)
    BY <1>3 DEF rapl_delta_uj
  <2>2. t <= r => d = r - t
    BY <1>5, <1>6, <2>1
  <2>3. (r < t /\ ~hasRange) => d = 0
    BY <1>1, <1>3, <1>5, <1>6, <2>1
  <2>4. ASSUME r < t, hasRange PROVE d = (r + m) - t
    <3>1. max_energy_uj = MaxRange /\ max_energy_uj # MaxU
      BY <1>1, <1>3, <2>4
    <3>2. d = clamp(clamp((MaxRange - t) + r) + 1)
      BY <1>1, <1>5, <1>6, <2>1, <2>4, <3>1 DEF saturating_add, saturating_sub
    <3>3. clamp((MaxRange - t) + r) = (MaxRange - t) + r
      BY <1>1, <1>5, <1>6, <2>4 DEF clamp
    <3>4. clamp(((MaxRange - t) + r) + 1) = ((MaxRange - t) + r) + 1
      BY <1>1, <1>5, <1>6, <2>4 DEF clamp
    <3> QED BY <1>1, <1>5, <1>6, <3>2, <3>3, <3>4
  <2> QED BY <2>2, <2>3, <2>4
<1>8. CASE k = resets /\ c = base
  <2>1. y <= x /\ x - y = burnt - b
    BY <1>1, <1>8
  <2>2. /\ t <= r => r - t <= x - y
        /\ r < t => (r + m) - t <= x - y
        /\ (x - y < m /\ t <= r) => r - t = x - y
        /\ (x - y < m /\ r < t) => (r + m) - t = x - y
    <3>1. Shows(x, m, r) /\ Shows(y, m, t)
      BY DEF Shows
    <3>2. y <= x
      BY <2>1
    <3> HIDE DEF x, y, m, r, t
    <3> QED BY ONLY <1>2, <3>1, <3>2, WrappedDifference
  <2> HIDE DEF r, t, d, x, y
  <2>3. d \in Nat /\ d <= (burnt - b) + R
    BY <1>1, <1>2, <1>4, <1>5, <1>6, <1>7, <2>1, <2>2
  <2>4. (hasRange /\ burnt - b <= MaxRange) => d = burnt - b
    BY <1>1, <1>2, <1>5, <1>6, <1>7, <2>1, <2>2
  <2> QED BY <2>3, <2>4 DEF d, R
<1>9. CASE k < resets /\ b <= base
  <2>1. x <= burnt - b
    BY <1>1, <1>9
  <2> HIDE DEF r, t, d, x, y
  <2>2. d \in Nat /\ d <= (burnt - b) + R
    BY <1>1, <1>2, <1>4, <1>5, <1>6, <1>7, <1>9, <2>1
  <2>3. resets # 0
    BY <1>1, <1>9
  <2> QED BY <2>2, <2>3 DEF d, R
<1> QED BY <1>8, <1>9 DEF SeenAt

-------------------------------------------------------------------------------
(* What the loop credits *)

InLoop == pc # "main" /\ prev # NoSnapshot

\* what was handed over and is still owed was burnt before the last reading;
\* the loop's history counts from it
Covered(b, c, k) ==
  /\ SeenAt(b, c, k)
  /\ handed + Owed <= b + RangeShare(k)
  /\ InLoop => sinceTick = burnt - b

EnergyInv ==
  /\ rapl = Unread => handed = 0 /\ pc # "credit" /\ prev = NoSnapshot
  /\ rapl # Unread => KnownRange /\ \E b, c \in 0 .. burnt, k \in 0 .. resets : Covered(b, c, k)
  /\ InLoop => rapl.at = prev
  /\ (InLoop /\ backs = 0) => prev <= now /\ (now = prev => sinceTick = 0)
  /\ NoBackfill
  /\ TickLosesLittle

(***************************************************************************)
(* The delta of a tick is covered by what was burnt since the last reading *)
(* and, without faults, is almost all of it.                               *)
(***************************************************************************)
LEMMA TickDelta ==
  ASSUME TypeInv, EnergyInv, InLoop, NEW b, NEW c, NEW k, Covered(b, c, k)
  PROVE  LET dt == saturating_sub(now, prev)
             e == burst_energy_uj(rapl_power_uw, 0, dt)
         IN  /\ e \in Nat /\ e <= (burnt - b) + RangeShare(resets - k)
             /\ (backs = 0 /\ resets = 0 /\ hasRange
                   /\ sinceTick <= MaxRange /\ sinceTick * NS <= MaxU)
                  => (sinceTick - e) * NS < NS + dt
<1> USE LinuxAssumption, MaxUAssumption
<1> DEFINE dt == saturating_sub(now, prev)
           e == burst_energy_uj(rapl_power_uw, 0, dt)
           d == rapl_delta_uj(Reading)
           p == rapl_power_uw
           R == RangeShare(resets - k)
<1>0. rapl # Unread /\ KnownRange /\ rapl.at = prev /\ SeenAt(b, c, k) /\ sinceTick = burnt - b
  BY DEF EnergyInv, InLoop, Covered
<1>1. /\ now \in Nat /\ prev \in Nat /\ sinceTick \in Nat /\ burnt \in Nat /\ b \in Nat /\ b <= burnt
      /\ resets \in Nat /\ k \in Nat /\ k <= resets /\ hasRange \in BOOLEAN /\ backs \in Nat
  BY <1>0 DEF TypeInv, TypeOK, LoopTypeOK, InLoop, SeenAt, U64
<1>2. dt \in Nat
  BY <1>1 DEF saturating_sub
<1>3. /\ d \in Nat /\ d <= (burnt - b) + R
      /\ (resets = 0 /\ hasRange /\ burnt - b <= MaxRange) => d = burnt - b
  BY <1>0, DeltaIsCovered
<1>4. R \in Nat
  BY <1>1, RangeShareGrows
<1>5. NS \in Nat \ {0}
  BY AttributionAssumption DEF NS
<1>6. p = IF dt = 0 THEN 0 ELSE clamp((d * NS) \div dt)
  BY <1>0 DEF rapl_power_uw
<1>7. p \in Nat
  BY ReadingType DEF TypeInv
<1>8. e = window_energy_uj(p, dt)
  <2>1. saturating_sub(p, 0) = p
    BY <1>7 DEF saturating_sub
  <2> QED BY <2>1 DEF burst_energy_uj, baseline_burst_power_uw
<1>9. (backs = 0 /\ now = prev) => sinceTick = 0
  BY DEF EnergyInv
<1>10. backs = 0 => prev <= now
  BY DEF EnergyInv
<1>11. backs = 0 /\ dt = 0 => sinceTick = 0
  BY <1>1, <1>9, <1>10 DEF saturating_sub
<1> HIDE DEF dt, d, p, R, e
<1>12. CASE dt = 0
  <2>1. p = 0
    BY <1>6, <1>12
  <2>2. e \in U64 /\ e <= (0 * 0) \div NS
    BY <1>8, <1>12, <2>1, WindowEnergyBounds, WindowEnergyIsU64
  <2>3. (0 * 0) \div NS = 0
    BY <1>5
  <2>4. e = 0
    BY <2>2, <2>3 DEF U64
  <2>5. backs = 0 => (sinceTick - e) * NS < NS + dt
    <3> SUFFICES ASSUME backs = 0 PROVE (sinceTick - e) * NS < NS + dt
      OBVIOUS
    <3>1. sinceTick = 0
      BY <1>11, <1>12
    <3>2. (0 - 0) * NS < NS + 0
      BY <1>5
    <3> QED BY <1>12, <2>4, <3>1, <3>2
  <2> QED BY <1>1, <1>4, <2>4, <2>5 DEF dt, e, R
<1>13. CASE dt # 0
  <2>1. /\ e \in Nat /\ e <= d
        /\ d * NS <= MaxU => (d - e) * NS < NS + dt
    BY <1>2, <1>3, <1>6, <1>8, <1>13, PowerAndBack
  <2>2. e <= (burnt - b) + R
    BY <1>1, <1>3, <1>4, <2>1
  <2>3. (resets = 0 /\ hasRange /\ sinceTick <= MaxRange) => d = sinceTick
    BY <1>0, <1>3
  <2> QED BY <2>1, <2>2, <2>3 DEF dt, e, R
<1> QED BY <1>12, <1>13

(***************************************************************************)
(* A step that leaves the readings, the loop's account and its history     *)
(* alone keeps the invariant.                                              *)
(***************************************************************************)
LEMMA EnergyKept ==
  ASSUME EnergyInv,
         UNCHANGED <<pc, prev, delta, todo, share, remainder, handed, rapl, world, ghosts>>
  PROVE  EnergyInv'
  BY DEF EnergyInv, InLoop, Covered, SeenAt, KnownRange, RangeShare, NoBackfill, TickLosesLittle,
         Owed, Invented, world, ghosts

(***************************************************************************)
(* What was handed over, and is still owed, never exceeds what was burnt   *)
(* and one range per reset.                                                *)
(***************************************************************************)
LEMMA HandedIsCovered ==
  ASSUME TypeInv, EnergyInv
  PROVE  handed + Owed <= burnt + RangeShare(resets)
<1>0. /\ burnt \in Nat /\ resets \in Nat /\ hasRange \in BOOLEAN /\ handed \in Nat /\ Owed \in Nat
  BY OwedType DEF TypeInv, TypeOK, LoopTypeOK
<1>1. CASE rapl = Unread
  <2>1. handed = 0 /\ Owed = 0
    BY <1>1 DEF EnergyInv, Owed
  <2>2. RangeShare(resets) \in Nat
    BY <1>0, RangeShareGrows
  <2> QED BY <1>0, <2>1, <2>2
<1>2. CASE rapl # Unread
  <2>1. PICK b, c \in 0 .. burnt, k \in 0 .. resets : Covered(b, c, k)
    BY <1>2 DEF EnergyInv
  <2>2. /\ RangeShare(k) \in Nat /\ RangeShare(resets) \in Nat /\ RangeShare(resets - k) \in Nat
        /\ RangeShare(k) + RangeShare(resets - k) = RangeShare(resets)
    BY <1>0, RangeShareGrows
  <2>3. handed + Owed <= b + RangeShare(k) /\ b \in Nat /\ b <= burnt
    BY <1>0, <2>1 DEF Covered
  <2> HIDE DEF RangeShare, Owed
  <2> QED BY <1>0, <2>2, <2>3
<1> QED BY <1>1, <1>2

(***************************************************************************)
(* A reading starts a new account.                                         *)
(***************************************************************************)
LEMMA ReadingStep ==
  ASSUME TypeInv, EnergyInv, read_rapl_power_uw, UNCHANGED world,
         handed' + Owed' <= burnt + RangeShare(resets), InLoop' => sinceTick' = 0
  PROVE  /\ rapl' # Unread /\ rapl'.at = now
         /\ KnownRange'
         /\ \E b, c \in 0 .. burnt', k \in 0 .. resets' : Covered(b, c, k)'
<1>0. /\ burnt \in Nat /\ base \in 0 .. burnt /\ resets \in Nat /\ now \in Nat
  BY MaxUAssumption DEF TypeInv, TypeOK, U64
<1>1. UNCHANGED <<burnt, base, now, backs, resets, hasRange>>
  BY DEF world
<1>2. rapl' = [energy |-> Reading, at |-> now, max |-> max_energy_uj]
  BY DEF read_rapl_power_uw
<1>3. rapl' # Unread /\ rapl'.at = now /\ rapl'.energy = Reading /\ rapl'.max = max_energy_uj
  BY <1>0, <1>2 DEF Unread
<1>4. KnownRange'
  BY <1>1, <1>3 DEF KnownRange, max_energy_uj, EnergyInv
<1>5. Covered(burnt, base, resets)'
  <2>1. SeenAt(burnt, base, resets)'
    BY <1>0, <1>1, <1>3 DEF SeenAt, Reading
  <2>2. RangeShare(resets)' = RangeShare(resets)
    BY <1>1 DEF RangeShare
  <2>3. burnt - burnt = 0
    BY <1>0
  <2> QED BY <1>1, <2>1, <2>2, <2>3 DEF Covered
<1> QED BY <1>0, <1>1, <1>3, <1>4, <1>5

(***************************************************************************)
(* Every step keeps the account.                                           *)
(***************************************************************************)
LEMMA EnergyStep == TypeInv /\ TypeInv' /\ EnergyInv /\ [Next]_lvars => EnergyInv'
<1> SUFFICES ASSUME TypeInv, TypeInv', EnergyInv, [Next]_lvars PROVE EnergyInv'
  OBVIOUS
<1> USE LinuxAssumption, MaxUAssumption
<1>0. /\ LoopOK /\ burnt \in Nat /\ base \in 0 .. burnt /\ resets \in Nat /\ hasRange \in BOOLEAN
      /\ now \in U64 /\ now \in Nat /\ backs \in Nat /\ handed \in Nat /\ sinceTick \in Nat
      /\ tickBurn \in Nat /\ tickNs \in Nat /\ delta \in Nat
  BY DEF TypeInv, TypeOK, LoopTypeOK, U64
<1>1. ASSUME NEW uj \in Bursts, NEW t \in 0 .. MaxTime, Elapse(uj, t) PROVE EnergyInv'
  <2>1. uj \in Nat /\ t \in Nat
    BY DEF U64
  <2>2. /\ burnt' = burnt + uj /\ sinceTick' = sinceTick + uj /\ now' = t
        /\ backs' = IF t > now THEN backs ELSE backs + 1
        /\ UNCHANGED <<loopVars, rapl, base, resets, hasRange, tickBurn, tickNs>>
    BY <1>1 DEF Elapse
  <2>3. UNCHANGED <<pc, prev, delta, todo, share, remainder, handed>> /\ Owed' = Owed
    BY <2>2 DEF loopVars, Owed
  <2>4. InLoop' = InLoop /\ KnownRange' = KnownRange /\ Invented' = Invented
    BY <2>2, <2>3 DEF InLoop, KnownRange, Invented
  <2>5. ASSUME rapl # Unread
        PROVE  \E b, c \in 0 .. burnt', k \in 0 .. resets' : Covered(b, c, k)'
    <3>1. PICK b, c \in 0 .. burnt, k \in 0 .. resets : Covered(b, c, k)
      BY <2>5 DEF EnergyInv
    <3>2. SeenAt(b, c, k)'
      BY <1>0, <2>1, <2>2, <3>1 DEF Covered, SeenAt
    <3>3. handed' + Owed' <= b + RangeShare(k)'
      BY <2>2, <2>3, <3>1 DEF Covered, RangeShare
    <3>4. InLoop' => sinceTick' = burnt' - b
      BY <1>0, <2>1, <2>2, <2>4, <3>1 DEF Covered
    <3>5. Covered(b, c, k)'
      BY <3>2, <3>3, <3>4 DEF Covered
    <3> QED BY <1>0, <2>1, <2>2, <3>5
  <2>6. (InLoop' /\ backs' = 0) => prev' <= now' /\ (now' = prev' => sinceTick' = 0)
    <3> SUFFICES ASSUME InLoop, backs' = 0 PROVE prev < t
      BY <1>0, <2>1, <2>2, <2>3, <2>4 DEF InLoop, LoopOK, LoopTypeOK, U64
    <3>1. t > now /\ backs = 0
      BY <1>0, <2>2
    <3>2. prev <= now /\ prev \in Nat
      BY <3>1 DEF EnergyInv, InLoop, LoopOK, LoopTypeOK, TypeInv, U64
    <3> QED BY <1>0, <2>1, <3>1, <3>2
  <2>7. NoBackfill'
    BY <2>2, <2>3, <2>4 DEF EnergyInv, NoBackfill
  <2>8. TickLosesLittle'
    <3>1. backs' = 0 => backs = 0
      BY <1>0, <2>2
    <3> QED BY <2>2, <2>3, <3>1 DEF EnergyInv, TickLosesLittle
  <2> QED BY <2>2, <2>3, <2>4, <2>5, <2>6, <2>7, <2>8 DEF EnergyInv
<1>2. CASE CounterReset
  <2>1. /\ base' = burnt /\ resets' = resets + 1
        /\ UNCHANGED <<loopVars, rapl, burnt, now, backs, hasRange, sinceTick, tickBurn, tickNs>>
    BY <1>2 DEF CounterReset, ghosts
  <2>2. UNCHANGED <<pc, prev, delta, todo, share, remainder, handed>> /\ Owed' = Owed
    BY <2>1 DEF loopVars, Owed
  <2>3. InLoop' = InLoop /\ KnownRange' = KnownRange
    BY <2>1, <2>2 DEF InLoop, KnownRange
  <2>4. ASSUME rapl # Unread
        PROVE  \E b, c \in 0 .. burnt', k \in 0 .. resets' : Covered(b, c, k)'
    <3>1. PICK b, c \in 0 .. burnt, k \in 0 .. resets : Covered(b, c, k)
      BY <2>4 DEF EnergyInv
    <3>2. SeenAt(b, c, k)'
      BY <1>0, <2>1, <3>1 DEF Covered, SeenAt
    <3>3. handed' + Owed' <= b + RangeShare(k)'
      BY <2>1, <2>2, <3>1 DEF Covered, RangeShare
    <3>4. Covered(b, c, k)'
      BY <2>1, <2>3, <3>1, <3>2, <3>3 DEF Covered
    <3> QED BY <1>0, <2>1, <3>4
  <2>5. NoBackfill'
    <3>1. Invented = RangeShare(resets) /\ Invented' = RangeShare(resets + 1)
      BY <2>1 DEF Invented, RangeShare
    <3>2. Invented \in Nat /\ Invented' \in Nat /\ Invented <= Invented'
      <4>1. resets + 1 \in Nat /\ resets <= resets + 1 /\ (resets + 1) - resets \in Nat
        BY <1>0
      <4>2. RangeShare(resets) \in Nat /\ RangeShare(resets + 1) \in Nat
            /\ RangeShare((resets + 1) - resets) \in Nat
            /\ RangeShare(resets) + RangeShare((resets + 1) - resets) = RangeShare(resets + 1)
        BY <1>0, <4>1, RangeShareGrows
      <4> QED BY <3>1, <4>2
    <3> DEFINE i == Invented
               j == Invented'
    <3>3. i \in Nat /\ j \in Nat /\ i <= j
      BY <3>2
    <3>4. pc = "credit" => delta <= tickBurn + i
      BY DEF EnergyInv, NoBackfill
    <3> HIDE DEF i, j
    <3>5. pc = "credit" => delta <= tickBurn + j
      BY <1>0, <3>3, <3>4
    <3> QED BY <2>1, <2>2, <3>5 DEF NoBackfill, j
  <2>6. TickLosesLittle'
    BY <1>0, <2>1 DEF TickLosesLittle
  <2> QED BY <2>1, <2>2, <2>3, <2>4, <2>5, <2>6 DEF EnergyInv
<1>3. CASE SampleOk
  <2>1. /\ TickOk(now, rapl_power_uw, 0, active_pid_set) /\ read_rapl_power_uw
        /\ UNCHANGED world /\ sinceTick' = 0 /\ tickBurn' = sinceTick
        /\ tickNs' = IF prev = NoSnapshot THEN 0 ELSE saturating_sub(now, prev)
    BY <1>3 DEF SampleOk, Attempt
  <2>2. rapl_power_uw \in Nat /\ active_pid_set \in Seq(Pids)
    BY ReadingType, ActivePidsAreListed DEF TypeInv, TypeOK
  <2> DEFINE e == burst_energy_uj(rapl_power_uw, 0, saturating_sub(now, prev))
  <2>3. /\ pc = "await" /\ Owed = 0 /\ prev' = now /\ handed' = handed
        /\ prev = NoSnapshot => pc' = "await" /\ Owed' = 0
        /\ prev # NoSnapshot => pc' = "credit" /\ Owed' = delta' /\ delta' = e
    BY <1>0, <2>1, <2>2, TickOkStep
  <2>4. UNCHANGED <<burnt, base, now, backs, resets, hasRange>>
    BY <2>1 DEF world
  <2>5. RangeShare(resets) \in Nat /\ Invented' = RangeShare(resets)
    BY <1>0, <2>4, RangeShareGrows DEF Invented, RangeShare
  <2> HIDE DEF e
  <2>6. /\ handed' + Owed' <= burnt + RangeShare(resets)
        /\ NoBackfill' /\ TickLosesLittle'
    <3>1. CASE prev = NoSnapshot
      BY <2>3, <3>1, HandedIsCovered DEF NoBackfill, TickLosesLittle
    <3>2. CASE prev # NoSnapshot
      <4>1. rapl # Unread /\ InLoop
        BY <2>3, <3>2 DEF EnergyInv, InLoop
      <4>2. PICK b, c \in 0 .. burnt, k \in 0 .. resets : Covered(b, c, k)
        BY <4>1 DEF EnergyInv
      <4>3. /\ e \in Nat /\ e <= (burnt - b) + RangeShare(resets - k)
            /\ (backs = 0 /\ resets = 0 /\ hasRange
                  /\ sinceTick <= MaxRange /\ sinceTick * NS <= MaxU)
                 => (sinceTick - e) * NS < NS + saturating_sub(now, prev)
        BY <4>1, <4>2, TickDelta DEF e
      <4>4. b \in Nat /\ b <= burnt /\ k \in Nat /\ k <= resets
        BY <1>0
      <4>5. handed + 0 <= b + RangeShare(k) /\ sinceTick = burnt - b
        BY <2>3, <4>1, <4>2 DEF Covered
      <4> DEFINE R == RangeShare(resets)
                 S == RangeShare(k)
                 T == RangeShare(resets - k)
      <4>6. R \in Nat /\ S \in Nat /\ T \in Nat /\ S + T = R /\ T <= R
        BY <1>0, <4>4, RangeShareGrows
      <4> HIDE DEF R, S, T
      <4>7. e <= (burnt - b) + T /\ handed <= b + S
        BY <1>0, <4>3, <4>5 DEF S, T
      <4>8. handed + e <= burnt + R /\ e <= sinceTick + R
        BY <1>0, <4>3, <4>4, <4>5, <4>6, <4>7
      <4>9. handed' + Owed' <= burnt + RangeShare(resets)
        BY <2>3, <3>2, <4>8 DEF R
      <4>10. NoBackfill'
        BY <2>1, <2>3, <2>5, <3>2, <4>8 DEF NoBackfill, R
      <4>11. TickLosesLittle'
        BY <2>1, <2>3, <2>4, <3>2, <4>3 DEF TickLosesLittle
      <4> QED BY <4>9, <4>10, <4>11
    <3> QED BY <3>1, <3>2
  <2>7. /\ rapl' # Unread /\ rapl'.at = now /\ KnownRange'
        /\ \E b, c \in 0 .. burnt', k \in 0 .. resets' : Covered(b, c, k)'
    BY <2>1, <2>6, ReadingStep
  <2>8. now <= now
    BY <1>0
  <2> QED BY <2>1, <2>3, <2>4, <2>6, <2>7, <2>8 DEF EnergyInv
<1>4. CASE MainSample
  <2>1. /\ pc = "main" /\ read_rapl_power_uw /\ UNCHANGED world /\ UNCHANGED loopVars
    BY <1>4 DEF MainSample
  <2>2. UNCHANGED <<pc, prev, delta, todo, share, remainder, handed>> /\ Owed' = Owed
    BY <2>1 DEF loopVars, Owed
  <2>3. handed' + Owed' <= burnt + RangeShare(resets)
    BY <2>2, HandedIsCovered
  <2>4. ~InLoop'
    BY <2>1, <2>2 DEF InLoop
  <2>5. /\ rapl' # Unread /\ KnownRange'
        /\ \E b, c \in 0 .. burnt', k \in 0 .. resets' : Covered(b, c, k)'
    BY <2>1, <2>3, <2>4, ReadingStep
  <2>6. NoBackfill' /\ TickLosesLittle'
    BY <2>1, <2>2 DEF NoBackfill, TickLosesLittle
  <2> QED BY <2>4, <2>5, <2>6 DEF EnergyInv
<1>5. CASE SampleErr \/ Control
  <2>1. /\ UNCHANGED <<rapl, world>>
        /\ TickErr \/ StartLoop \/ DropLoop
    BY <1>5 DEF SampleErr, Control
  <2>2. /\ Owed = 0 /\ Owed' = 0 /\ pc' # "credit" /\ handed' = handed
    BY <1>0, <2>1, ControlStep
  <2>3. ~InLoop'
    BY <2>1 DEF TickErr, StartLoop, DropLoop, InLoop
  <2>4. rapl = Unread => prev' = NoSnapshot
    BY <2>1 DEF EnergyInv, TickErr, StartLoop, DropLoop
  <2>5. UNCHANGED <<burnt, base, now, backs, resets, hasRange>> /\ KnownRange' = KnownRange
    BY <2>1 DEF world, KnownRange
  <2>6. ASSUME rapl # Unread
        PROVE  \E b, c \in 0 .. burnt', k \in 0 .. resets' : Covered(b, c, k)'
    <3>1. PICK b, c \in 0 .. burnt, k \in 0 .. resets : Covered(b, c, k)
      BY <2>6 DEF EnergyInv
    <3>2. SeenAt(b, c, k)' /\ RangeShare(k)' = RangeShare(k)
      BY <2>1, <2>5, <3>1 DEF Covered, SeenAt, RangeShare
    <3>3. Covered(b, c, k)'
      BY <2>2, <2>3, <3>1, <3>2 DEF Covered
    <3> QED BY <2>5, <3>3
  <2>7. NoBackfill' /\ TickLosesLittle'
    BY <2>2 DEF NoBackfill, TickLosesLittle
  <2> QED BY <2>1, <2>2, <2>3, <2>4, <2>5, <2>6, <2>7 DEF EnergyInv
<1>6. CASE Finish
  <2>1. UNCHANGED <<rapl, world, ghosts>> /\ (Credit \/ Heartbeat)
    BY <1>6 DEF Finish
  <2>2. UNCHANGED <<prev, delta>> /\ pc = "credit" /\ handed' + Owed' = handed + Owed
        /\ pc' \in {"credit", "await"}
    <3>1. CASE Credit
      BY <1>0, <3>1, CreditStep
    <3>2. CASE Heartbeat
      BY <1>0, <3>2, HeartbeatStep
    <3> QED BY <2>1, <3>1, <3>2
  <2>3. UNCHANGED <<burnt, base, now, backs, resets, hasRange, sinceTick, tickBurn, tickNs>>
        /\ KnownRange' = KnownRange /\ Invented' = Invented
    BY <2>1 DEF world, ghosts, KnownRange, Invented
  <2>4. InLoop' = InLoop
    BY <2>2 DEF InLoop
  <2>5. rapl # Unread
    BY <2>2 DEF EnergyInv
  <2>6. \E b, c \in 0 .. burnt', k \in 0 .. resets' : Covered(b, c, k)'
    <3>1. PICK b, c \in 0 .. burnt, k \in 0 .. resets : Covered(b, c, k)
      BY <2>5 DEF EnergyInv
    <3>2. SeenAt(b, c, k)' /\ RangeShare(k)' = RangeShare(k)
      BY <2>1, <2>3, <3>1 DEF Covered, SeenAt, RangeShare
    <3>3. Covered(b, c, k)'
      BY <2>2, <2>3, <2>4, <3>1, <3>2 DEF Covered
    <3> QED BY <2>3, <3>3
  <2>7. NoBackfill' /\ TickLosesLittle'
    BY <2>2, <2>3 DEF EnergyInv, NoBackfill, TickLosesLittle
  <2> QED BY <2>1, <2>2, <2>3, <2>4, <2>5, <2>6, <2>7 DEF EnergyInv
<1>7. CASE (\E p \in Pids : FenceInit(p) \/ FenceSignal(p) \/ ProcessExit(p)) \/ Drain \/ Enqueue
           \/ Sync \/ UNCHANGED lvars
  <2>1. UNCHANGED <<rapl, world, ghosts>>
    BY <1>7 DEF FenceInit, FenceSignal, ProcessExit, Drain, OnInit, OnSignal, OnExit, Receive,
                Enqueue, Sync, lvars
  <2>2. UNCHANGED <<pc, prev, delta, todo, share, remainder, handed>>
    BY <1>7 DEF FenceInit, FenceSignal, ProcessExit, Drain, OnInit, OnSignal, OnExit, Receive,
                Enqueue, enqueue_attribution, Sync, sync_registry, lvars, loopVars
  <2> QED BY <2>1, <2>2, EnergyKept
<1> QED BY <1>1, <1>2, <1>3, <1>4, <1>5, <1>6, <1>7 DEF Next

(***************************************************************************)
(* The account is kept in every reachable state.                           *)
(***************************************************************************)
LEMMA EnergyInvariant == Spec => [](TypeInv /\ EnergyInv)
<1>1. Init => EnergyInv
  <2> SUFFICES ASSUME Init PROVE EnergyInv
    OBVIOUS
  <2>1. /\ rapl = Unread /\ handed = 0 /\ pc = "main" /\ prev = NoSnapshot
    BY DEF Init, LoopInit
  <2> QED BY <2>1 DEF EnergyInv, InLoop, NoBackfill, TickLosesLittle
<1> QED BY <1>1, EnergyStep, TypeInvariant, PTL DEF Spec

(***************************************************************************)
(* The loop never credits energy that was not burnt, for every range of    *)
(* the counter and any number of wraps between two readings; a reset adds  *)
(* at most one range, and nothing if the range is unknown.                 *)
(***************************************************************************)
THEOREM LinuxNeverFabricates == Spec => []NeverFabricates
<1>1. TypeInv /\ EnergyInv => NeverFabricates
  <2> SUFFICES ASSUME TypeInv, EnergyInv PROVE NeverFabricates
    OBVIOUS
  <2>1. handed + Owed <= burnt + RangeShare(resets)
    BY HandedIsCovered
  <2>2. Invented = RangeShare(resets)
    BY DEF Invented, RangeShare
  <2>3. /\ handed \in Nat /\ Owed \in Nat /\ burnt \in Nat /\ share \in Nat /\ remainder \in Nat
        /\ Len(todo) \in Nat /\ RangeShare(resets) \in Nat
    <3>1. /\ handed \in Nat /\ Owed \in Nat /\ burnt \in Nat /\ share \in Nat
          /\ remainder \in Nat /\ Len(todo) \in Nat
      BY OwedType, MaxUAssumption DEF TypeInv, TypeOK, LoopTypeOK, U64
    <3>2. resets \in Nat /\ resets <= resets /\ hasRange \in BOOLEAN
      BY DEF TypeInv, TypeOK
    <3>3. RangeShare(resets) \in Nat
      BY <3>2, RangeShareGrows
    <3> QED BY <3>1, <3>3
  <2>4. handed <= burnt + Invented
    <3> HIDE DEF Owed, RangeShare
    <3> QED BY <2>1, <2>2, <2>3
  <2>5. ASSUME pc = "credit" PROVE handed + share * Len(todo) + remainder <= burnt + Invented
    <3> DEFINE m == share * Len(todo)
    <3>1. Owed = m + remainder /\ m \in Nat
      BY <2>3, <2>5 DEF Owed
    <3> HIDE DEF m
    <3>2. handed + m + remainder = handed + Owed
      BY <2>3, <3>1
    <3> QED BY <2>1, <2>2, <3>2 DEF m
  <2> QED BY <2>4, <2>5 DEF NeverFabricates
<1> QED BY <1>1, EnergyInvariant, PTL

(***************************************************************************)
(* A tick credits at most what was burnt since the attempt before it, so   *)
(* failed samples are never charged afterwards.                            *)
(***************************************************************************)
THEOREM LinuxNoBackfill == Spec => []NoBackfill
<1>1. EnergyInv => NoBackfill
  BY DEF EnergyInv
<1> QED BY <1>1, EnergyInvariant, PTL

(***************************************************************************)
(* Without faults a tick loses less than 1 uJ plus 1 uJ per second, across *)
(* a wrap of the counter as well as between two.                           *)
(***************************************************************************)
THEOREM LinuxTickLosesLittle == Spec => []TickLosesLittle
<1>1. EnergyInv => TickLosesLittle
  BY DEF EnergyInv
<1> QED BY <1>1, EnergyInvariant, PTL

-------------------------------------------------------------------------------
(* The count of fences *)

Ev(kind, p) == [kind |-> kind, pid |-> p]

\* how often x is among the first j entries of s
Upto(s, x, j) == Cardinality({i \in 1 .. j : s[i] = x})

(***************************************************************************)
(* Counts of entries are naturals, and there is nothing in the first 0.    *)
(***************************************************************************)
LEMMA UptoType ==
  ASSUME NEW s, NEW x, NEW j \in Nat
  PROVE  Upto(s, x, j) \in Nat /\ (j = 0 => Upto(s, x, j) = 0)
<1> DEFINE A == {i \in 1 .. j : s[i] = x}
<1>1. IsFiniteSet(1 .. j) /\ A \in SUBSET (1 .. j)
  BY FS_Interval
<1>2. IsFiniteSet(A)
  BY <1>1, FS_Subset
<1>3. j = 0 => A = {}
  OBVIOUS
<1> HIDE DEF A
<1>4. Cardinality(A) \in Nat /\ (j = 0 => Cardinality(A) = 0)
  BY <1>2, <1>3, FS_CardinalityType, FS_EmptySet
<1> QED BY <1>4 DEF Upto, A

(***************************************************************************)
(* An entry put at the end does not count before it.                       *)
(***************************************************************************)
LEMMA UptoBefore ==
  ASSUME NEW s \in Seq(Events), NEW y \in Events, NEW j \in 0 .. Len(s), NEW x
  PROVE  Upto(Append(s, y), x, j) = Upto(s, x, j)
<1> DEFINE t == Append(s, y)
<1>1. Len(s) \in Nat /\ \A i \in 1 .. Len(s) : t[i] = s[i]
  OBVIOUS
<1> HIDE DEF t
<1>2. \A i \in 1 .. j : i \in 1 .. Len(s)
  BY <1>1
<1>3. {i \in 1 .. j : t[i] = x} = {i \in 1 .. j : s[i] = x}
  BY <1>1, <1>2
<1> QED BY <1>3 DEF Upto, t

(***************************************************************************)
(* An entry put at the end counts from there on.                           *)
(***************************************************************************)
LEMMA UptoAppend ==
  ASSUME NEW s \in Seq(Events), NEW x, NEW y \in Events
  PROVE  Upto(Append(s, y), x, Len(s) + 1) = Upto(s, x, Len(s)) + (IF y = x THEN 1 ELSE 0)
<1> DEFINE t == Append(s, y)
           n == Len(s)
           A == {i \in 1 .. n : s[i] = x}
           B == {i \in 1 .. (n + 1) : t[i] = x}
<1>1. n \in Nat /\ t[n + 1] = y /\ \A i \in 1 .. n : t[i] = s[i]
  OBVIOUS
<1> HIDE DEF t, n
<1>2. B = IF y = x THEN A \cup {n + 1} ELSE A
  <2>1. 1 .. (n + 1) = (1 .. n) \cup {n + 1}
    BY <1>1
  <2> QED BY <1>1, <2>1
<1>3. IsFiniteSet(A) /\ n + 1 \notin A /\ Cardinality(A) \in Nat
  <2>1. IsFiniteSet(1 .. n) /\ A \in SUBSET (1 .. n)
    BY <1>1, FS_Interval
  <2>2. IsFiniteSet(A)
    BY <2>1, FS_Subset
  <2>3. n + 1 \notin A
    BY <1>1
  <2> QED BY <2>2, <2>3, FS_CardinalityType
<1> HIDE DEF A, B
<1>4. Cardinality(A \cup {n + 1}) = Cardinality(A) + 1
  BY <1>3, FS_AddElement
<1>5. Cardinality(B) = Cardinality(A) + (IF y = x THEN 1 ELSE 0)
  <2>1. CASE y = x
    BY <1>2, <1>4, <2>1
  <2>2. CASE y # x
    BY <1>2, <1>3, <2>2
  <2> QED BY <2>1, <2>2
<1> QED BY <1>5 DEF Upto, A, B, t, n

(***************************************************************************)
(* Taking the first entry takes one from the counts of its kind.           *)
(***************************************************************************)
LEMMA UptoTail ==
  ASSUME NEW s \in Seq(Events), s # <<>>, NEW x, NEW j \in 0 .. (Len(s) - 1)
  PROVE  Upto(s, x, j + 1) = Upto(Tail(s), x, j) + (IF Head(s) = x THEN 1 ELSE 0)
<1> DEFINE t == Tail(s)
           A == {i \in 1 .. j : t[i] = x}
           B == {i \in 2 .. (j + 1) : s[i] = x}
           C == {i \in 1 .. (j + 1) : s[i] = x}
           f == [i \in A |-> i + 1]
<1>1. j \in Nat /\ Head(s) = s[1] /\ \A i \in 1 .. j : t[i] = s[i + 1]
  OBVIOUS
<1> HIDE DEF t
<1>2. IsFiniteSet(A)
  <2>1. IsFiniteSet(1 .. j) /\ A \in SUBSET (1 .. j)
    BY <1>1, FS_Interval
  <2> QED BY <2>1, FS_Subset
<1>3. f \in Bijection(A, B)
  <2>1. f \in [A -> B]
    BY <1>1
  <2>2. \A a, b \in A : f[a] = f[b] => a = b
    BY <1>1
  <2>3. \A b \in B : \E a \in A : f[a] = b
    <3> TAKE b \in B
    <3>1. b - 1 \in 1 .. j /\ (b - 1) + 1 = b
      BY <1>1
    <3>2. b - 1 \in A
      BY <1>1, <3>1
    <3> QED BY <3>1, <3>2
  <2> HIDE DEF f
  <2> QED BY <2>1, <2>2, <2>3 DEF Bijection, Injection, Surjection, IsInjective
<1>4. IsFiniteSet(B) /\ Cardinality(B) = Cardinality(A)
  <2> HIDE DEF A, B, f
  <2>1. ExistsBijection(A, B)
    BY <1>3 DEF ExistsBijection
  <2> QED BY <1>2, <2>1, FS_Bijection
<1>5. C = (IF Head(s) = x THEN B \cup {1} ELSE B) /\ 1 \notin B
  <2>1. 1 .. (j + 1) = (2 .. (j + 1)) \cup {1}
    BY <1>1
  <2> QED BY <1>1, <2>1
<1>6. Cardinality(A) \in Nat
  BY <1>2, FS_CardinalityType
<1> HIDE DEF A, B, C
<1>7. Cardinality(B \cup {1}) = Cardinality(B) + 1
  BY <1>4, <1>5, FS_AddElement
<1>8. Cardinality(C) = Cardinality(A) + (IF Head(s) = x THEN 1 ELSE 0)
  <2>1. CASE Head(s) = x
    BY <1>4, <1>5, <1>7, <2>1
  <2>2. CASE Head(s) # x
    BY <1>4, <1>5, <1>6, <2>2
  <2> QED BY <2>1, <2>2
<1> QED BY <1>8 DEF Upto, A, C, t

\* the count a of p once main has handled the first j events of s
Balance(a, s, p, j) == a + Upto(s, Ev("init", p), j) - Upto(s, Ev("signal", p), j)

(***************************************************************************)
(* d of the l lost events were of p, and a signal that is still queued may *)
(* run into one: main's count, with all of s handled, is by at most d      *)
(* below and by at most l - d above the b fences in flight, and no prefix  *)
(* of s takes it further below 0 than d.                                   *)
(***************************************************************************)
Explained(a, s, b, l, p, d) ==
  /\ d \in 0 .. l
  /\ Balance(a, s, p, Len(s)) - b + d \in 0 .. l
  /\ \A j \in 0 .. Len(s) : Balance(a, s, p, j) + d >= 0

Created ==
  /\ fences <= MaxFences
  /\ \A p \in Pids : active[p] + Upto(ring, Ev("init", p), Len(ring)) <= fences

Accounted ==
  exits = 0 =>
    /\ \A i \in DOMAIN ring : ring[i].kind # "exit"
    /\ \A p \in Pids :
         /\ orphans[p] = 0
         /\ \E d \in 0 .. lost : Explained(active[p], ring, busy[p], lost, p, d)

(***************************************************************************)
(* The balance is an integer, and the balance before the first event is    *)
(* the count itself.                                                       *)
(***************************************************************************)
LEMMA BalanceType ==
  ASSUME NEW a \in Nat, NEW s, NEW p, NEW j \in Nat
  PROVE  Balance(a, s, p, j) \in Int /\ (j = 0 => Balance(a, s, p, j) = a)
<1>1. /\ Upto(s, Ev("init", p), j) \in Nat /\ (j = 0 => Upto(s, Ev("init", p), j) = 0)
      /\ Upto(s, Ev("signal", p), j) \in Nat /\ (j = 0 => Upto(s, Ev("signal", p), j) = 0)
  BY UptoType
<1> QED BY <1>1 DEF Balance

\* what an event does to the balance of p
Weight(y, p) == IF y = Ev("init", p) THEN 1 ELSE IF y = Ev("signal", p) THEN -1 ELSE 0

(***************************************************************************)
(* An event changes the balance of its own PID only.                       *)
(***************************************************************************)
LEMMA WeightOf ==
  ASSUME NEW kind \in {"init", "signal", "exit"}, NEW p, NEW q
  PROVE  Weight(Ev(kind, q), p) = IF p # q \/ kind = "exit" THEN 0
                                  ELSE IF kind = "init" THEN 1 ELSE -1
<1>1. \A k : Ev(kind, q) = Ev(k, p) <=> (kind = k /\ p = q)
  <2>1. Ev(kind, q).kind = kind /\ Ev(kind, q).pid = q
    BY DEF Ev
  <2>2. \A k : Ev(k, p).kind = k /\ Ev(k, p).pid = p
    BY DEF Ev
  <2> QED BY <2>1, <2>2
<1> QED BY <1>1 DEF Weight

(***************************************************************************)
(* A queued event moves the balance from its own place on.                 *)
(***************************************************************************)
LEMMA BalanceAppend ==
  ASSUME NEW a \in Nat, NEW s \in Seq(Events), NEW p, NEW y \in Events
  PROVE  /\ \A j \in 0 .. Len(s) : Balance(a, Append(s, y), p, j) = Balance(a, s, p, j)
         /\ Balance(a, Append(s, y), p, Len(s) + 1) = Balance(a, s, p, Len(s)) + Weight(y, p)
<1>1. \A j \in 0 .. Len(s) : Balance(a, Append(s, y), p, j) = Balance(a, s, p, j)
  <2> TAKE j \in 0 .. Len(s)
  <2>1. \A x : Upto(Append(s, y), x, j) = Upto(s, x, j)
    BY UptoBefore
  <2> QED BY <2>1 DEF Balance
<1> DEFINE n == Len(s)
           i1 == Upto(s, Ev("init", p), n)
           s1 == Upto(s, Ev("signal", p), n)
           i2 == Upto(Append(s, y), Ev("init", p), n + 1)
           s2 == Upto(Append(s, y), Ev("signal", p), n + 1)
<1>2. /\ i2 = i1 + (IF y = Ev("init", p) THEN 1 ELSE 0)
      /\ s2 = s1 + (IF y = Ev("signal", p) THEN 1 ELSE 0)
  BY UptoAppend
<1>3. i1 \in Nat /\ s1 \in Nat
  <2>1. n \in Nat
    OBVIOUS
  <2> QED BY <2>1, UptoType
<1>4. ~(y = Ev("init", p) /\ y = Ev("signal", p))
  BY DEF Ev
<1> HIDE DEF i1, s1, i2, s2
<1>5. a + i2 - s2 = (a + i1 - s1) + Weight(y, p)
  BY <1>2, <1>3, <1>4 DEF Weight
<1> QED BY <1>1, <1>5 DEF Balance, i1, i2, s1, s2, n

(***************************************************************************)
(* Handling the first event moves its effect from the queue to the count.  *)
(***************************************************************************)
LEMMA BalanceTail ==
  ASSUME NEW a \in Nat, NEW c \in Nat, NEW s \in Seq(Events), s # <<>>, NEW p,
         NEW j \in 0 .. (Len(s) - 1)
  PROVE  Balance(c, Tail(s), p, j) = Balance(a, s, p, j + 1) - Weight(Head(s), p) + (c - a)
<1> DEFINE i1 == Upto(Tail(s), Ev("init", p), j)
           s1 == Upto(Tail(s), Ev("signal", p), j)
           i2 == Upto(s, Ev("init", p), j + 1)
           s2 == Upto(s, Ev("signal", p), j + 1)
           y == Head(s)
<1>2. /\ i2 = i1 + (IF y = Ev("init", p) THEN 1 ELSE 0)
      /\ s2 = s1 + (IF y = Ev("signal", p) THEN 1 ELSE 0)
  BY UptoTail
<1>3. i1 \in Nat /\ s1 \in Nat
  <2>1. j \in Nat
    OBVIOUS
  <2> QED BY <2>1, UptoType
<1>4. ~(y = Ev("init", p) /\ y = Ev("signal", p))
  BY DEF Ev
<1> HIDE DEF i1, s1, i2, s2, y
<1>5. c + i1 - s1 = (a + i2 - s2) - Weight(y, p) + (c - a)
  BY <1>2, <1>3, <1>4 DEF Weight
<1> QED BY <1>5 DEF Balance, i1, i2, s1, s2, y

(***************************************************************************)
(* An event that reaches the queue keeps the account: a fence is created   *)
(* or signalled and main will hear of it.                                  *)
(***************************************************************************)
LEMMA EventQueued ==
  ASSUME NEW a \in Nat, NEW s \in Seq(Events), NEW b \in Nat, NEW c \in Nat, NEW l \in Nat,
         NEW p, NEW d \in 0 .. l, NEW y \in Events,
         Explained(a, s, b, l, p, d), c = b + Weight(y, p)
  PROVE  Explained(a, Append(s, y), c, l, p, d)
<1> DEFINE n == Len(s)
           t == Append(s, y)
           w == Weight(y, p)
           B(j) == Balance(a, s, p, j)
           C(j) == Balance(a, t, p, j)
<1>1. Len(t) = n + 1 /\ n \in Nat
  OBVIOUS
<1>2. (\A j \in 0 .. n : C(j) = B(j)) /\ C(n + 1) = B(n) + w
  BY BalanceAppend
<1>3. B(n) \in Int /\ w \in Int
  BY <1>1, BalanceType DEF Weight
<1>4. B(n) - b + d \in 0 .. l /\ \A j \in 0 .. n : B(j) + d >= 0
  BY DEF Explained
<1>5. c = b + w
  OBVIOUS
<1> HIDE DEF n, t, w, B, C
<1>6. C(n + 1) - c + d \in 0 .. l
  <2>1. (B(n) + w) - (b + w) + d = B(n) - b + d
    BY <1>3
  <2> QED BY <1>2, <1>4, <1>5, <2>1
<1>7. \A j \in 0 .. (n + 1) : C(j) + d >= 0
  <2> TAKE j \in 0 .. (n + 1)
  <2>1. CASE j \in 0 .. n
    BY <1>2, <1>4, <2>1
  <2>2. CASE j = n + 1
    <3>1. C(n + 1) - c + d >= 0
      BY <1>6
    <3>2. C(n + 1) \in Int
      BY <1>2, <1>3
    <3> QED BY <2>2, <3>1, <3>2
  <2> QED BY <1>1, <2>1, <2>2
<1> QED BY <1>1, <1>6, <1>7 DEF Explained, C, t

(***************************************************************************)
(* A lost event is one more to explain: the init of a fence leaves main's  *)
(* count one short, the signal leaves it one over.                         *)
(***************************************************************************)
LEMMA EventLost ==
  ASSUME NEW a \in Nat, NEW s \in Seq(Events), NEW b \in Nat, NEW c \in Nat, NEW l \in Nat,
         NEW p, NEW d \in 0 .. l, Explained(a, s, b, l, p, d),
         c \in {b - 1, b, b + 1}
  PROVE  \E e \in 0 .. (l + 1) : Explained(a, s, c, l + 1, p, e)
<1> DEFINE n == Len(s)
           e == IF c = b + 1 THEN d + 1 ELSE d
           B(j) == Balance(a, s, p, j)
<1>1. n \in Nat /\ e \in 0 .. (l + 1)
  OBVIOUS
<1>2. \A j \in 0 .. n : B(j) \in Int
  <2>1. \A j \in 0 .. n : j \in Nat
    BY <1>1
  <2> QED BY <2>1, BalanceType
<1>3. B(n) - b + d \in 0 .. l /\ \A j \in 0 .. n : B(j) + d >= 0
  BY DEF Explained
<1>4. B(n) - c + e \in 0 .. (l + 1)
  <2>1. B(n) \in Int
    BY <1>1, <1>2
  <2>2. CASE c = b + 1
    <3>1. e = d + 1
      BY <2>2
    <3> HIDE DEF B, n, e
    <3> QED BY <1>3, <2>1, <2>2, <3>1
  <2>3. CASE c \in {b - 1, b}
    <3>1. e = d
      BY <2>3
    <3> HIDE DEF B, n, e
    <3> QED BY <1>3, <2>1, <2>3, <3>1
  <2> QED BY <2>2, <2>3
<1>5. \A j \in 0 .. n : B(j) + e >= 0
  <2> HIDE DEF B, n
  <2> QED BY <1>2, <1>3
<1>6. Explained(a, s, c, l + 1, p, e)
  <2> HIDE DEF e
  <2> QED BY <1>1, <1>4, <1>5 DEF Explained
<1> QED BY <1>1, <1>6

(***************************************************************************)
(* main handles the first event: the count moves with it, and a signal     *)
(* that finds the count at 0 uses up one of the events of p that were lost.*)
(***************************************************************************)
LEMMA EventHandled ==
  ASSUME NEW a \in Nat, NEW c \in Nat, NEW s \in Seq(Events), s # <<>>,
         NEW b \in Nat, NEW l \in Nat, NEW p, NEW d \in 0 .. l,
         Explained(a, s, b, l, p, d),
         c = IF a + Weight(Head(s), p) >= 0 THEN a + Weight(Head(s), p) ELSE 0
  PROVE  \E e \in 0 .. l : Explained(c, Tail(s), b, l, p, e)
<1> DEFINE n == Len(s)
           t == Tail(s)
           w == Weight(Head(s), p)
           e == IF a + w >= 0 THEN d ELSE d - 1
           B(j) == Balance(a, s, p, j)
           C(j) == Balance(c, t, p, j)
<1>1. n \in Nat /\ n >= 1 /\ Len(t) = n - 1
  OBVIOUS
<1>2. \A j \in 0 .. (n - 1) : C(j) = B(j + 1) - w + (c - a)
  BY BalanceTail
<1>3. /\ \A j \in 0 .. (n - 1) : B(j + 1) \in Int
      /\ B(n) \in Int /\ w \in {-1, 0, 1} /\ B(0) = a
  <2>1. \A j \in 0 .. (n - 1) : j + 1 \in Nat
    BY <1>1
  <2>2. \A j \in 0 .. (n - 1) : B(j + 1) \in Int
    BY <2>1, BalanceType
  <2>3. B(n) \in Int /\ B(0) = a
    BY <1>1, BalanceType
  <2> QED BY <2>2, <2>3 DEF Weight
<1>4. B(n) - b + d \in 0 .. l /\ \A j \in 0 .. n : B(j) + d >= 0
  BY DEF Explained
<1>5. c = IF a + w >= 0 THEN a + w ELSE 0
  OBVIOUS
<1> HIDE DEF w
<1>6. c - a = w + (d - e)
  BY <1>3, <1>5
\* with the count at 0 and a signal first, the first prefix needs d >= 1
<1>7. e \in 0 .. l
  <2>1. CASE a + w >= 0
    BY <2>1
  <2>2. CASE a + w < 0
    <3>1. a = 0 /\ w = -1 /\ c = 0
      BY <1>3, <1>5, <2>2
    <3>2. C(0) = B(1) - w + (c - a)
      BY <1>1, <1>2
    <3>3. C(0) = c
      BY BalanceType
    <3>4. B(1) \in Int /\ B(1) + d >= 0
      <4>1. 0 \in 0 .. (n - 1) /\ 1 \in 0 .. n /\ 0 + 1 = 1
        BY <1>1
      <4> QED BY <1>3, <1>4, <4>1
    <3> HIDE DEF B, C
    <3>5. B(1) = -1
      BY <3>1, <3>2, <3>3, <3>4
    <3>6. d >= 1
      BY <3>4, <3>5
    <3> QED BY <2>2, <3>6
  <2> QED BY <1>3, <2>1, <2>2
<1> HIDE DEF n, t, B, C, e
<1>8. \A j \in 0 .. (n - 1) : C(j) + e = B(j + 1) + d
  <2> TAKE j \in 0 .. (n - 1)
  <2>1. C(j) = B(j + 1) - w + (c - a) /\ B(j + 1) \in Int
    BY <1>2, <1>3
  <2>2. e \in Int /\ w \in Int
    BY <1>3, <1>7
  <2> QED BY <1>6, <2>1, <2>2
<1>9. \A j \in 0 .. (n - 1) : C(j) + e >= 0
  <2> TAKE j \in 0 .. (n - 1)
  <2>1. j + 1 \in 0 .. n
    BY <1>1
  <2>2. B(j + 1) + d >= 0
    BY <1>4, <2>1
  <2> QED BY <1>8, <2>2
<1>10. C(n - 1) - b + e \in 0 .. l
  <2>1. C(n - 1) + e = B(n) + d
    BY <1>1, <1>8
  <2>2. C(n - 1) \in Int /\ e \in Int
    <3>1. n - 1 \in 0 .. (n - 1) /\ (n - 1) + 1 = n
      BY <1>1
    <3>2. C(n - 1) = B(n) - w + (c - a)
      BY <1>2, <3>1
    <3> QED BY <1>3, <1>7, <3>2
  <2>3. C(n - 1) - b + e = B(n) - b + d
    <3> DEFINE u == C(n - 1)
               v == B(n)
    <3>1. u + e = v + d /\ u \in Int /\ v \in Int /\ e \in Int /\ d \in Int
      BY <1>3, <2>1, <2>2
    <3> HIDE DEF u, v
    <3>2. u - b + e = v - b + d
      BY ONLY <3>1, b \in Nat
    <3> QED BY <3>2 DEF u, v
  <2> QED BY <1>4, <2>3
<1>11. Explained(c, t, b, l, p, e)
  BY <1>1, <1>7, <1>9, <1>10 DEF Explained, C
<1> QED BY <1>7, <1>11 DEF t

(***************************************************************************)
(* What main counted and will count of a PID never exceeds the fences that *)
(* were created.                                                           *)
(***************************************************************************)
LEMMA CreatedStep ==
  ASSUME TypeInv, Created, [Next]_lvars
  PROVE  Created'
<1> USE LinuxAssumption, MaxUAssumption
<1>0. /\ active \in [Pids -> Nat] /\ ring \in Seq(Events) /\ fences \in Nat
      /\ \A p \in Pids : active[p] <= MaxU32
  BY DEF TypeInv, TypeOK, U64
<1> DEFINE n == Len(ring)
           I(s, p, j) == Upto(s, Ev("init", p), j)
<1>1. n \in Nat /\ \A p \in Pids : active[p] \in Nat /\ I(ring, p, n) \in Nat
  <2>1. n \in Nat
    BY <1>0
  <2> QED BY <1>0, <2>1, UptoType
<1>2. ASSUME UNCHANGED <<active, ring, fences>> PROVE Created'
  BY <1>2 DEF Created
<1>3. ASSUME NEW q \in Pids, NEW kind \in {"init", "signal", "exit"}, Emit(kind, q),
             active' = active, fences' \in {fences, fences + 1}, fences' <= MaxFences,
             kind = "init" => fences' = fences + 1
      PROVE  Created'
  <2>1. CASE UNCHANGED ring
    BY <1>0, <1>1, <1>3, <2>1 DEF Created
  <2>2. CASE ring' = Append(ring, Ev(kind, q))
    <3>1. ASSUME NEW p \in Pids
          PROVE  active[p] + I(Append(ring, Ev(kind, q)), p, n + 1) <= fences'
      <4>1. Ev(kind, q) \in Events
        BY DEF Ev, Events
      <4>2. I(Append(ring, Ev(kind, q)), p, n + 1)
              = I(ring, p, n) + (IF Ev(kind, q) = Ev("init", p) THEN 1 ELSE 0)
        BY <1>0, <4>1, UptoAppend
      <4>3. Ev(kind, q) = Ev("init", p) => kind = "init"
        BY DEF Ev
      <4> DEFINE f == fences'
      <4>4. f \in {fences, fences + 1} /\ (kind = "init" => f = fences + 1)
        BY <1>3
      <4>5. active[p] + I(ring, p, n) <= fences
        BY <3>1 DEF Created
      <4> HIDE DEF f, n, I
      <4> QED BY <1>0, <1>1, <3>1, <4>2, <4>3, <4>4, <4>5 DEF f
    <3>2. Len(ring') = n + 1
      BY <1>0, <2>2
    <3> QED BY <1>3, <2>2, <3>1, <3>2 DEF Created
  <2> QED BY <1>3, <2>1, <2>2 DEF Emit, Ev
<1>4. ASSUME NEW q \in Pids, FenceInit(q) \/ FenceSignal(q) \/ ProcessExit(q) PROVE Created'
  <2>1. CASE FenceInit(q)
    <3>1. fences + 1 <= MaxFences /\ fences' = fences + 1 /\ active' = active /\ Emit("init", q)
      BY <1>0, <2>1 DEF FenceInit
    <3> QED BY <1>3, <3>1
  <2>2. CASE FenceSignal(q)
    <3>1. fences' = fences /\ fences <= MaxFences /\ active' = active /\ Emit("signal", q)
      BY <2>2 DEF FenceSignal, Created
    <3> QED BY <1>3, <3>1
  <2>3. CASE ProcessExit(q)
    <3>1. fences' = fences /\ fences <= MaxFences /\ active' = active /\ Emit("exit", q)
      BY <2>3 DEF ProcessExit, Created
    <3> QED BY <1>3, <3>1
  <2> QED BY <1>4, <2>1, <2>2, <2>3
<1>5. CASE Drain
  <2>1. ring # <<>> /\ ring' = Tail(ring) /\ fences' = fences
    BY <1>5 DEF Drain, OnInit, OnSignal, OnExit, Receive
  <2> DEFINE x == Head(ring)
  <2>2. x \in Events /\ x = Ev(x.kind, x.pid) /\ x.pid \in Pids
    <3>1. x \in Events
      BY <1>0, <2>1
    <3> QED BY <3>1 DEF Ev, Events
  <2>3. ASSUME NEW p \in Pids PROVE active'[p] + I(Tail(ring), p, n - 1) <= fences
    <3> DEFINE u == IF x = Ev("init", p) THEN 1 ELSE 0
               a == active'[p]
    <3>1. a \in Nat /\ a <= active[p] + u
      <4>1. active[p] \in Nat /\ active[p] <= MaxU32 /\ MaxU32 \in Nat
        BY <1>0 DEF U64
      <4>2. CASE OnInit
        <5>1. active' = [active EXCEPT ![x.pid] = OneMore(active[x.pid])] /\ x.kind = "init"
          BY <4>2 DEF OnInit, mark_pid_active, Receive, OneMore
        <5>2. OneMore(active[p]) \in Nat /\ OneMore(active[p]) <= active[p] + 1
          BY <4>1 DEF OneMore
        <5>3. CASE p = x.pid
          <6>1. x = Ev("init", p) /\ a = OneMore(active[p])
            BY <1>0, <2>2, <5>1, <5>3
          <6> QED BY <5>2, <6>1
        <5>4. CASE p # x.pid
          <6>1. a = active[p]
            BY <1>0, <5>1, <5>4
          <6> QED BY <4>1, <6>1
        <5> QED BY <5>3, <5>4
      <4>3. CASE OnSignal \/ OnExit
        <5>1. \/ active' = [active EXCEPT ![x.pid] = saturating_sub(active[x.pid], 1)]
              \/ active' = [active EXCEPT ![x.pid] = 0]
          BY <4>3 DEF OnSignal, OnExit, correlate_fence, mark_pid_idle
        <5>2. saturating_sub(active[p], 1) \in Nat /\ saturating_sub(active[p], 1) <= active[p]
          BY <4>1 DEF saturating_sub
        <5>3. a \in {active[p], saturating_sub(active[p], 1), 0}
          BY <1>0, <5>1
        <5> QED BY <4>1, <5>2, <5>3
      <4> QED BY <1>5, <4>2, <4>3 DEF Drain
    <3>2. I(ring, p, n) = I(Tail(ring), p, n - 1) + u
      <4>1. n - 1 \in 0 .. (n - 1) /\ (n - 1) + 1 = n
        BY <1>0, <2>1
      <4> QED BY <1>0, <2>1, <4>1, UptoTail
    <3>3. active[p] + I(ring, p, n) <= fences
      BY <2>3 DEF Created
    <3>4. I(Tail(ring), p, n - 1) \in Nat
      <4>1. n - 1 \in Nat
        BY <1>0, <2>1
      <4> QED BY <4>1, UptoType
    <3>5. active[p] \in Nat /\ u \in Nat
      BY <1>0
    <3> HIDE DEF a, u, n, I
    <3>6. a + I(Tail(ring), p, n - 1) <= fences
      BY <1>0, <3>1, <3>2, <3>3, <3>4, <3>5
    <3> QED BY <3>6 DEF a
  <2>4. Len(ring') = n - 1
    BY <1>0, <2>1
  <2> QED BY <2>1, <2>3, <2>4 DEF Created
<1>6. CASE UNCHANGED <<active, kernel>>
  BY <1>2, <1>6 DEF kernel
<1>7. Drain \/ UNCHANGED <<active, kernel>>
      \/ \E q \in Pids : FenceInit(q) \/ FenceSignal(q) \/ ProcessExit(q)
  BY DEF Next, lvars, Elapse, CounterReset, SampleOk, SampleErr, Finish, Control, MainSample,
         Enqueue, Sync
<1> QED BY <1>4, <1>5, <1>6, <1>7

(***************************************************************************)
(* As long as no process exits, every lost event accounts for at most one  *)
(* of difference: a step that emits an event, one that loses it, and one   *)
(* that handles it keep the account.                                       *)
(***************************************************************************)
LEMMA AccountedStep ==
  ASSUME MaxFences <= MaxU32, TypeInv, TypeInv', Created, Accounted, [Next]_lvars
  PROVE  Accounted'
<1> USE LinuxAssumption, MaxUAssumption
<1>0. /\ active \in [Pids -> Nat] /\ ring \in Seq(Events) /\ fences \in Nat /\ lost \in Nat
      /\ busy \in [Pids -> Nat] /\ orphans \in [Pids -> Nat] /\ exits \in Nat
  BY ONLY TypeInv, MaxUAssumption DEF TypeInv, TypeOK, U64
<1>1. busy' \in [Pids -> Nat] /\ active' \in [Pids -> Nat]
  <2>1. KernelTypeOK' /\ (active \in [Pids -> 0 .. MaxU32])'
    BY TypePartsNext
  <2> QED BY ONLY <2>1, MaxUAssumption DEF KernelTypeOK, U64
<1>2. ASSUME UNCHANGED <<active, kernel>> PROVE Accounted'
  BY <1>2 DEF Accounted, kernel
<1>3. ASSUME NEW q \in Pids, NEW kind \in {"init", "signal"}, Emit(kind, q),
             exits = 0, UNCHANGED <<active, orphans, exits>>,
             \A p \in Pids : busy'[p] = busy[p] + Weight(Ev(kind, q), p)
      PROVE  Accounted'
  <2> DEFINE y == Ev(kind, q)
  <2>1. y \in Events /\ y.kind # "exit"
    BY DEF Ev, Events
  <2>2. /\ \A i \in DOMAIN ring : ring[i].kind # "exit"
        /\ \A p \in Pids : orphans[p] = 0
    BY <1>3 DEF Accounted
  <2>3. CASE ring' = Append(ring, y) /\ UNCHANGED lost
    <3>1. \A i \in DOMAIN ring' : ring'[i].kind # "exit"
      <4> HIDE DEF y
      <4> QED BY <1>0, <2>1, <2>2, <2>3
    <3>2. ASSUME NEW p \in Pids
          PROVE  \E d \in 0 .. lost : Explained(active[p], Append(ring, y), busy'[p], lost, p, d)
      <4>1. PICK d \in 0 .. lost : Explained(active[p], ring, busy[p], lost, p, d)
        BY <1>3, <3>2 DEF Accounted
      <4> DEFINE c == busy'[p]
      <4>2. c \in Nat /\ c = busy[p] + Weight(y, p) /\ active[p] \in Nat /\ busy[p] \in Nat
        BY <1>0, <1>1, <1>3, <3>2
      <4> HIDE DEF c, y
      <4>3. Explained(active[p], Append(ring, y), c, lost, p, d)
        BY <1>0, <2>1, <4>1, <4>2, EventQueued
      <4> QED BY <4>3 DEF c
    <3> QED BY <1>3, <2>2, <2>3, <3>1, <3>2 DEF Accounted
  <2>4. CASE lost' = lost + 1 /\ UNCHANGED ring
    <3>1. ASSUME NEW p \in Pids
          PROVE  \E d \in 0 .. (lost + 1) : Explained(active[p], ring, busy'[p], lost + 1, p, d)
      <4>1. PICK d \in 0 .. lost : Explained(active[p], ring, busy[p], lost, p, d)
        BY <1>3, <3>1 DEF Accounted
      <4> DEFINE c == busy'[p]
      <4>2. c \in Nat /\ c = busy[p] + Weight(y, p) /\ active[p] \in Nat /\ busy[p] \in Nat
        BY <1>0, <1>1, <1>3, <3>1
      <4>3. c \in {busy[p] - 1, busy[p], busy[p] + 1}
        <5> HIDE DEF c
        <5> QED BY <4>2 DEF Weight
      <4> HIDE DEF c, y
      <4>4. \E e \in 0 .. (lost + 1) : Explained(active[p], ring, c, lost + 1, p, e)
        BY <1>0, <4>1, <4>2, <4>3, EventLost
      <4> QED BY <4>4 DEF c
    <3> QED BY <1>3, <2>2, <2>4, <3>1 DEF Accounted
  <2> QED BY <1>3, <2>3, <2>4 DEF Emit, Ev
<1>4. ASSUME NEW q \in Pids, FenceInit(q) \/ FenceSignal(q) \/ ProcessExit(q) PROVE Accounted'
  <2>1. CASE exits' # 0
    BY <2>1 DEF Accounted
  <2>2. CASE exits' = 0
    <3>1. ~ProcessExit(q)
      BY <1>0, <2>2 DEF ProcessExit
    <3>2. exits = 0 /\ UNCHANGED <<active, exits>> /\ orphans[q] = 0
      BY <1>4, <2>2, <3>1 DEF FenceInit, FenceSignal, Accounted
    <3>3. CASE FenceInit(q)
      <4>1. UNCHANGED orphans /\ Emit("init", q) /\ busy' = [busy EXCEPT ![q] = @ + 1]
        BY <3>3 DEF FenceInit
      <4>2. \A p \in Pids : busy'[p] = busy[p] + Weight(Ev("init", q), p)
        <5> TAKE p \in Pids
        <5>1. Weight(Ev("init", q), p) = IF p # q THEN 0 ELSE 1
          BY WeightOf
        <5>2. busy'[p] = IF p # q THEN busy[p] ELSE busy[p] + 1
          BY <1>0, <4>1
        <5>3. busy[p] \in Nat
          BY <1>0
        <5> QED BY <5>1, <5>2, <5>3
      <4> QED BY <1>3, <3>2, <4>1, <4>2
    <3>4. CASE FenceSignal(q)
      <4>1. UNCHANGED orphans /\ Emit("signal", q) /\ busy' = [busy EXCEPT ![q] = @ - 1]
        BY <3>2, <3>4 DEF FenceSignal
      <4>2. \A p \in Pids : busy'[p] = busy[p] + Weight(Ev("signal", q), p)
        <5> TAKE p \in Pids
        <5>1. Weight(Ev("signal", q), p) = IF p # q THEN 0 ELSE -1
          BY WeightOf
        <5>2. busy'[p] = IF p # q THEN busy[p] ELSE busy[p] - 1
          BY <1>0, <4>1
        <5>3. busy[p] \in Nat
          BY <1>0
        <5> QED BY <5>1, <5>2, <5>3
      <4> QED BY <1>3, <3>2, <4>1, <4>2
    <3> QED BY <1>4, <3>1, <3>3, <3>4
  <2> QED BY <2>1, <2>2
<1>5. CASE Drain
  <2>1. /\ ring # <<>> /\ ring' = Tail(ring)
        /\ UNCHANGED <<busy, orphans, fences, exits, lost>>
    BY <1>5 DEF Drain, OnInit, OnSignal, OnExit, Receive
  <2> SUFFICES ASSUME exits = 0 PROVE Accounted'
    BY <2>1 DEF Accounted
  <2> DEFINE x == Head(ring)
             n == Len(ring)
  <2>2. x \in Events /\ x = Ev(x.kind, x.pid) /\ x.pid \in Pids /\ x.kind # "exit"
    <3>1. x \in Events /\ x = ring[1] /\ 1 \in DOMAIN ring
      BY <1>0, <2>1
    <3> QED BY <3>1 DEF Ev, Events, Accounted
  <2>3. \A i \in DOMAIN Tail(ring) : Tail(ring)[i].kind # "exit"
    <3>1. \A i \in DOMAIN Tail(ring) : i + 1 \in DOMAIN ring /\ Tail(ring)[i] = ring[i + 1]
      BY <1>0, <2>1
    <3> QED BY <3>1 DEF Accounted
  <2>4. ASSUME NEW p \in Pids
        PROVE  \E d \in 0 .. lost : Explained(active'[p], Tail(ring), busy[p], lost, p, d)
    <3> DEFINE a == active[p]
               c == active'[p]
               w == Weight(x, p)
    <3>1. a \in Nat /\ c \in Nat
      BY <1>0, <1>1
    <3>2. c = IF a + w >= 0 THEN a + w ELSE 0
      <4>1. CASE OnInit
        <5>1. active' = [active EXCEPT ![x.pid] = OneMore(active[x.pid])] /\ x.kind = "init"
          BY <4>1 DEF OnInit, mark_pid_active, Receive, OneMore
        <5>2. w = IF p # x.pid THEN 0 ELSE 1
          BY <2>2, <5>1, WeightOf
        <5>3. CASE p # x.pid
          <6>1. c = a
            BY <1>0, <5>1, <5>3
          <6> HIDE DEF a, c, w
          <6> QED BY <3>1, <5>2, <5>3, <6>1
        <5>4. CASE p = x.pid
          <6>1. x = Ev("init", p)
            BY <2>2, <5>1, <5>4
          <6> DEFINE u == Upto(ring, Ev("init", p), n)
                     v == Upto(Tail(ring), Ev("init", p), n - 1)
          <6>2. u = v + 1 /\ v \in Nat
            <7>1. n - 1 \in 0 .. (n - 1) /\ (n - 1) + 1 = n /\ n - 1 \in Nat
              BY <1>0, <2>1
            <7>2. u = v + (IF Head(ring) = Ev("init", p) THEN 1 ELSE 0)
              BY <1>0, <2>1, <7>1, UptoTail
            <7>3. v \in Nat
              BY <7>1, UptoType
            <7> HIDE DEF u, v
            <7> QED BY <6>1, <7>2, <7>3
          <6>3. a + u <= fences /\ fences <= MaxFences
            BY DEF Created
          <6> HIDE DEF u, v
          <6>4. a + 1 <= MaxU32 /\ MaxU32 \in Nat
            <7> HIDE DEF a
            <7> QED BY <1>0, <3>1, <6>2, <6>3 DEF U64
          <6>5. c = a + 1
            <7>1. c = OneMore(a)
              BY <1>0, <5>1, <5>4
            <7> HIDE DEF a, c
            <7> QED BY <3>1, <6>4, <7>1 DEF OneMore
          <6> HIDE DEF a, c, w
          <6> QED BY <3>1, <5>2, <5>4, <6>5
        <5> QED BY <5>3, <5>4
      <4>2. CASE OnSignal
        <5>1. active' = [active EXCEPT ![x.pid] = saturating_sub(active[x.pid], 1)]
              /\ x.kind = "signal"
          BY <4>2 DEF OnSignal, correlate_fence, Receive
        <5>2. w = IF p # x.pid THEN 0 ELSE -1
          BY <2>2, <5>1, WeightOf
        <5>3. c = IF p # x.pid THEN a ELSE saturating_sub(a, 1)
          BY <1>0, <5>1
        <5> HIDE DEF a, c, w
        <5> QED BY <3>1, <5>2, <5>3 DEF saturating_sub
      <4>3. ~OnExit
        BY <2>2 DEF OnExit, Receive
      <4> QED BY <1>5, <4>1, <4>2, <4>3 DEF Drain
    <3>3. PICK d \in 0 .. lost : Explained(a, ring, busy[p], lost, p, d)
      BY <2>4 DEF Accounted
    <3>4. busy[p] \in Nat
      BY <1>0
    <3> HIDE DEF a, c
    <3>5. \E e \in 0 .. lost : Explained(c, Tail(ring), busy[p], lost, p, e)
      BY <1>0, <2>1, <3>1, <3>2, <3>3, <3>4, EventHandled
    <3> QED BY <3>5 DEF c
  <2>5. \A p \in Pids : orphans[p] = 0
    BY DEF Accounted
  <2> QED BY <2>1, <2>3, <2>4, <2>5 DEF Accounted
<1>6. Drain \/ UNCHANGED <<active, kernel>>
      \/ \E q \in Pids : FenceInit(q) \/ FenceSignal(q) \/ ProcessExit(q)
  BY DEF Next, lvars, Elapse, CounterReset, SampleOk, SampleErr, Finish, Control, MainSample,
         Enqueue, Sync
<1> QED BY <1>2, <1>4, <1>5, <1>6

(***************************************************************************)
(* While no process exits, what main counts for a PID, with the events it  *)
(* has not handled yet, is off from the fences in flight by at most one    *)
(* per event the perf array dropped; it is exact when none was dropped.    *)
(* The number of fences must fit a u32, as the counts of active_pids do.   *)
(***************************************************************************)
THEOREM LinuxCountsFences == MaxFences <= MaxU32 => (Spec => []ActiveCountsFences)
<1> SUFFICES ASSUME MaxFences <= MaxU32 PROVE Spec => []ActiveCountsFences
  OBVIOUS
<1>1. Init => Created /\ Accounted
  <2> SUFFICES ASSUME Init PROVE Created /\ Accounted
    OBVIOUS
  <2> USE LinuxAssumption
  <2>1. /\ ring = <<>> /\ Len(ring) = 0 /\ fences = 0 /\ lost = 0
        /\ \A p \in Pids : active[p] = 0 /\ busy[p] = 0 /\ orphans[p] = 0
    BY DEF Init
  <2>2. \A p \in Pids : Upto(ring, Ev("init", p), 0) = 0 /\ Balance(0, ring, p, 0) = 0
    BY UptoType, BalanceType
  <2>3. Created
    BY <2>1, <2>2 DEF Created
  <2>4. \A p \in Pids : Explained(0, ring, 0, 0, p, 0)
    BY <2>1, <2>2 DEF Explained
  <2>5. Accounted
    BY <2>1, <2>4 DEF Accounted
  <2> QED BY <2>3, <2>5
<1>2. TypeInv /\ TypeInv' /\ Created /\ Accounted /\ [Next]_lvars => Created' /\ Accounted'
  BY CreatedStep, AccountedStep
<1>3. TypeInv /\ Created /\ Accounted => ActiveCountsFences
  <2> SUFFICES ASSUME TypeInv, Accounted, exits = 0, NEW p \in Pids
               PROVE  active[p] + Queued("init", p) - Queued("signal", p) - busy[p] \in -lost .. lost
    BY DEF ActiveCountsFences
  <2>0. /\ active[p] \in Nat /\ busy[p] \in Nat /\ lost \in Nat /\ ring \in Seq(Events)
    BY DEF TypeInv, TypeOK, U64
  <2>1. PICK d \in 0 .. lost : Explained(active[p], ring, busy[p], lost, p, d)
    BY DEF Accounted
  <2> DEFINE B == Balance(active[p], ring, p, Len(ring))
  <2>2. B \in Int
    <3>1. Len(ring) \in Nat
      BY <2>0
    <3> QED BY <2>0, <3>1, BalanceType
  <2>3. /\ B = active[p] + Queued("init", p) - Queued("signal", p)
        /\ Queued("init", p) \in Nat /\ Queued("signal", p) \in Nat
    <3>1. DOMAIN ring = 1 .. Len(ring) /\ Len(ring) \in Nat
      BY <2>0
    <3>2. \A k : Queued(k, p) = Upto(ring, Ev(k, p), Len(ring))
      BY <3>1 DEF Queued, Upto, Ev
    <3> QED BY <3>1, <3>2, UptoType DEF Balance
  <2>4. B - busy[p] + d \in 0 .. lost
    BY <2>1 DEF Explained
  <2> HIDE DEF B
  <2>5. B - busy[p] \in -lost .. lost
    BY <2>0, <2>2, <2>4
  <2> QED BY <2>0, <2>3, <2>5
<1> QED BY <1>1, <1>2, <1>3, TypeInvariant, PTL DEF Spec
===============================================================================
