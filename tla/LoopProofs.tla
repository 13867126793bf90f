------------------------------ MODULE LoopProofs ------------------------------
(***************************************************************************)
(* What TLAPS proves of the sampling loop over any provider: any powers,   *)
(* any lists of PIDs of any length, any clock, any failures.               *)
(***************************************************************************)
EXTENDS AnyProvider, SamplingProofs

\* the buckets hold what was handed over, until one of them saturates
BucketsAddUp == handed <= MaxU => SumOf(energy, Buckets) = handed

LoopInv ==
  /\ ProviderTypeOK
  /\ SplitPreservesTotal
  /\ BucketsAddUp

(***************************************************************************)
(* The invariant gives what the lemmas on the loop's steps ask for.        *)
(***************************************************************************)
LEMMA LoopInvFacts ==
  ASSUME LoopInv
  PROVE  /\ LoopOK /\ now \in U64
         /\ handed \in Nat /\ start \in Nat /\ start <= handed /\ handed - start \in Nat
         /\ cumulative \in Nat /\ delta \in Nat
         /\ share \in Nat /\ remainder \in Nat /\ Len(todo) \in Nat
<1>1. LoopOK
  BY DEF LoopInv, ProviderTypeOK, SplitPreservesTotal, LoopOK
<1>2. now \in U64
  BY AnyProviderAssumption, MaxUAssumption DEF LoopInv, ProviderTypeOK, U64
<1>3. handed \in Nat /\ start \in Nat /\ start <= handed
  BY DEF LoopInv, ProviderTypeOK, LoopTypeOK, SplitPreservesTotal
<1>4. /\ cumulative \in Nat /\ delta \in Nat /\ share \in Nat /\ remainder \in Nat
      /\ Len(todo) \in Nat
  BY MaxUAssumption DEF LoopInv, ProviderTypeOK, LoopTypeOK, U64
<1> QED BY <1>1, <1>2, <1>3, <1>4

(***************************************************************************)
(* Inside a tick the balance of SplitPreservesTotal is a balance with what *)
(* is owed.                                                                *)
(***************************************************************************)
LEMMA BalanceByOwed ==
  LoopOK /\ pc = "credit" /\ start \in Nat /\ handed \in Nat /\ start <= handed =>
    (SplitPreservesTotal <=> clamp(cumulative + delta) = clamp((handed - start) + Owed))
<1> SUFFICES ASSUME LoopOK, pc = "credit", start \in Nat, handed \in Nat, start <= handed
             PROVE  SplitPreservesTotal <=>
                      clamp(cumulative + delta) = clamp((handed - start) + Owed)
  OBVIOUS
<1>1. share \in Nat /\ remainder \in Nat /\ Len(todo) \in Nat /\ handed - start \in Nat
  BY MaxUAssumption DEF LoopOK, LoopTypeOK, U64
<1> DEFINE m == share * Len(todo)
<1>2. m \in Nat
  BY <1>1
<1>3. Owed = m + remainder
  BY DEF Owed
<1>4. SplitPreservesTotal <=> clamp(cumulative + delta) = clamp((handed - start) + m + remainder)
  BY DEF SplitPreservesTotal, LoopOK
<1> HIDE DEF m
<1>5. (handed - start) + m + remainder = (handed - start) + (m + remainder)
  BY <1>1, <1>2
<1> QED BY <1>3, <1>4, <1>5

(***************************************************************************)
(* The balance as it is after a step.                                      *)
(***************************************************************************)
LEMMA BalanceByOwedNext ==
  LoopOK' /\ (pc = "credit")' /\ (start \in Nat)' /\ (handed \in Nat)' /\ (start <= handed)' =>
    (SplitPreservesTotal' <=> (clamp(cumulative + delta) = clamp((handed - start) + Owed))')
  BY BalanceByOwed, PTL

(***************************************************************************)
(* Every step of the loop and of the world around it keeps the types, the  *)
(* balance between what the tick took and what it handed over, and the sum *)
(* of the buckets.                                                         *)
(***************************************************************************)
LEMMA LoopStep == LoopInv /\ [Next]_pvars => LoopInv'
<1> SUFFICES ASSUME LoopInv, [Next]_pvars PROVE LoopInv'
    OBVIOUS
<1> USE MaxUAssumption, AnyProviderAssumption
<1>0. /\ LoopOK /\ now \in U64
      /\ handed \in Nat /\ start \in Nat /\ start <= handed /\ handed - start \in Nat
      /\ cumulative \in Nat /\ delta \in Nat
  BY LoopInvFacts
<1>1. CASE SampleOk
  <2>1. PICK active, idle \in Powers, pids \in PidLists : TickOk(now, active, idle, pids)
    BY <1>1 DEF SampleOk
  <2>2. pids \in Seq(Pids) /\ active \in Nat /\ idle \in Nat
    <3>1. pids \in Seq(Pids)
      BY DEF PidLists
    <3>2. U64 \subseteq Nat
      BY DEF U64
    <3> QED BY <3>1, <3>2
  <2>3. /\ LoopOK' /\ pc = "await" /\ UNCHANGED <<energy, cumulative, handed, start>>
        /\ prev = NoSnapshot => pc' = "await" /\ Owed' = 0 /\ delta' = delta
        /\ prev # NoSnapshot => pc' = "credit" /\ Owed' = delta'
    BY <1>0, <2>1, <2>2, TickOkStep
  <2>4. ProviderTypeOK'
    BY <1>1, <2>3 DEF SampleOk, env, LoopInv, ProviderTypeOK, LoopOK
  <2>5. BucketsAddUp'
    BY <2>3 DEF LoopInv, BucketsAddUp
  <2>6. cumulative = clamp(handed - start)
    BY <2>3 DEF LoopInv, SplitPreservesTotal
  <2>7. SplitPreservesTotal'
    <3>1. CASE prev = NoSnapshot
      BY <1>0, <2>3, <2>6, <3>1 DEF SplitPreservesTotal
    <3>2. CASE prev # NoSnapshot
      <4>1. delta' \in Nat
        BY <2>3 DEF LoopOK, LoopTypeOK, U64
      <4>2. clamp(cumulative + delta') = clamp((handed - start) + delta')
        BY <1>0, <2>6, <4>1, ClampAdd
      <4> QED BY <1>0, <2>3, <3>2, <4>2, BalanceByOwedNext
    <3> QED BY <3>1, <3>2
  <2> QED BY <2>4, <2>5, <2>7 DEF LoopInv
<1>2. CASE Credit /\ UNCHANGED env
  <2>1. /\ LoopOK' /\ pc = "credit" /\ pc' = "credit"
        /\ UNCHANGED <<cumulative, delta, start>>
        /\ handed' \in Nat /\ handed <= handed' /\ handed' + Owed' = handed + Owed
    BY <1>0, <1>2, CreditStep
  <2>2. ProviderTypeOK'
    BY <1>2, <2>1 DEF env, LoopInv, ProviderTypeOK, LoopOK
  <2>3. BucketsAddUp'
    <3> SUFFICES ASSUME handed' <= MaxU PROVE SumOf(energy', Buckets) = handed'
      BY DEF BucketsAddUp
    <3>1. SumOf(energy, Buckets) = handed
      BY <1>0, <2>1 DEF LoopInv, BucketsAddUp
    <3>2. handed + (handed' - handed) = handed'
      <4>1. handed \in Nat /\ handed' \in Nat
        BY <1>0, <2>1
      <4> QED BY <4>1, AddDifference
    <3>3. SumOf(energy, Buckets) + (handed' - handed) <= MaxU =>
            SumOf(energy', Buckets) = SumOf(energy, Buckets) + (handed' - handed)
      BY <1>0, <1>2, CreditStep
    <3> QED BY <3>1, <3>2, <3>3
  <2>4. clamp(cumulative + delta) = clamp((handed - start) + Owed)
    BY <1>0, <2>1, BalanceByOwed DEF LoopInv
  <2>5. (handed' - start) + Owed' = (handed - start) + Owed
    <3>1. Owed \in Nat
      BY <1>0, OwedType
    <3>2. Owed' \in Nat
      BY <2>1, OwedTypeNext
    <3> DEFINE h == handed'
               o == Owed'
    <3>3. h \in Nat /\ o \in Nat /\ h + o = handed + Owed
      BY <2>1, <3>2
    <3> HIDE DEF h, o
    <3>4. (h - start) + o = (handed - start) + Owed
      BY <1>0, <3>1, <3>3
    <3> QED BY <3>4 DEF h, o
  <2>6. SplitPreservesTotal'
    BY <1>0, <2>1, <2>4, <2>5, BalanceByOwedNext
  <2> QED BY <2>2, <2>3, <2>6 DEF LoopInv
<1>3. CASE Heartbeat /\ UNCHANGED env
  <2>1. /\ LoopOK' /\ pc = "credit" /\ pc' = "await" /\ Owed = 0
        /\ UNCHANGED <<energy, prev, delta, handed, start>>
        /\ cumulative' = clamp(cumulative + delta)
    BY <1>0, <1>3, HeartbeatStep
  <2>2. clamp(cumulative + delta) = clamp((handed - start) + Owed)
    BY <1>0, <2>1, BalanceByOwed DEF LoopInv
  <2>3. (handed - start) + 0 = handed - start
    BY <1>0
  <2>4. SplitPreservesTotal'
    BY <1>0, <2>1, <2>2, <2>3 DEF SplitPreservesTotal
  <2>5. ProviderTypeOK' /\ BucketsAddUp'
    BY <1>3, <2>1 DEF env, LoopInv, ProviderTypeOK, LoopOK, BucketsAddUp
  <2> QED BY <2>4, <2>5 DEF LoopInv
<1>4. CASE (SampleErr \/ ((StartLoop \/ DropLoop) /\ UNCHANGED env))
  <2>1. /\ LoopOK' /\ pc' # "credit" /\ UNCHANGED <<energy, handed, delta>>
        /\ UNCHANGED <<now, backs, down>>
    BY <1>0, <1>4, ControlStep DEF SampleErr, env
  <2>2. ProviderTypeOK' /\ BucketsAddUp'
    BY <2>1 DEF LoopInv, ProviderTypeOK, LoopOK, BucketsAddUp
  <2>3. handed - handed = 0 /\ clamp(0) = 0
    BY <1>0 DEF clamp
  <2>4. SplitPreservesTotal'
    BY <1>0, <1>4, <2>1, <2>3
       DEF SampleErr, TickErr, StartLoop, DropLoop, LoopInv, SplitPreservesTotal
  <2> QED BY <2>2, <2>4 DEF LoopInv
<1>5. CASE Flip \/ (\E t \in Clock : Elapse(t)) \/ UNCHANGED pvars
  <2>1. UNCHANGED loopVars /\ now' \in Clock /\ backs' \in 0 .. MaxBack /\ down' \in BOOLEAN
    <3>1. now \in Clock /\ backs \in 0 .. MaxBack /\ down \in BOOLEAN
      BY DEF LoopInv, ProviderTypeOK
    <3>2. ASSUME NEW t \in Clock, Elapse(t)
          PROVE  UNCHANGED loopVars /\ now' \in Clock /\ backs' \in 0 .. MaxBack
                 /\ down' = down
      BY <3>1, <3>2 DEF Elapse, U64
    <3> QED BY <1>5, <3>1, <3>2 DEF Flip, pvars
  <2> QED BY <2>1
          DEF loopVars, LoopInv, ProviderTypeOK, LoopTypeOK, SplitPreservesTotal, BucketsAddUp
<1> QED
  BY <1>1, <1>2, <1>3, <1>4, <1>5 DEF Next, Tick, Finish

(***************************************************************************)
(* The invariant holds in every reachable state of the loop.               *)
(***************************************************************************)
LEMMA LoopInvariant == Spec => []LoopInv
<1>1. Init => LoopInv
  <2> SUFFICES ASSUME Init PROVE LoopInv
    OBVIOUS
  <2>1. clamp(0) = 0 /\ 0 \in Clock /\ 0 \in 0 .. MaxBack
    BY MaxUAssumption, AnyProviderAssumption DEF U64, clamp
  <2>2. LoopOK /\ SumOf(energy, Buckets) = 0
    BY LoopStart DEF Init
  <2>3. SplitPreservesTotal
    BY <2>1 DEF Init, LoopInit, SplitPreservesTotal
  <2> QED BY <2>1, <2>2, <2>3
          DEF Init, LoopInit, LoopInv, ProviderTypeOK, LoopOK, BucketsAddUp
<1> QED BY <1>1, LoopStep, PTL DEF Spec

(***************************************************************************)
(* Every number the loop computes stays a u64: the split's share and       *)
(* remainder, the cells of the registry, the heartbeat's running total.    *)
(***************************************************************************)
THEOREM LoopIsTyped == Spec => []ProviderTypeOK
<1>1. LoopInv => ProviderTypeOK
  BY DEF LoopInv
<1> QED BY <1>1, LoopInvariant, PTL

(***************************************************************************)
(* "The math is deterministic and total-preserving", for any provider:     *)
(* however the energy of a tick is divided, and whatever happens between   *)
(* ticks, the heartbeat's running total is the saturated sum of what the   *)
(* loop handed to the registry.                                            *)
(***************************************************************************)
THEOREM TotalPreserved == Spec => []SplitPreservesTotal
<1>1. LoopInv => SplitPreservesTotal
  BY DEF LoopInv
<1> QED BY <1>1, LoopInvariant, PTL

(***************************************************************************)
(* "Bucket the energy under PID 0 so the total stays accountable": for any *)
(* number of PIDs and any lists of them, repeated PIDs included, the       *)
(* buckets of the registry add up to what the heartbeats reported.         *)
(***************************************************************************)
THEOREM BucketsHoldTotal == Spec => []RegistryHoldsTotal
<1>1. LoopInv => RegistryHoldsTotal
  <2> SUFFICES ASSUME LoopInv, pc = "await", start + cumulative < MaxU
               PROVE  SumOf(energy, Buckets) = start + cumulative
    BY DEF RegistryHoldsTotal, SumOf
  <2>1. handed \in Nat /\ start \in Nat /\ start <= handed /\ cumulative \in Nat /\ MaxU \in Nat
    BY LoopInvFacts, MaxUAssumption
  <2>2. cumulative = clamp(handed - start)
    BY DEF LoopInv, SplitPreservesTotal
  <2>3. cumulative = handed - start
    BY <2>1, <2>2 DEF clamp
  <2>4. handed <= MaxU /\ handed = start + cumulative
    BY <2>1, <2>3
  <2> QED BY <2>4 DEF LoopInv, BucketsAddUp
<1> QED BY <1>1, LoopInvariant, PTL

-------------------------------------------------------------------------------
(* The energy functions, for every power and share and every time passed *)

(***************************************************************************)
(* Splitting a window into seconds and a rest never overstates its energy, *)
(* and rounds down once, for every u64 power and every window.             *)
(***************************************************************************)
THEOREM WindowsAreExact == Spec => []WindowEnergyIsExact
<1>1. LoopInv => WindowEnergyIsExact
  <2> SUFFICES ASSUME LoopInv, NEW p \in U64
               PROVE  LET e == window_energy_uj(p, now)
                          exact == ExactUj(p, now)
                      IN  /\ e <= exact
                          /\ (p * (NS - 1) <= MaxU /\ exact <= MaxU) => e = exact
    BY DEF WindowEnergyIsExact
  <2>1. p \in Nat /\ now \in Nat /\ NS \in Nat \ {0} /\ MaxU \in Nat
    BY LoopInvFacts, MaxUAssumption, AttributionAssumption DEF U64, NS
  <2>2. now % NS \in Nat /\ now % NS <= NS - 1 /\ NS - 1 \in Nat
    BY <2>1
  <2>3. p * (now % NS) \in Nat /\ p * (NS - 1) \in Nat /\ p * (now % NS) <= p * (NS - 1)
    BY <2>1, <2>2, ProductGrows
  <2>4. p * (NS - 1) <= MaxU => p * (now % NS) <= MaxU
    BY <2>1, <2>3
  <2> QED BY <2>1, <2>4, WindowEnergyBounds DEF ExactUj
<1> QED BY <1>1, LoopInvariant, PTL

(***************************************************************************)
(* No process is given more than the burst energy of the busy time, for    *)
(* any powers and any time it claims.                                      *)
(***************************************************************************)
THEOREM ModelIsBounded == Spec => []ModelStaysWithinBusyTime
<1>1. LoopInv => ModelStaysWithinBusyTime
  <2> SUFFICES ASSUME LoopInv PROVE ModelStaysWithinBusyTime
    OBVIOUS
  <2>1. now \in Nat /\ U64 \subseteq Nat
    BY LoopInvFacts, MaxUAssumption DEF U64
  <2> SUFFICES ASSUME NEW power \in U64, NEW idle \in U64, NEW s \in U64
               PROVE  LET uj == deterministic_attribution_uj(power, idle, s, now)
                          burst == IF power < idle THEN 0 ELSE power - idle
                      IN  /\ uj <= ExactUj(burst, now)
                          /\ (s <= now /\ ExactUj(burst, s) <= MaxU) => uj = ExactUj(burst, s)
    BY DEF ModelStaysWithinBusyTime
  <2>2. power \in Nat /\ idle \in Nat /\ s \in Nat
    BY <2>1
  <2> DEFINE uj == deterministic_attribution_uj(power, idle, s, now)
             burst == IF power < idle THEN 0 ELSE power - idle
  <2>3. burst = IF power < idle THEN 0 ELSE power - idle
    OBVIOUS
  <2> HIDE DEF burst
  <2>4. /\ uj <= EnergyOver(burst, now)
        /\ (s <= now /\ EnergyOver(burst, s) <= MaxU) => uj = EnergyOver(burst, s)
    BY ONLY <2>1, <2>2, <2>3, ModelBounds
  <2> HIDE DEF uj
  <2>5. /\ uj <= ExactUj(burst, now)
        /\ (s <= now /\ ExactUj(burst, s) <= MaxU) => uj = ExactUj(burst, s)
    BY ONLY <2>4 DEF ExactUj, EnergyOver
  <2> QED BY <2>5 DEF uj, burst
<1> QED BY <1>1, LoopInvariant, PTL

(***************************************************************************)
(* The CPU shares of a RAPL delta never add up to more than the delta,     *)
(* although each is rounded and capped on its own.                         *)
(***************************************************************************)
THEOREM SharesAreBounded == SharesStayWithinDelta
<1> SUFFICES ASSUME NEW uj \in U64, NEW s \in U64, NEW t \in U64
             PROVE  /\ rapl_fallback_uj(uj, s) <= uj
                    /\ s + t <= MILLION =>
                         rapl_fallback_uj(uj, s) + rapl_fallback_uj(uj, t) <= uj
  BY DEF SharesStayWithinDelta
<1>1. MILLION \in Nat \ {0} /\ MaxU \in Nat /\ uj \in Nat /\ s \in Nat /\ t \in Nat
  BY AttributionAssumption, MaxUAssumption DEF U64
<1> DEFINE Cap(x) == IF x < MILLION THEN x ELSE MILLION
           Quot(x) == (uj * Cap(x)) \div MILLION
<1>2. ASSUME NEW x \in U64
      PROVE  /\ Cap(x) \in Nat /\ Cap(x) <= MILLION /\ Cap(x) <= x
             /\ uj * Cap(x) \in Nat
             /\ Quot(x) \in Nat /\ Quot(x) * MILLION <= uj * Cap(x)
             /\ rapl_fallback_uj(uj, x) \in Nat /\ rapl_fallback_uj(uj, x) <= Quot(x)
  <2>1. Cap(x) \in Nat /\ Cap(x) <= MILLION /\ Cap(x) <= x
    BY <1>1 DEF U64
  <2> HIDE DEF Cap
  <2>2. uj * Cap(x) \in Nat
    BY <1>1, <2>1
  <2>3. Quot(x) \in Nat /\ Quot(x) * MILLION <= uj * Cap(x)
    BY <1>1, <2>2, DivisionBounds
  <2>4. rapl_fallback_uj(uj, x) = clamp(Quot(x))
    BY DEF rapl_fallback_uj, Cap
  <2> QED BY <2>1, <2>2, <2>3, <2>4, ClampBounds DEF U64
<1> HIDE DEF Cap, Quot
<1>3. rapl_fallback_uj(uj, s) <= uj
  <2>1. uj * Cap(s) <= uj * MILLION /\ uj * MILLION \in Nat
    BY <1>1, <1>2, ProductGrows
  <2>2. Quot(s) \in Nat /\ Quot(s) * MILLION \in Nat /\ Quot(s) * MILLION <= uj * Cap(s)
    BY <1>1, <1>2
  <2>3. Quot(s) * MILLION <= uj * MILLION
    BY <1>2, <2>1, <2>2
  <2>4. Quot(s) <= uj
    BY <1>1, <2>2, <2>3, FactorIsBounded
  <2> QED BY <1>1, <1>2, <2>4
<1>4. ASSUME s + t <= MILLION
      PROVE  rapl_fallback_uj(uj, s) + rapl_fallback_uj(uj, t) <= uj
  <2> DEFINE a == Cap(s)
             b == Cap(t)
             q == Quot(s)
             r == Quot(t)
             m == MILLION
  <2>1. /\ a \in Nat /\ b \in Nat /\ q \in Nat /\ r \in Nat /\ m \in Nat \ {0}
        /\ a <= s /\ b <= t
        /\ uj * a \in Nat /\ uj * b \in Nat
        /\ q * m <= uj * a /\ r * m <= uj * b
        /\ rapl_fallback_uj(uj, s) \in Nat /\ rapl_fallback_uj(uj, s) <= q
        /\ rapl_fallback_uj(uj, t) \in Nat /\ rapl_fallback_uj(uj, t) <= r
    BY <1>1, <1>2
  <2>2. a + b <= m
    BY <1>1, <1>4, <2>1
  <2> HIDE DEF a, b, q, r, m
  <2>3. uj * (a + b) <= uj * m /\ uj * m \in Nat
    BY <1>1, <2>1, <2>2, ProductGrows
  <2>4. uj * (a + b) = uj * a + uj * b /\ (q + r) * m = q * m + r * m
    BY <1>1, <2>1
  <2>5. q * m \in Nat /\ r * m \in Nat
    BY <2>1
  <2>6. (q + r) * m <= uj * m
    BY <2>1, <2>3, <2>4, <2>5
  <2>7. q + r <= uj
    BY <1>1, <2>1, <2>6, FactorIsBounded
  <2> QED BY <1>1, <2>1, <2>7
<1> QED BY <1>3, <1>4
===============================================================================
