---------------------------- MODULE SamplingProofs ----------------------------
(***************************************************************************)
(* Lemmas on the sampling loop and the pending queue that the proofs of    *)
(* every provider share: what the energy functions return, and what one    *)
(* step of the loop or of the queue does to the balance.                   *)
(***************************************************************************)
EXTENDS PendingQueue, SatArithProofs

-------------------------------------------------------------------------------
(* Energy of a window *)

(***************************************************************************)
(* The energy of a window is a u64, whatever saturates on the way.         *)
(***************************************************************************)
LEMMA WindowEnergyIsU64 ==
  \A p, w \in Nat : window_energy_uj(p, w) \in U64
<1> TAKE p, w \in Nat
<1>1. NS \in Nat \ {0}
  BY AttributionAssumption DEF NS
<1> DEFINE s == w \div NS
           r == w % NS
<1>2. s \in Nat /\ r \in Nat
  BY <1>1
<1>3. saturating_mul(p, s) \in Nat /\ saturating_mul(p, r) \in Nat
  <2>1. p * s \in Nat /\ p * r \in Nat
    BY <1>2
  <2> QED BY <2>1, ClampBounds DEF saturating_mul, U64
<1>4. saturating_mul(p, r) \div NS \in Nat
  BY <1>1, <1>3
<1>5. saturating_mul(p, s) + saturating_mul(p, r) \div NS \in Nat
  BY <1>3, <1>4
<1> QED BY <1>5, ClampBounds DEF window_energy_uj, saturating_add

(***************************************************************************)
(* The burst energy of a sample is a u64, also when the idle power exceeds *)
(* the active power and when the clock stepped back.                       *)
(***************************************************************************)
LEMMA BurstEnergyIsU64 ==
  \A active, idle, w \in Nat : burst_energy_uj(active, idle, w) \in U64
<1> TAKE active, idle, w \in Nat
<1>1. baseline_burst_power_uw(active, idle) \in Nat
  BY DEF baseline_burst_power_uw, saturating_sub
<1> QED BY <1>1, WindowEnergyIsU64 DEF burst_energy_uj

(***************************************************************************)
(* Whole seconds and the rest apart give the same energy as the window.    *)
(***************************************************************************)
LEMMA SplitWindow ==
  ASSUME NEW p \in Nat, NEW t \in Nat
  PROVE  (p * t) \div NS = p * (t \div NS) + (p * (t % NS)) \div NS
<1>1. NS \in Nat \ {0}
  BY AttributionAssumption DEF NS
<1> DEFINE n == NS
           s == t \div n
           r == t % n
           e == (p * r) \div n
<1>2. s \in Nat /\ r \in Nat /\ t = s * n + r
  BY <1>1
<1>3. p * r \in Nat /\ p * s \in Nat
  BY <1>2
<1>4. e \in Nat /\ e * n <= p * r /\ p * r < e * n + n
  BY <1>1, <1>3, DivisionBounds
<1> HIDE DEF n, s, r, e
<1>5. p * t = (p * s) * n + p * r
  <2>1. p * t = p * (s * n + r)
    BY <1>2
  <2> QED BY <1>1, <1>2, <2>1 DEF n
<1>6. (p * s + e) * n = (p * s) * n + e * n
  BY <1>1, <1>3, <1>4 DEF n
<1>7. (p * s + e) * n <= p * t /\ p * t < (p * s + e) * n + n
  <2>1. (p * s) * n \in Nat /\ e * n \in Nat /\ n \in Nat
    BY <1>1, <1>3, <1>4 DEF n
  <2> QED BY <1>3, <1>4, <1>5, <1>6, <2>1
<1>8. (p * t) \div n = p * s + e
  <2>1. p * t \in Nat /\ p * s + e \in Nat /\ n \in Nat \ {0}
    BY <1>1, <1>3, <1>4 DEF n
  <2> QED BY <1>7, <2>1, QuotientIsUnique
<1> QED BY <1>8 DEF n, s, r, e

(***************************************************************************)
(* window_energy_uj never exceeds the exact energy of the window, and is   *)
(* exact when neither the sub-second product nor the result saturates.     *)
(***************************************************************************)
LEMMA WindowEnergyBounds ==
  ASSUME NEW p \in Nat, NEW t \in Nat
  PROVE  LET e == window_energy_uj(p, t)
             exact == (p * t) \div NS
         IN  /\ e <= exact
             /\ (p * (t % NS) <= MaxU /\ exact <= MaxU) => e = exact
<1>1. NS \in Nat \ {0} /\ p \in Nat /\ t \in Nat /\ MaxU \in Nat
  BY AttributionAssumption, MaxUAssumption DEF NS
<1> DEFINE s == t \div NS
           r == t % NS
           ps == p * s
           pr == p * r
           exact == (p * t) \div NS
           e == window_energy_uj(p, t)
<1>2. s \in Nat /\ r \in Nat
  BY <1>1
<1>3. ps \in Nat /\ pr \in Nat
  BY <1>1, <1>2
<1>4. exact = ps + pr \div NS
  BY <1>1, SplitWindow
<1>5. e = clamp(clamp(ps) + clamp(pr) \div NS)
  BY DEF window_energy_uj, saturating_add, saturating_mul
<1>6. /\ clamp(ps) \in Nat /\ clamp(ps) <= ps
      /\ clamp(pr) \in Nat /\ clamp(pr) <= pr
  BY <1>3, ClampBounds DEF U64
<1>7. /\ pr \div NS \in Nat /\ clamp(pr) \div NS \in Nat
      /\ clamp(pr) \div NS <= pr \div NS
  BY <1>1, <1>3, <1>6, QuotientGrows, DivisionBounds
<1> HIDE DEF s, r, ps, pr, exact, e
<1>8. e <= exact
  <2>1. clamp(ps) + clamp(pr) \div NS \in Nat
    BY <1>6, <1>7
  <2>2. e \in Nat /\ e <= clamp(ps) + clamp(pr) \div NS
    BY <1>5, <2>1, ClampBounds DEF U64
  <2> QED BY <1>3, <1>4, <1>6, <1>7, <2>2
<1>9. ASSUME pr <= MaxU, exact <= MaxU PROVE e = exact
  <2>2. ps <= MaxU
    BY <1>1, <1>3, <1>4, <1>7, <1>9
  <2>3. clamp(pr) = pr /\ clamp(ps) = ps
    BY <1>1, <1>3, <1>9, <2>2 DEF clamp
  <2>4. e = clamp(exact)
    BY <1>4, <1>5, <2>3
  <2>5. exact \in Nat
    BY <1>3, <1>4, <1>7
  <2> QED BY <1>1, <1>9, <2>4, <2>5 DEF clamp
<1> QED BY <1>8, <1>9 DEF e, exact, pr, r

(***************************************************************************)
(* A counter's delta turned into power over dt and back into energy never  *)
(* gains, and without saturation loses less than 1 uJ plus 1 uJ per second *)
(* of the window.                                                          *)
(***************************************************************************)
LEMMA PowerAndBack ==
  ASSUME NEW d \in Nat, NEW dt \in Nat \ {0}
  PROVE  LET p == clamp((d * NS) \div dt)
             e == window_energy_uj(p, dt)
         IN  /\ p \in Nat /\ e \in Nat /\ e <= d
             /\ d * NS <= MaxU => (d - e) * NS < NS + dt
<1> DEFINE n == NS
           dn == d * n
           q == dn \div dt
           p == clamp(q)
           pt == p * dt
           e == window_energy_uj(p, dt)
           x == pt \div n
<1>1. n \in Nat \ {0} /\ dn \in Nat /\ MaxU \in Nat
  BY AttributionAssumption, MaxUAssumption DEF NS
<1>2. q \in Nat /\ q * dt <= dn /\ dn - q * dt < dt /\ q * dt \in Nat
  <2> HIDE DEF dn
  <2> QED BY <1>1, DivisionBounds
<1> HIDE DEF q
<1>3. p \in Nat /\ p <= q
  BY <1>2, ClampBounds DEF U64
<1>4. e \in Nat /\ e <= x /\ ((p * (dt % n) <= MaxU /\ x <= MaxU) => e = x)
  <2> HIDE DEF p
  <2>1. e \in U64 /\ dt \in Nat
    BY <1>3, WindowEnergyIsU64
  <2>2. e \in Nat
    BY <1>1, <2>1 DEF U64
  <2> QED BY <1>3, <2>1, <2>2, WindowEnergyBounds
<1> HIDE DEF p, e
<1>5. pt \in Nat /\ pt <= q * dt
  BY <1>2, <1>3, ProductGrows
<1>6. pt <= dn
  BY <1>1, <1>2, <1>5
<1> HIDE DEF pt
<1>7. x \in Nat /\ x * n <= pt /\ pt - x * n < n /\ x * n \in Nat
  BY <1>1, <1>5, DivisionBounds
<1> HIDE DEF x
<1>8. x <= d
  <2>1. x * n <= d * n
    BY <1>1, <1>5, <1>6, <1>7 DEF dn
  <2> HIDE DEF n
  <2> QED BY <1>1, <1>7, <2>1, FactorIsBounded
<1>9. e <= d
  BY <1>4, <1>7, <1>8
<1>10. ASSUME dn <= MaxU PROVE (d - e) * n < n + dt
  <2>1. q <= q * dt
    <3> HIDE DEF n, dn
    <3>1. q * 1 <= q * dt
      BY <1>2, ProductGrows
    <3> QED BY <1>2, <3>1
  <2>2. q <= MaxU
    BY <1>1, <1>2, <1>10, <2>1
  <2>3. p = q
    BY <1>1, <1>2, <2>2 DEF p, clamp
  <2>4. dt % n \in Nat /\ dt % n <= dt
    <3> DEFINE s == dt \div n
               r == dt % n
    <3>1. s \in Nat /\ r \in Nat /\ dt = s * n + r
      BY ONLY <1>1, dt \in Nat
    <3> HIDE DEF s, r, n
    <3>2. s * n \in Nat
      BY <1>1, <3>1
    <3>3. r <= dt
      BY <3>1, <3>2
    <3> QED BY <3>1, <3>3 DEF r
  <2>5. p * (dt % n) <= pt /\ p * (dt % n) \in Nat
    BY <1>3, <2>4, ProductGrows DEF pt
  <2>6. p * (dt % n) <= MaxU
    <3> DEFINE z == p * (dt % n)
    <3>1. z <= pt /\ z \in Nat
      BY <2>5
    <3> HIDE DEF z
    <3>2. z <= MaxU
      BY <1>1, <1>5, <1>6, <1>10, <3>1
    <3> QED BY <3>2 DEF z
  <2>7. x <= MaxU
    <3>1. d <= dn
      <4>1. d * 1 <= d * n
        <5> HIDE DEF n
        <5> QED BY <1>1, ProductGrows
      <4> QED BY <4>1
    <3> HIDE DEF dn
    <3> QED BY <1>1, <1>7, <1>8, <1>10, <3>1
  <2>8. e = x
    BY <1>4, <2>6, <2>7
  <2>9. pt = q * dt
    BY <2>3 DEF pt
  <2>10. (d - e) * n = dn - x * n
    <3>1. (d - x) * n = d * n - x * n
      <4> HIDE DEF n
      <4> QED BY <1>1, <1>7
    <3> QED BY <2>8, <3>1
  <2> DEFINE u == x * n
             w == q * dt
  <2>11. dn \in Nat /\ u \in Nat /\ w \in Nat /\ dn - w < dt /\ w - u < n
    BY <1>1, <1>2, <1>7, <2>9
  <2> HIDE DEF u, w, dn, n
  <2>12. dn - u < n + dt
    BY <1>1, <2>11
  <2> QED BY <2>10, <2>12 DEF u
<1> QED BY <1>3, <1>4, <1>9, <1>10 DEF p, e, q

\* the energy of power p over the time t, in whole micro-joules
EnergyOver(p, t) == (p * t) \div NS

(***************************************************************************)
(* The deterministic model gives a process the burst energy of its time,   *)
(* and of the busy time at most.                                           *)
(***************************************************************************)
LEMMA ModelBounds ==
  ASSUME NEW power \in Nat, NEW idle \in Nat, NEW s \in Nat, NEW t \in Nat,
         NEW burst, burst = IF power < idle THEN 0 ELSE power - idle
  PROVE  LET uj == deterministic_attribution_uj(power, idle, s, t)
         IN  /\ uj <= EnergyOver(burst, t)
             /\ (s <= t /\ EnergyOver(burst, s) <= MaxU) => uj = EnergyOver(burst, s)
<1> DEFINE proc == IF s < t THEN s ELSE t
           uj == deterministic_attribution_uj(power, idle, s, t)
<1>1. NS \in Nat \ {0} /\ s \in Nat /\ t \in Nat /\ MaxU \in Nat
  BY AttributionAssumption, MaxUAssumption DEF NS, U64
<1>2. burst \in Nat
  BY MaxUAssumption DEF U64
<1>3. proc \in Nat /\ proc <= t /\ (s <= t => proc = s)
  BY <1>1
<1>4. uj = IF t = 0 THEN 0 ELSE clamp((burst * proc) \div NS)
  BY DEF deterministic_attribution_uj, saturating_sub
<1> HIDE DEF proc, uj
<1>5. burst * proc \in Nat /\ burst * t \in Nat /\ burst * proc <= burst * t
  BY <1>1, <1>2, <1>3, ProductGrows
<1>6. /\ (burst * proc) \div NS \in Nat /\ (burst * t) \div NS \in Nat
      /\ (burst * proc) \div NS <= (burst * t) \div NS
  BY <1>1, <1>5, QuotientGrows, DivisionBounds
<1>7. clamp((burst * proc) \div NS) \in Nat /\ clamp((burst * proc) \div NS) <= (burst * proc) \div NS
  BY <1>6, ClampBounds DEF U64
<1>8. uj <= (burst * t) \div NS
  BY <1>4, <1>6, <1>7
<1>9. ASSUME s <= t, (burst * s) \div NS <= MaxU PROVE uj = (burst * s) \div NS
  <2>1. proc = s
    BY <1>3, <1>9
  <2>2. CASE t = 0
    <3>1. s = 0 /\ uj = 0
      BY <1>1, <1>4, <1>9, <2>2
    <3>2. burst * 0 = 0 /\ 0 \div NS = 0
      BY <1>1, <1>2
    <3> QED BY <3>1, <3>2
  <2>3. CASE t # 0
    BY <1>1, <1>4, <1>6, <1>9, <2>1, <2>3 DEF clamp
  <2> QED BY <2>2, <2>3
<1> QED BY <1>8, <1>9 DEF uj, EnergyOver

(***************************************************************************)
(* The split of a tick owes exactly its delta: equal shares plus a         *)
(* remainder smaller than the number of PIDs.                              *)
(***************************************************************************)
LEMMA SplitOwesDelta ==
  ASSUME NEW pids \in Seq(Pids), NEW d \in U64
  PROVE  /\ Split(pids, d).todo \in Seq(Buckets)
         /\ Split(pids, d).share \in U64
         /\ Split(pids, d).remainder \in U64
         /\ Split(pids, d).remainder <= Len(Split(pids, d).todo)
         /\ Split(pids, d).share * Len(Split(pids, d).todo) + Split(pids, d).remainder = d
<1>0. d \in Nat /\ d <= MaxU /\ MaxU \in Nat
  BY MaxUAssumption DEF U64
<1>1. CASE pids = <<>>
  <2>1. Split(pids, d) = [todo |-> <<SystemPid>>, share |-> d, remainder |-> 0]
    BY <1>1 DEF Split
  <2>2. <<SystemPid>> \in Seq(Buckets) /\ Len(<<SystemPid>>) = 1
    BY DEF Buckets
  <2> QED BY <1>0, <2>1, <2>2 DEF U64
<1>2. CASE pids # <<>>
  <2> DEFINE n == Len(pids)
             q == d \div n
             r == d - saturating_mul(q, n)
  <2>1. n \in Nat \ {0}
    BY <1>2
  <2>2. q \in Nat /\ q * n <= d /\ d - q * n < n
    BY <1>0, <2>1, DivisionBounds
  <2>3. q * n \in Nat
    BY <2>1, <2>2
  <2>4. saturating_mul(q, n) = q * n
    BY <1>0, <2>2, <2>3 DEF saturating_mul, clamp
  <2>5. q <= d
    BY <1>0, <2>1, <2>2
  <2>6. Split(pids, d) = [todo |-> pids, share |-> q, remainder |-> r]
    BY <1>2 DEF Split
  <2>7. pids \in Seq(Buckets)
    BY DEF Buckets
  <2>8. r = d - q * n /\ Len(pids) = n
    BY <2>4
  <2> HIDE DEF q, n, r
  <2>9. q \in U64 /\ r \in U64 /\ r <= n /\ q * n + r = d
    BY <1>0, <2>1, <2>2, <2>3, <2>5, <2>8 DEF U64
  <2>10. Split(pids, d).todo = pids /\ Split(pids, d).share = q /\ Split(pids, d).remainder = r
    BY <2>6
  <2> QED BY <2>7, <2>8, <2>9, <2>10
<1> QED BY <1>1, <1>2

-------------------------------------------------------------------------------
(* One step of the loop *)

\* what the tick under way still has to hand over
Owed == IF pc = "credit" THEN share * Len(todo) + remainder ELSE 0

LoopOK == LoopTypeOK /\ (pc = "credit" => remainder <= Len(todo))

(***************************************************************************)
(* What is owed is a natural number.                                       *)
(***************************************************************************)
LEMMA OwedType == ASSUME LoopOK PROVE Owed \in Nat
<1>1. share \in Nat /\ remainder \in Nat /\ Len(todo) \in Nat
  BY MaxUAssumption DEF LoopOK, LoopTypeOK, U64
<1>2. share * Len(todo) \in Nat
  BY <1>1
<1> QED BY <1>1, <1>2 DEF Owed

(***************************************************************************)
(* And so it is after a step.                                              *)
(***************************************************************************)
LEMMA OwedTypeNext == LoopOK' => (Owed \in Nat)'
<1>1. LoopOK => Owed \in Nat
  BY OwedType
<1> QED BY <1>1, PTL

(***************************************************************************)
(* A sample that arrives opens a tick that owes the burst energy of the    *)
(* window, or only becomes the previous snapshot.                          *)
(***************************************************************************)
LEMMA TickOkStep ==
  ASSUME LoopOK, NEW t \in U64, NEW active \in Nat, NEW idle \in Nat, NEW pids \in Seq(Pids),
         TickOk(t, active, idle, pids)
  PROVE  /\ LoopOK' /\ pc = "await" /\ Owed = 0
         /\ prev' = t /\ UNCHANGED <<energy, cumulative, handed, start>>
         /\ prev = NoSnapshot => pc' = "await" /\ Owed' = 0 /\ delta' = delta
         /\ prev # NoSnapshot =>
              /\ pc' = "credit" /\ Owed' = delta' /\ prev \in U64
              /\ delta' = burst_energy_uj(active, idle, saturating_sub(t, prev))
              /\ todo' = IF pids = <<>> THEN <<SystemPid>> ELSE pids
<1> DEFINE dt == saturating_sub(t, prev)
           d == burst_energy_uj(active, idle, dt)
           split == Split(pids, d)
<1>1. /\ pc = "await" /\ Owed = 0
      /\ prev' = t /\ UNCHANGED <<energy, cumulative, handed, start>>
  BY DEF TickOk, Owed
<1>2. CASE prev = NoSnapshot
  <2>1. UNCHANGED <<pc, delta, todo, share, remainder>>
    BY <1>2 DEF TickOk
  <2> QED BY <1>1, <1>2, <2>1 DEF LoopOK, LoopTypeOK, Owed
<1>3. CASE prev # NoSnapshot
  <2>1. prev \in U64 /\ dt \in Nat
    BY <1>3, MaxUAssumption DEF LoopOK, LoopTypeOK, saturating_sub, U64
  <2>2. d \in U64
    BY <2>1, BurstEnergyIsU64
  <2>3. /\ pc' = "credit" /\ delta' = d /\ todo' = split.todo
        /\ share' = split.share /\ remainder' = split.remainder
    BY <1>3 DEF TickOk
  <2>4. split.todo = IF pids = <<>> THEN <<SystemPid>> ELSE pids
    BY DEF Split
  <2> HIDE DEF d
  <2>5. /\ todo' \in Seq(Buckets) /\ share' \in U64 /\ remainder' \in U64
        /\ remainder' <= Len(todo') /\ share' * Len(todo') + remainder' = d
    BY <2>2, <2>3, SplitOwesDelta
  <2>6. LoopOK'
    BY <1>1, <2>2, <2>3, <2>5 DEF LoopOK, LoopTypeOK
  <2>7. Owed' = delta'
    BY <2>3, <2>5 DEF Owed
  <2> QED BY <1>1, <1>3, <2>1, <2>3, <2>4, <2>6, <2>7 DEF d
<1> QED BY <1>2, <1>3

(***************************************************************************)
(* Crediting a PID hands over what the tick owes less of afterwards, and   *)
(* the cell of the PID grows by it unless it saturates.                    *)
(***************************************************************************)
LEMMA CreditStep ==
  ASSUME LoopOK, Credit
  PROVE  /\ LoopOK' /\ pc = "credit" /\ pc' = "credit"
         /\ UNCHANGED <<prev, cumulative, delta, share, start>>
         /\ todo # <<>> /\ todo' = Tail(todo)
         /\ handed' \in Nat /\ handed <= handed' /\ handed' + Owed' = handed + Owed
         /\ SumOf(energy, Buckets) \in Nat /\ SumOf(energy', Buckets) \in Nat
         /\ SumOf(energy', Buckets) <= SumOf(energy, Buckets) + (handed' - handed)
         /\ SumOf(energy, Buckets) + (handed' - handed) <= MaxU =>
              SumOf(energy', Buckets) = SumOf(energy, Buckets) + (handed' - handed)
<1> USE MaxUAssumption
<1> DEFINE extra == IF remainder > 0 THEN 1 ELSE 0
           uj == share + extra
           n == Len(todo)
           b == Head(todo)
<1>0. /\ energy \in [Buckets -> U64] /\ cumulative \in Nat /\ delta \in Nat
      /\ share \in Nat /\ remainder \in Nat /\ todo \in Seq(Buckets)
      /\ handed \in Nat
  BY DEF LoopOK, LoopTypeOK, U64
<1>1. /\ pc = "credit" /\ todo # <<>> /\ todo' = Tail(todo)
      /\ remainder' = remainder - extra /\ handed' = handed + uj
      /\ energy' = [energy EXCEPT ![b] = clamp(energy[b] + uj)]
      /\ UNCHANGED <<pc, prev, cumulative, delta, share, start>>
  BY DEF Credit, saturating_add
<1>2. /\ extra \in Nat /\ uj \in Nat /\ remainder - extra \in Nat
      /\ n \in Nat \ {0} /\ Len(Tail(todo)) = n - 1
      /\ b \in Buckets /\ Tail(todo) \in Seq(Buckets)
  BY <1>0, <1>1
<1>3. remainder - extra <= n - 1
  BY <1>0, <1>1, <1>2 DEF LoopOK
<1>4. energy[b] \in Nat /\ energy[b] <= MaxU
  BY <1>0, <1>2 DEF U64
<1>5. clamp(energy[b] + uj) \in U64 /\ clamp(energy[b] + uj) <= energy[b] + uj
      /\ clamp(energy[b] + uj) \in Nat
  <2>1. energy[b] + uj \in Nat
    BY <1>2, <1>4
  <2> QED BY <2>1, ClampBounds DEF U64
<1>6. LoopOK'
  <2>1. energy' \in [Buckets -> U64]
    BY <1>0, <1>1, <1>5
  <2> QED BY <1>0, <1>1, <1>2, <1>3, <2>1 DEF LoopOK, LoopTypeOK, U64
<1>7. handed' + Owed' = handed + Owed
  <2>1. Owed = share * n + remainder /\ Owed' = share * (n - 1) + (remainder - extra)
    BY <1>1, <1>2 DEF Owed
  <2>2. share * n = share * (n - 1) + share /\ share * (n - 1) \in Nat
    BY <1>0, <1>2
  <2> HIDE DEF n, extra
  <2> QED BY <1>0, <1>1, <1>2, <2>1, <2>2
<1> HIDE DEF uj, b
<1>8. /\ energy'[b] = clamp(energy[b] + uj)
      /\ \A p \in Buckets \ {b} : energy'[p] = energy[p]
      /\ \A p \in Buckets : energy[p] \in Nat /\ energy'[p] \in Nat
  <2>1. energy'[b] = clamp(energy[b] + uj) /\ \A p \in Buckets \ {b} : energy'[p] = energy[p]
    BY <1>0, <1>1, <1>2
  <2>2. \A p \in Buckets : energy[p] \in Nat
    BY <1>0 DEF U64
  <2> QED BY <1>5, <2>1, <2>2
<1>9. IsFiniteSet(Buckets)
  BY PidsAssumption, FS_AddElement DEF Buckets
<1> DEFINE old == SumOf(energy, Buckets)
           new == SumOf(energy', Buckets)
<1>10. old \in Nat /\ new \in Nat /\ energy[b] <= old /\ new = (old - energy[b]) + energy'[b]
  <2> DEFINE f == energy
             g == energy'
  <2>1. b \in Buckets /\ \A p \in Buckets \ {b} : g[p] = f[p]
    BY <1>2, <1>8
  <2>2. \A p \in Buckets : f[p] \in Nat /\ g[p] \in Nat
    BY <1>8
  <2> HIDE DEF f, g
  <2>3. /\ SumOf(f, Buckets) \in Nat /\ SumOf(g, Buckets) \in Nat /\ f[b] <= SumOf(f, Buckets)
        /\ SumOf(g, Buckets) = (SumOf(f, Buckets) - f[b]) + g[b]
    BY ONLY <1>9, <2>1, <2>2, SumChange
  <2> QED BY <2>3 DEF f, g
<1> HIDE DEF old, new
<1>11. handed' - handed = uj
  BY <1>0, <1>1, <1>2
<1>12. new <= old + uj
  BY <1>2, <1>4, <1>5, <1>8, <1>10
<1>13. old + uj <= MaxU => new = old + uj
  <2> SUFFICES ASSUME old + uj <= MaxU PROVE new = old + uj
    OBVIOUS
  <2>1. energy[b] + uj <= MaxU /\ energy[b] + uj \in Nat
    BY ONLY <1>2, <1>4, <1>10, old + uj <= MaxU, MaxUAssumption
  <2>2. energy'[b] = energy[b] + uj
    BY <1>8, <2>1 DEF clamp
  <2> QED BY <1>2, <1>4, <1>10, <2>2
<1>14. handed' \in Nat /\ handed <= handed'
  BY <1>0, <1>1, <1>2
<1> QED BY <1>1, <1>6, <1>7, <1>10, <1>11, <1>12, <1>13, <1>14 DEF old, new

(***************************************************************************)
(* The heartbeat closes a tick that owes nothing any more.                 *)
(***************************************************************************)
LEMMA HeartbeatStep ==
  ASSUME LoopOK, Heartbeat
  PROVE  /\ LoopOK' /\ pc = "credit" /\ pc' = "await" /\ Owed = 0 /\ Owed' = 0
         /\ UNCHANGED <<energy, prev, delta, handed, start>>
         /\ cumulative' = clamp(cumulative + delta)
<1>1. /\ pc = "credit" /\ todo = <<>> /\ pc' = "await"
      /\ cumulative' = clamp(cumulative + delta)
      /\ UNCHANGED <<energy, prev, delta, todo, share, remainder, handed, start>>
  BY DEF Heartbeat, saturating_add
<1>2. Len(todo) = 0 /\ remainder = 0 /\ share \in Nat
  BY <1>1, MaxUAssumption DEF LoopOK, LoopTypeOK, U64
<1>3. share * 0 + 0 = 0
  BY <1>2
<1>4. Owed = 0 /\ Owed' = 0
  BY <1>1, <1>2, <1>3 DEF Owed
<1>5. cumulative + delta \in Nat
  BY MaxUAssumption DEF LoopOK, LoopTypeOK, U64
<1>6. cumulative' \in U64
  BY <1>1, <1>5, ClampBounds
<1> QED BY <1>1, <1>4, <1>6 DEF LoopOK, LoopTypeOK

(***************************************************************************)
(* Starting and dropping a loop and a failed sample move no energy.        *)
(***************************************************************************)
LEMMA ControlStep ==
  ASSUME LoopOK, StartLoop \/ DropLoop \/ TickErr
  PROVE  /\ LoopOK' /\ Owed = 0 /\ Owed' = 0 /\ pc # "credit" /\ pc' # "credit"
         /\ UNCHANGED <<energy, handed, delta>>
<1>1. /\ pc # "credit" /\ pc' \in {"main", "await"}
      /\ prev' = prev \/ prev' = NoSnapshot
      /\ cumulative' = cumulative \/ cumulative' = 0
      /\ start' = start \/ start' = handed
      /\ UNCHANGED <<energy, delta, todo, share, remainder, handed>>
  BY DEF StartLoop, DropLoop, TickErr
<1>2. 0 \in U64
  BY MaxUAssumption DEF U64
<1>3. LoopOK'
  BY <1>1, <1>2 DEF LoopOK, LoopTypeOK
<1>4. Owed = 0 /\ Owed' = 0
  BY <1>1 DEF Owed
<1> QED BY <1>1, <1>3, <1>4

(***************************************************************************)
(* The loop starts out well.                                               *)
(***************************************************************************)
LEMMA LoopStart ==
  ASSUME LoopInit
  PROVE  LoopOK /\ Owed = 0 /\ SumOf(energy, Buckets) = 0
<1>1. 0 \in U64 /\ <<>> \in Seq(Buckets)
  BY MaxUAssumption DEF U64
<1>2. LoopOK /\ Owed = 0
  BY <1>1 DEF LoopInit, LoopOK, LoopTypeOK, Owed
<1>3. IsFiniteSet(Buckets)
  BY PidsAssumption, FS_AddElement DEF Buckets
<1>4. \A p \in Buckets : energy[p] = 0
  BY DEF LoopInit
<1> QED BY <1>2, <1>3, <1>4, SumZero


-------------------------------------------------------------------------------
(* The pending queue *)

Attributions == [pid : Buckets, uj : U64]

\* the uJ of the attributions of a list, by position
UjsOf(list) == [i \in DOMAIN list |-> list[i].uj]

(***************************************************************************)
(* The sums the queue is defined with are sums of that function.           *)
(***************************************************************************)
LEMMA UjSumIs ==
  ASSUME NEW list, NEW S \in SUBSET DOMAIN list
  PROVE  MapThenSumSet(LAMBDA i : list[i].uj, S) = SumOf(UjsOf(list), S)
<1> DEFINE h == UjsOf(list)
           Eq(g) == g = [s \in SUBSET S |-> IF s = {} THEN 0
                                             ELSE list[AnyOf(s)].uj + g[s \ {AnyOf(s)}]]
<1>1. MapThenSumSet(LAMBDA i : list[i].uj, S) = (CHOOSE g : Eq(g))[S]
  BY DEF MapThenSumSet, MapThenFoldSet, AnyOf
<1>2. ASSUME NEW g PROVE Eq(g) <=> IsFold(h, g, S)
  <2>1. \A s \in SUBSET S : s # {} => h[AnyOf(s)] = list[AnyOf(s)].uj
    BY DEF AnyOf, UjsOf
  <2>2. \A s \in SUBSET S : FoldStep(h, g, s) = IF s = {} THEN 0
                                             ELSE list[AnyOf(s)].uj + g[s \ {AnyOf(s)}]
    BY <2>1 DEF FoldStep
  <2> HIDE DEF h
  <2>3. [s \in SUBSET S |-> FoldStep(h, g, s)]
          = [s \in SUBSET S |-> IF s = {} THEN 0 ELSE list[AnyOf(s)].uj + g[s \ {AnyOf(s)}]]
    BY <2>2
  <2> QED BY <2>3 DEF IsFold
<1> HIDE DEF Eq
<1>3. (CHOOSE g : Eq(g)) = (CHOOSE g : IsFold(h, g, S))
  BY <1>2
<1> QED BY <1>1, <1>3, SumIsFold

(***************************************************************************)
(* The positions of a list are finitely many and its uJ are naturals.      *)
(***************************************************************************)
LEMMA ListFacts ==
  ASSUME NEW list \in Seq(Attributions)
  PROVE  /\ DOMAIN list = 1 .. Len(list) /\ Len(list) \in Nat
         /\ IsFiniteSet(DOMAIN list)
         /\ \A i \in DOMAIN list : UjsOf(list)[i] \in Nat /\ UjsOf(list)[i] = list[i].uj
         /\ \A i \in DOMAIN list : list[i].pid \in Buckets
         /\ SumUj(list) = SumOf(UjsOf(list), DOMAIN list)
         /\ SumUj(list) \in Nat
<1>1. DOMAIN list = 1 .. Len(list) /\ Len(list) \in Nat
  OBVIOUS
<1>2. IsFiniteSet(DOMAIN list)
  BY <1>1, FS_Interval
<1>3. \A i \in DOMAIN list : list[i] \in Attributions
  OBVIOUS
<1>4. \A i \in DOMAIN list : list[i].pid \in Buckets /\ list[i].uj \in Nat
  BY <1>3, MaxUAssumption DEF Attributions, U64
<1>5. \A i \in DOMAIN list : UjsOf(list)[i] \in Nat /\ UjsOf(list)[i] = list[i].uj
  BY <1>4 DEF UjsOf
<1>6. SumUj(list) = SumOf(UjsOf(list), DOMAIN list)
  BY UjSumIs DEF SumUj
<1>7. SumOf(UjsOf(list), DOMAIN list) \in Nat
  BY <1>2, <1>5, SumType
<1> QED BY <1>1, <1>2, <1>4, <1>5, <1>6, <1>7

(***************************************************************************)
(* An empty list holds nothing.                                            *)
(***************************************************************************)
LEMMA SumUjEmpty == SumUj(<<>>) = 0
<1>1. DOMAIN << >> = {}
  OBVIOUS
<1>2. SumUj(<<>>) = SumOf(UjsOf(<<>>), {})
  BY <1>1, UjSumIs DEF SumUj
<1> QED BY <1>2, SumUnfolds, FS_EmptySet

(***************************************************************************)
(* A push adds what it pushes.                                             *)
(***************************************************************************)
LEMMA SumUjAppend ==
  ASSUME NEW list \in Seq(Attributions), NEW r \in Attributions
  PROVE  /\ Append(list, r) \in Seq(Attributions)
         /\ SumUj(Append(list, r)) = SumUj(list) + r.uj
<1> DEFINE both == Append(list, r)
           n == Len(list) + 1
           f == UjsOf(list)
           g == UjsOf(both)
<1>1. /\ both \in Seq(Attributions) /\ Len(both) = n /\ n \in Nat
      /\ both[n] = r /\ \A i \in 1 .. Len(list) : both[i] = list[i]
  OBVIOUS
<1>2. /\ DOMAIN list = 1 .. Len(list) /\ IsFiniteSet(DOMAIN list) /\ Len(list) \in Nat
      /\ \A i \in DOMAIN list : f[i] \in Nat /\ f[i] = list[i].uj
      /\ SumUj(list) = SumOf(f, DOMAIN list) /\ SumUj(list) \in Nat
  BY ListFacts
<1> HIDE DEF both
<1>3. /\ DOMAIN both = 1 .. n /\ IsFiniteSet(DOMAIN both)
      /\ \A i \in DOMAIN both : g[i] \in Nat /\ g[i] = both[i].uj
      /\ SumUj(both) = SumOf(g, DOMAIN both)
  BY <1>1, ListFacts
<1> HIDE DEF f, g
<1>4. DOMAIN both = (DOMAIN list) \cup {n} /\ n \notin DOMAIN list
  BY <1>1, <1>2, <1>3
<1> HIDE DEF n
<1>5. g[n] = r.uj /\ r.uj \in Nat
  BY <1>1, <1>3, <1>4, MaxUAssumption DEF Attributions, U64
<1>6. \A i \in DOMAIN list : f[i] \in Nat /\ g[i] = f[i]
  BY <1>1, <1>2, <1>3, <1>4
<1>7. SumOf(g, (DOMAIN list) \cup {n}) = SumOf(f, DOMAIN list) + g[n]
  <2> DEFINE S == DOMAIN list
  <2>1. IsFiniteSet(S) /\ n \notin S /\ g[n] \in Nat /\ \A i \in S : f[i] \in Nat /\ g[i] = f[i]
    BY <1>2, <1>4, <1>5, <1>6
  <2> HIDE DEF S
  <2>2. SumOf(g, S \cup {n}) = SumOf(f, S) + g[n]
    BY ONLY <2>1, SumExtend
  <2> QED BY <2>2 DEF S
<1> QED BY <1>1, <1>2, <1>3, <1>4, <1>5, <1>7 DEF both

(***************************************************************************)
(* Draining a list into the registry moves its uJ, all of them unless a    *)
(* cell saturates.                                                         *)
(***************************************************************************)
LEMMA AddAllStep ==
  ASSUME energy \in [Buckets -> U64], NEW list \in Seq(Attributions), AddAll(list)
  PROVE  /\ energy' \in [Buckets -> U64]
         /\ SumOf(energy, Buckets) + SumUj(list) <= MaxU =>
              SumOf(energy', Buckets) = SumOf(energy, Buckets) + SumUj(list)
<1> DEFINE e == energy
           new == energy'
           f == UjsOf(list)
           key == [i \in DOMAIN list |-> list[i].pid]
           g == [p \in Buckets |-> SumOf(f, {i \in DOMAIN list : key[i] = p})]
           h == [p \in Buckets |-> e[p] + g[p]]
<1>1. IsFiniteSet(Buckets)
  BY PidsAssumption, FS_AddElement DEF Buckets
<1>2. /\ IsFiniteSet(DOMAIN list) /\ \A i \in DOMAIN list : f[i] \in Nat /\ f[i] = list[i].uj
      /\ \A i \in DOMAIN list : list[i].pid \in Buckets
      /\ SumUj(list) = SumOf(f, DOMAIN list) /\ SumUj(list) \in Nat
  BY ListFacts
<1>3. \A i \in DOMAIN list : key[i] \in Buckets /\ key[i] = list[i].pid
  BY <1>2
<1>4. \A p \in Buckets : SumUjOf(list, p) = SumOf(f, {i \in DOMAIN list : list[i].pid = p})
  BY UjSumIs DEF SumUjOf
<1> HIDE DEF f, key
<1>5. SumOf(g, Buckets) = SumUj(list)
  BY ONLY <1>1, <1>2, <1>3, SumPartition, SMTT(30)
<1>6. \A p \in Buckets : g[p] = SumUjOf(list, p)
  <2>1. \A p \in Buckets : {i \in DOMAIN list : key[i] = p} = {i \in DOMAIN list : list[i].pid = p}
    BY <1>3
  <2> QED BY <1>4, <2>1
<1>7. \A p \in Buckets : g[p] \in Nat
  <2> TAKE p \in Buckets
  <2> DEFINE D == {i \in DOMAIN list : key[i] = p}
  <2>1. IsFiniteSet(D)
    BY <1>2, FS_Subset
  <2>2. SumOf(f, D) \in Nat
    BY <1>2, <2>1, SumType
  <2> QED BY <2>2
<1>8. \A p \in Buckets : e[p] \in Nat
  BY MaxUAssumption DEF U64
<1> HIDE DEF g
<1>9. \A p \in Buckets : e[p] \in Nat /\ g[p] \in Nat /\ h[p] = e[p] + g[p]
  BY <1>7, <1>8
<1>10. \A p \in Buckets : h[p] \in Nat
  BY <1>9
<1>11. new = [p \in Buckets |-> clamp(h[p])]
  BY <1>6 DEF AddAll
<1> HIDE DEF e, h
<1>12. SumOf(h, Buckets) = SumOf(e, Buckets) + SumUj(list)
  BY <1>1, <1>5, <1>9, SumPlus
<1>13. new \in [Buckets -> U64]
  BY <1>10, <1>11, ClampBounds
<1>14. ASSUME SumOf(e, Buckets) + SumUj(list) <= MaxU
       PROVE  SumOf(new, Buckets) = SumOf(h, Buckets)
  <2>1. SumOf(h, Buckets) \in Nat /\ SumOf(h, Buckets) <= MaxU
    BY <1>1, <1>10, <1>12, <1>14, SumType
  <2>2. \A p \in Buckets : h[p] <= SumOf(h, Buckets)
    BY <1>1, <1>10, SumTerm
  <2>3. \A p \in Buckets : h[p] <= MaxU
    BY <1>10, <2>1, <2>2, MaxUAssumption
  <2>4. \A p \in Buckets : h[p] \in Nat /\ new[p] = h[p]
    BY <1>10, <1>11, <2>3, MaxUAssumption DEF clamp
  <2> HIDE DEF new
  <2> QED BY <1>1, <2>4, SumSame
<1> QED BY <1>12, <1>13, <1>14 DEF e

(***************************************************************************)
(* What the registry and the queue hold together is what the loops handed  *)
(* over, what was enqueued and x more, up to y of which may be missing, as *)
(* long as all of it is at most z.                                         *)
(***************************************************************************)
Within(x, y, z) ==
  LET sure == handed + enqueued + x
      held == SumOf(energy, Buckets) + SumUj(pending)
  IN  sure + y <= z => sure <= held /\ held <= sure + y

(***************************************************************************)
(* The sums are naturals.                                                  *)
(***************************************************************************)
LEMMA HeldType ==
  ASSUME LoopOK, QueueTypeOK
  PROVE  /\ SumOf(energy, Buckets) \in Nat /\ SumUj(pending) \in Nat
         /\ pending \in Seq(Attributions) /\ enqueued \in Nat /\ synced \in Nat
         /\ handed \in Nat /\ energy \in [Buckets -> U64]
<1>1. /\ pending \in Seq(Attributions) /\ enqueued \in Nat /\ synced \in Nat
      /\ handed \in Nat /\ energy \in [Buckets -> U64]
  BY DEF QueueTypeOK, Attributions, LoopOK, LoopTypeOK
<1>2. IsFiniteSet(Buckets) /\ \A q \in Buckets : energy[q] \in Nat
  BY <1>1, PidsAssumption, FS_AddElement, MaxUAssumption DEF Buckets, U64
<1> QED BY <1>1, <1>2, SumType, ListFacts

(***************************************************************************)
(* With nothing more and nothing missing, every attribution arrives once.  *)
(***************************************************************************)
LEMMA ArrivedIs ==
  ASSUME LoopOK, QueueTypeOK, Within(0, 0, MaxU)
  PROVE  EveryAttributionArrivesOnce
<1> DEFINE held == SumOf(energy, Buckets)
           wait == SumUj(pending)
<1>1. held \in Nat /\ wait \in Nat /\ handed \in Nat /\ enqueued \in Nat
  BY HeldType
<1>2. handed + enqueued + 0 + 0 <= MaxU =>
        handed + enqueued + 0 <= held + wait /\ held + wait <= handed + enqueued + 0 + 0
  BY DEF Within
<1> HIDE DEF held, wait
<1>3. handed + enqueued <= MaxU => held + wait = handed + enqueued
  BY <1>1, <1>2, MaxUAssumption
<1> QED BY <1>3 DEF EveryAttributionArrivesOnce, SumOf, held, wait

(***************************************************************************)
(* Nothing is claimed of sums above the bound.                             *)
(***************************************************************************)
LEMMA NothingClaimed == ASSUME LoopOK, QueueTypeOK PROVE Within(1, 0, 0)
  BY HeldType DEF Within

(***************************************************************************)
(* A push, whoever makes it, adds its uJ to what waits.                    *)
(***************************************************************************)
LEMMA PushStep ==
  ASSUME LoopOK, QueueTypeOK, NEW x \in Nat, NEW y \in Nat, NEW z \in Nat, Within(x, y, z),
         NEW p \in Buckets, NEW uj \in U64, Push(p, uj), UNCHANGED loopVars
  PROVE  QueueTypeOK' /\ Within(x, y, z)'
<1> DEFINE r == [pid |-> p, uj |-> uj]
           held == SumOf(energy, Buckets)
           wait == SumUj(pending)
           more == SumUj(pending')
<1>1. /\ pending \in Seq(Attributions) /\ enqueued \in Nat /\ synced \in Nat
      /\ wait \in Nat /\ held \in Nat /\ handed \in Nat
  BY HeldType
<1>2. /\ pending' = Append(pending, r) /\ enqueued' = enqueued + uj /\ synced' = synced
      /\ energy' = energy /\ handed' = handed
  BY DEF Push, loopVars
<1>3. r \in Attributions /\ r.uj = uj /\ uj \in Nat
  BY MaxUAssumption DEF Attributions, U64
<1>4. Append(pending, r) \in Seq(Attributions) /\ SumUj(Append(pending, r)) = wait + r.uj
  BY <1>1, <1>3, SumUjAppend
<1>5. QueueTypeOK'
  BY <1>1, <1>2, <1>3, <1>4 DEF QueueTypeOK, Attributions
<1>6. more = wait + uj
  BY <1>2, <1>3, <1>4
<1>7. handed + enqueued + x + y <= z =>
        handed + enqueued + x <= held + wait /\ held + wait <= handed + enqueued + x + y
  BY DEF Within
<1> HIDE DEF held, wait, more, r
<1>8. handed + (enqueued + uj) + x + y <= z =>
        /\ handed + (enqueued + uj) + x <= held + more
        /\ held + more <= handed + (enqueued + uj) + x + y
  BY <1>1, <1>3, <1>6, <1>7
<1>9. Within(x, y, z)'
  BY <1>2, <1>8 DEF Within, held, more
<1> QED BY <1>5, <1>9

(***************************************************************************)
(* sync_registry moves what waits into the registry.                       *)
(***************************************************************************)
LEMMA SyncStep ==
  ASSUME LoopOK, QueueTypeOK, NEW x \in Nat, NEW y \in Nat, NEW z \in Nat, z <= MaxU,
         Within(x, y, z), sync_registry
  PROVE  LoopOK' /\ QueueTypeOK' /\ Within(x, y, z)'
<1> DEFINE held == SumOf(energy, Buckets)
           new == SumOf(energy', Buckets)
           wait == SumUj(pending)
<1>1. /\ pending \in Seq(Attributions) /\ enqueued \in Nat /\ synced \in Nat
      /\ handed \in Nat /\ energy \in [Buckets -> U64] /\ held \in Nat /\ wait \in Nat
  BY HeldType
<1>2. /\ AddAll(pending) /\ pending' = <<>> /\ synced' = synced + clamp(wait)
      /\ UNCHANGED <<enqueued, pc, prev, cumulative, delta, todo, share,
                     remainder, handed, start>>
  BY DEF sync_registry
<1>3. energy' \in [Buckets -> U64] /\ (held + wait <= MaxU => new = held + wait)
  BY <1>1, <1>2, AddAllStep
<1>5. LoopOK'
  BY <1>2, <1>3 DEF LoopOK, LoopTypeOK
<1>6. QueueTypeOK'
  <2>1. clamp(wait) \in Nat
    BY <1>1, ClampBounds DEF U64
  <2> QED BY <1>1, <1>2, <2>1 DEF QueueTypeOK
<1>7. handed + enqueued + x + y <= z =>
        handed + enqueued + x <= held + wait /\ held + wait <= handed + enqueued + x + y
  BY DEF Within
<1>8. SumUj(pending') = 0
  BY <1>2, SumUjEmpty
<1> HIDE DEF held, new, wait
<1>9. handed + enqueued + x + y <= z =>
        handed + enqueued + x <= new + 0 /\ new + 0 <= handed + enqueued + x + y
  BY <1>1, <1>3, <1>7, MaxUAssumption
<1>10. Within(x, y, z)'
  BY <1>2, <1>8, <1>9 DEF Within, new
<1> QED BY <1>5, <1>6, <1>10

(***************************************************************************)
(* A credit of the loop adds to the registry what it adds to handed.       *)
(***************************************************************************)
LEMMA CreditArrives ==
  ASSUME LoopOK, QueueTypeOK, NEW x \in Nat, NEW y \in Nat, NEW z \in Nat, z <= MaxU,
         Within(x, y, z), Credit, UNCHANGED queueVars
  PROVE  QueueTypeOK' /\ Within(x, y, z)'
<1> DEFINE held == SumOf(energy, Buckets)
           new == SumOf(energy', Buckets)
           wait == SumUj(pending)
           h == handed'
<1>1. pending \in Seq(Attributions) /\ enqueued \in Nat /\ handed \in Nat /\ wait \in Nat
  BY HeldType
<1>2. h \in Nat /\ handed <= h
  BY CreditStep
<1>3. held \in Nat /\ (held + (h - handed) <= MaxU => new = held + (h - handed))
  BY CreditStep
<1>5. UNCHANGED <<pending, enqueued, synced>>
  BY DEF queueVars
<1>6. handed + enqueued + x + y <= z =>
        handed + enqueued + x <= held + wait /\ held + wait <= handed + enqueued + x + y
  BY DEF Within
<1> HIDE DEF held, new, wait, h
<1>7. h + enqueued + x + y <= z =>
        h + enqueued + x <= new + wait /\ new + wait <= h + enqueued + x + y
  BY <1>1, <1>2, <1>3, <1>6, MaxUAssumption
<1>8. Within(x, y, z)'
  BY <1>5, <1>7 DEF Within, new, wait, h
<1> QED BY <1>5, <1>8 DEF QueueTypeOK

(***************************************************************************)
(* Steps that leave the registry and the queue alone keep the balance.     *)
(***************************************************************************)
LEMMA QueueKept ==
  ASSUME QueueTypeOK, NEW x, NEW y, NEW z, Within(x, y, z),
         UNCHANGED <<energy, handed, queueVars>>
  PROVE  QueueTypeOK' /\ Within(x, y, z)'
  BY DEF queueVars, QueueTypeOK, Within

(***************************************************************************)
(* The queue starts out empty.                                             *)
(***************************************************************************)
LEMMA QueueStart ==
  ASSUME LoopInit, QueueInit, NEW z
  PROVE  QueueTypeOK /\ Within(0, 0, z)
<1>1. SumOf(energy, Buckets) = 0 /\ handed = 0
  BY LoopStart DEF LoopInit
<1>2. SumUj(pending) = 0
  BY SumUjEmpty DEF QueueInit
<1>3. QueueTypeOK
  BY DEF QueueInit, QueueTypeOK
<1>4. Within(0, 0, z)
  BY <1>1, <1>2 DEF QueueInit, Within
<1> QED BY <1>3, <1>4
===============================================================================
