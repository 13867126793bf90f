----------------------------- MODULE AppleProofs -----------------------------
(***************************************************************************)
(* What TLAPS proves of the Apple provider under its sampling loop, for    *)
(* any number of channels, any readings, and any resets, unreadable        *)
(* channels, clock steps, failed samples and calls of main.                *)
(***************************************************************************)
EXTENDS AppleSiliconProvider, SamplingProofs

-------------------------------------------------------------------------------
(* What a reading counts *)

SamplesOK == previous_samples = NoSamples \/ previous_samples \in [Channels -> Nat]
CountOK == count \in [Channels -> Nat] /\ burnt \in Nat

\* nJ by which a channel is ahead of its previous sample, and all of them
Ahead ==
  [c \in Channels |-> IF previous_samples # NoSamples /\ count[c] > previous_samples[c]
                      THEN count[c] - previous_samples[c] ELSE 0]
Uncounted == SumOf(Ahead, Channels)

(***************************************************************************)
(* What the channels are ahead is a natural number.                        *)
(***************************************************************************)
LEMMA AheadType ==
  ASSUME SamplesOK, CountOK
  PROVE  (\A c \in Channels : Ahead[c] \in Nat) /\ Uncounted \in Nat
<1>1. ASSUME NEW c \in Channels PROVE Ahead[c] \in Nat
  <2>1. CASE previous_samples = NoSamples
    BY <2>1 DEF Ahead
  <2>2. CASE previous_samples # NoSamples
    <3>1. count[c] \in Nat /\ previous_samples[c] \in Nat
      BY <2>2 DEF SamplesOK, CountOK
    <3> QED BY <3>1 DEF Ahead
  <2> QED BY <2>1, <2>2
<1>2. Uncounted \in Nat
  BY <1>1, AppleAssumption, SumType DEF Uncounted
<1> QED BY <1>1, <1>2

(***************************************************************************)
(* And so it is after a step.                                              *)
(***************************************************************************)
LEMMA AheadTypeNext ==
  SamplesOK' /\ CountOK' => (Uncounted \in Nat)'
<1>1. SamplesOK /\ CountOK => Uncounted \in Nat
  BY AheadType
<1> QED BY <1>1, PTL

(***************************************************************************)
(* A reading reports no more than the channels are ahead, and with all     *)
(* channels readable it misses less than one micro-joule of each.          *)
(***************************************************************************)
LEMMA ReadingBounds ==
  ASSUME SamplesOK, CountOK, NEW seen \in SUBSET Channels
  PROVE  LET t == Total(energy_uj(seen))
         IN  /\ t \in Nat
             /\ NJ_PER_UJ * t <= Uncounted
             /\ seen = Channels =>
                  Uncounted <= NJ_PER_UJ * t + (NJ_PER_UJ - 1) * Cardinality(Channels)
<1> USE AppleAssumption
<1> DEFINE forward == IF previous_samples = NoSamples THEN {} ELSE {c \in seen : raw_nj(c) > 0}
           e == energy_uj(seen)
           k == NJ_PER_UJ
           g == [c \in Channels |-> IF c \in forward THEN Ahead[c] \div k ELSE 0]
           h == [c \in Channels |-> k * g[c]]
           l == [c \in Channels |-> k - 1]
           u == [c \in Channels |-> h[c] + l[c]]
<1>1. IsFiniteSet(Channels) /\ k \in Nat \ {0} /\ k - 1 \in Nat
  OBVIOUS
<1>2. /\ forward \in SUBSET Channels
      /\ \A c \in forward : Ahead[c] = raw_nj(c)
      /\ \A c \in Channels : (seen = Channels /\ c \notin forward) => Ahead[c] = 0
  <2>1. CASE previous_samples = NoSamples
    BY <2>1 DEF Ahead
  <2>2. CASE previous_samples # NoSamples
    <3>1. \A c \in Channels : count[c] \in Nat /\ previous_samples[c] \in Nat
      BY <2>2 DEF SamplesOK, CountOK
    <3>2. \A c \in Channels : raw_nj(c) > 0 <=> count[c] > previous_samples[c]
      BY <3>1 DEF raw_nj
    <3> QED BY <2>2, <3>1, <3>2 DEF Ahead, raw_nj
  <2> QED BY <2>1, <2>2
<1>3. e = [c \in forward |-> raw_nj(c) \div k]
  BY DEF energy_uj
<1> HIDE DEF forward, e, k
<1>4. \A c \in Channels : Ahead[c] \in Nat
  BY AheadType
<1>5. \A c \in Channels :
        /\ Ahead[c] \div k \in Nat /\ k * (Ahead[c] \div k) <= Ahead[c]
        /\ Ahead[c] <= k * (Ahead[c] \div k) + (k - 1)
  <2> TAKE c \in Channels
  <2> DEFINE a == Ahead[c]
             q == a \div k
  <2>1. a \in Nat
    BY <1>4
  <2> HIDE DEF a
  <2>2. q \in Nat /\ q * k <= a /\ a - q * k < k
    BY <1>1, <2>1, DivisionBounds
  <2> HIDE DEF q
  <2>3. k * q = q * k /\ k * q \in Nat
    BY <1>1, <2>2
  <2> DEFINE m == k * q
  <2>4. m \in Nat /\ m <= a /\ a - m < k
    BY <2>2, <2>3
  <2> HIDE DEF m
  <2>5. m <= a /\ a <= m + (k - 1)
    BY <1>1, <2>1, <2>4
  <2> QED BY <2>2, <2>5 DEF a, q, m
<1>6. \A c \in Channels : g[c] \in Nat /\ h[c] = k * g[c] /\ h[c] <= Ahead[c]
                          /\ (seen = Channels => Ahead[c] <= h[c] + (k - 1))
  <2> TAKE c \in Channels
  <2>1. CASE c \in forward
    BY <1>5, <2>1
  <2>2. CASE c \notin forward
    <3>1. g[c] = 0 /\ h[c] = 0
      BY <1>1, <2>2
    <3>2. seen = Channels => Ahead[c] = 0
      BY <1>2, <2>2
    <3> QED BY <1>1, <1>4, <3>1, <3>2
  <2> QED BY <2>1, <2>2
<1>7. (\A c \in Channels : h[c] \in Nat) /\ \A c \in Channels : l[c] = k - 1 /\ l[c] \in Nat /\ u[c] = h[c] + l[c]
  BY <1>1, <1>6
<1>8. \A c \in Channels \ forward : g[c] = 0
  OBVIOUS
<1>9. \A c \in forward : g[c] \in Nat /\ e[c] = g[c]
  BY <1>2, <1>3, <1>6
<1> HIDE DEF g, h, l, u
<1>10. Total(e) = SumOf(e, forward)
  <2>1. DOMAIN e = forward
    BY <1>3
  <2> QED BY <2>1 DEF Total, SumOf
<1>11. SumOf(e, forward) = SumOf(g, forward)
  <2>1. IsFiniteSet(forward)
    BY <1>1, <1>2, FS_Subset
  <2> QED BY <1>9, <2>1, SumSame
<1>12. SumOf(g, Channels) = SumOf(g, forward)
  <2>1. \A c \in Channels : g[c] \in Nat
    BY <1>6
  <2> QED BY <1>1, <1>2, <1>8, <2>1, SumSupport
<1>13. SumOf(g, Channels) \in Nat
  BY <1>1, <1>6, SumType
<1>14. SumOf(h, Channels) = k * SumOf(g, Channels)
  BY <1>1, <1>6, SumScale
<1>15. SumOf(h, Channels) <= Uncounted
  BY <1>1, <1>4, <1>6, <1>7, SumMonotone DEF Uncounted
<1>16. ASSUME seen = Channels
       PROVE  Uncounted <= SumOf(h, Channels) + (k - 1) * Cardinality(Channels)
  <2>1. SumOf(l, Channels) = (k - 1) * Cardinality(Channels)
    <3>1. PICK j \in Nat : j = k - 1
      BY <1>1
    <3>2. \A c \in Channels : l[c] = j
      BY <1>7, <3>1
    <3>3. SumOf(l, Channels) = j * Cardinality(Channels)
      BY ONLY <1>1, <3>2, SumConst
    <3> QED BY <3>1, <3>3
  <2>2. SumOf(u, Channels) = SumOf(h, Channels) + SumOf(l, Channels)
    BY <1>1, <1>7, SumPlus
  <2>3. \A c \in Channels : u[c] \in Nat /\ Ahead[c] <= u[c]
    BY <1>6, <1>7, <1>16
  <2>4. SumOf(Ahead, Channels) <= SumOf(u, Channels)
    BY <1>1, <1>4, <2>3, SumMonotone
  <2> QED BY <2>1, <2>2, <2>4 DEF Uncounted
<1> QED BY <1>10, <1>11, <1>12, <1>13, <1>14, <1>15, <1>16 DEF k, e

(***************************************************************************)
(* A power below the one computed from d uJ over dt gives back no more     *)
(* than d.                                                                 *)
(***************************************************************************)
LEMMA LessPowerIsCovered ==
  ASSUME NEW d \in Nat, NEW dt \in Nat \ {0}, NEW b \in Nat, b <= clamp((d * NS) \div dt)
  PROVE  window_energy_uj(b, dt) <= d
<1> DEFINE n == NS
           dn == d * n
           q == dn \div dt
           x == (b * dt) \div n
           e == window_energy_uj(b, dt)
<1>1. n \in Nat \ {0} /\ dn \in Nat
  BY AttributionAssumption DEF NS
<1>2. q \in Nat /\ q * dt <= dn
  <2> HIDE DEF dn
  <2> QED BY <1>1, DivisionBounds
<1>3. b <= clamp(q)
  OBVIOUS
<1> HIDE DEF q, dn, n
<1>4. b <= q
  <2>1. clamp(q) \in Nat /\ clamp(q) <= q
    BY <1>2, ClampBounds DEF U64
  <2> QED BY <1>2, <1>3, <2>1
<1>5. b * dt \in Nat /\ b * dt <= dn
  <2>1. dt * b \in Nat /\ dt * q \in Nat /\ dt * b <= dt * q
    BY <1>2, <1>4, ProductGrows
  <2>2. dt * b = b * dt /\ dt * q = q * dt
    BY <1>2
  <2> DEFINE y == b * dt
             z == q * dt
  <2>3. y \in Nat /\ z \in Nat /\ y <= z /\ z <= dn
    BY <1>2, <2>1, <2>2
  <2> HIDE DEF y, z
  <2>4. y <= dn
    BY <1>1, <2>3
  <2> QED BY <2>3, <2>4 DEF y
<1>6. x \in Nat /\ x * n <= b * dt
  BY <1>1, <1>5, DivisionBounds
<1> HIDE DEF x
<1>7. x <= d
  <2> DEFINE y == b * dt
             z == x * n
  <2>1. z \in Nat /\ y \in Nat /\ z <= y /\ y <= dn
    BY <1>1, <1>5, <1>6
  <2> HIDE DEF y, z
  <2>2. z <= dn
    BY <1>1, <2>1
  <2>3. x * n <= d * n
    BY <2>2 DEF z, dn
  <2> QED BY <1>1, <1>6, <2>3, FactorIsBounded
<1>8. e <= x
  BY WindowEnergyBounds DEF x, n
<1>9. e \in Nat
  <2>1. e \in U64
    BY WindowEnergyIsU64
  <2> HIDE DEF e
  <2> QED BY <2>1, MaxUAssumption DEF U64
<1> HIDE DEF e
<1>10. e <= d
  BY <1>6, <1>7, <1>8, <1>9
<1> QED BY <1>10 DEF e

(***************************************************************************)
(* No power, no energy.                                                    *)
(***************************************************************************)
LEMMA NoPowerNoEnergy == ASSUME NEW t \in Nat PROVE window_energy_uj(0, t) = 0
<1> DEFINE e == window_energy_uj(0, t)
<1>1. NS \in Nat \ {0}
  BY AttributionAssumption DEF NS
<1>2. 0 * t = 0 /\ 0 \div NS = 0
  BY <1>1
<1>3. e <= (0 * t) \div NS
  BY WindowEnergyBounds
<1>4. e \in U64
  BY WindowEnergyIsU64
<1> HIDE DEF e
<1>5. e = 0
  BY <1>2, <1>3, <1>4, MaxUAssumption DEF U64
<1> QED BY <1>5 DEF e

ClockOK == now \in U64 /\ last_observed_at_ns \in U64 /\ idle_power_uw \in U64

(***************************************************************************)
(* total_uj is covered by what the channels are ahead, and with all of     *)
(* them readable falls short of it by less than 1 uJ per channel.          *)
(***************************************************************************)
LEMMA TotalBounds ==
  ASSUME SamplesOK, CountOK, NEW seen \in SUBSET Channels
  PROVE  LET t == total_uj(seen)
             most == Uncounted \div NJ_PER_UJ
         IN  /\ t \in U64 /\ t \in Nat /\ most \in Nat /\ t <= most
             /\ NJ_PER_UJ * t <= Uncounted
             /\ (seen = Channels /\ most <= MaxU) =>
                  Uncounted <= NJ_PER_UJ * t + (NJ_PER_UJ - 1) * Cardinality(Channels)
<1> DEFINE x == Total(energy_uj(seen))
           k == NJ_PER_UJ
           u == Uncounted
           t == total_uj(seen)
           most == u \div k
           rest == (k - 1) * Cardinality(Channels)
<1>1. k \in Nat \ {0} /\ u \in Nat
  BY AheadType, AppleAssumption
<1>2. x \in Nat /\ k * x <= u /\ (seen = Channels => u <= k * x + rest)
  BY ReadingBounds
<1>3. t = clamp(x)
  BY DEF total_uj
<1> HIDE DEF x, k, u, t, rest
<1>4. t \in U64 /\ t \in Nat /\ t <= x
  BY <1>2, <1>3, ClampBounds DEF U64
<1>5. most \in Nat
  BY <1>1, DivisionBounds
<1>6. x <= most
  <2>1. k * x \in Nat /\ x * k = k * x
    BY <1>1, <1>2
  <2> DEFINE kx == k * x
  <2>2. kx \in Nat /\ kx <= u
    BY <1>2, <2>1
  <2> HIDE DEF kx
  <2>3. kx \div k <= u \div k
    BY <1>1, <2>2, QuotientGrows
  <2>4. kx \div k = x
    <3>1. x * k <= kx /\ kx < x * k + k
      BY <1>1, <2>1, <2>2 DEF kx
    <3> QED BY <1>1, <1>2, <2>2, <3>1, QuotientIsUnique
  <2> QED BY <2>3, <2>4
<1> HIDE DEF most
<1>7. t <= most
  BY <1>2, <1>4, <1>5, <1>6
<1>8. k * t <= u
  <2>1. k * t \in Nat /\ k * x \in Nat /\ k * t <= k * x
    BY <1>1, <1>2, <1>4, ProductGrows
  <2> QED BY <1>1, <1>2, <2>1
<1>9. most <= MaxU => t = x
  BY <1>2, <1>3, <1>5, <1>6, MaxUAssumption DEF clamp
<1>10. (seen = Channels /\ most <= MaxU) => u <= k * t + rest
  BY <1>2, <1>9
<1> QED BY <1>4, <1>5, <1>7, <1>8, <1>10 DEF t, most, u, k, rest

(***************************************************************************)
(* The snapshot's power, or any power below it, turned back into energy    *)
(* gives no more than total_uj.                                            *)
(***************************************************************************)
LEMMA SnapshotPower ==
  ASSUME SamplesOK, CountOK, ClockOK, NEW seen \in SUBSET Channels
  PROVE  /\ active_power_uw(seen) \in Nat /\ dt_ns \in Nat
         /\ \A b \in Nat : b <= active_power_uw(seen) =>
              window_energy_uj(b, dt_ns) <= total_uj(seen)
<1> DEFINE t == total_uj(seen)
           p == active_power_uw(seen)
           dt == dt_ns
<1>1. t \in Nat
  BY TotalBounds
<1>2. dt \in Nat
  BY MaxUAssumption DEF dt_ns, ClockOK, U64, saturating_sub
<1>3. NS \in Nat \ {0}
  BY AttributionAssumption DEF NS
<1>4. p = IF dt = 0 THEN 0 ELSE clamp((t * NS) \div dt)
  BY DEF active_power_uw
<1> HIDE DEF t, p, dt
<1>5. CASE dt = 0
  <2>1. p = 0
    BY <1>4, <1>5
  <2>2. \A b \in Nat : b <= p => b = 0
    BY <2>1
  <2>3. window_energy_uj(0, dt) = 0
    BY <1>2, NoPowerNoEnergy
  <2>4. \A b \in Nat : b <= p => window_energy_uj(b, dt) <= t
    BY <1>1, <2>2, <2>3
  <2> QED BY <1>2, <2>1, <2>4 DEF p, dt, t
<1>6. CASE dt # 0
  <2>1. p = clamp((t * NS) \div dt) /\ dt \in Nat \ {0}
    BY <1>2, <1>4, <1>6
  <2>2. p \in Nat
    <3>1. t * NS \in Nat
      BY <1>1, <1>3
    <3>2. (t * NS) \div dt \in Nat
      BY <2>1, <3>1, DivisionBounds
    <3> QED BY <2>1, <3>2, ClampBounds DEF U64
  <2>3. \A b \in Nat : b <= p => window_energy_uj(b, dt) <= t
    BY <1>1, <2>1, LessPowerIsCovered
  <2> QED BY <1>2, <2>2, <2>3 DEF p, dt, t
<1> QED BY <1>5, <1>6

(***************************************************************************)
(* A tick after a good sample, whose time prev is the provider's own, owes *)
(* no more than the channels are ahead, and little less.                   *)
(***************************************************************************)
LEMMA TickDelta ==
  ASSUME SamplesOK, CountOK, ClockOK, NEW seen \in SUBSET Channels, prev = last_observed_at_ns
  PROVE  LET dt == saturating_sub(now, prev)
             d == burst_energy_uj(active_power_uw(seen), idle_power_uw, dt)
             u == Uncounted
             k == NJ_PER_UJ
             truncated == Cardinality(Channels) * (k - 1)
         IN  /\ d \in Nat /\ dt \in Nat /\ d * k <= u
             /\ (seen = Channels /\ idle_power_uw = 0 /\ prev > 0 /\ dt > 0 /\ (u \div k) * NS <= MaxU)
                  => (u - d * k - truncated) * NS < k * (NS + dt)
<1> DEFINE dt == saturating_sub(now, prev)
           p == active_power_uw(seen)
           b == saturating_sub(p, idle_power_uw)
           d == burst_energy_uj(p, idle_power_uw, dt)
           u == Uncounted
           k == NJ_PER_UJ
           t == total_uj(seen)
           most == u \div k
           truncated == Cardinality(Channels) * (k - 1)
<1>1. /\ k \in Nat \ {0} /\ u \in Nat /\ NS \in Nat \ {0} /\ Cardinality(Channels) \in Nat
      /\ MaxU \in Nat
  BY AheadType, AppleAssumption, AttributionAssumption, FS_CardinalityType, MaxUAssumption DEF NS
<1>2. /\ t \in Nat /\ most \in Nat /\ t <= most /\ k * t <= u
      /\ (seen = Channels /\ most <= MaxU) => u <= k * t + (k - 1) * Cardinality(Channels)
  BY TotalBounds
<1>3. idle_power_uw \in Nat /\ now \in Nat /\ last_observed_at_ns \in Nat
  BY MaxUAssumption DEF ClockOK, U64
<1>4. /\ p \in Nat /\ dt_ns \in Nat
      /\ \A c \in Nat : c <= p => window_energy_uj(c, dt_ns) <= t
  BY SnapshotPower
<1>5. dt \in Nat
  BY <1>3 DEF saturating_sub
<1>6. (prev > 0 => dt_ns = dt) /\ (~(prev > 0) => p = 0)
  <2>1. prev > 0 <=> last_observed_at_ns # 0
    BY <1>3
  <2> QED BY <2>1 DEF dt_ns, active_power_uw
<1>7. prev > 0 /\ dt > 0 => p = clamp((t * NS) \div dt)
  BY <1>6 DEF active_power_uw
<1> HIDE DEF p, dt, t
<1>8. b \in Nat /\ b <= p /\ (idle_power_uw = 0 => b = p) /\ (p = 0 => b = 0)
  BY <1>3, <1>4 DEF saturating_sub
<1>9. d = window_energy_uj(b, dt)
  BY DEF burst_energy_uj, baseline_burst_power_uw
<1> HIDE DEF b
<1>10. d \in Nat
  <2>1. d \in U64
    BY <1>3, <1>4, <1>5, BurstEnergyIsU64
  <2> HIDE DEF d
  <2> QED BY <2>1, MaxUAssumption DEF U64
<1>11. d <= t
  <2>1. CASE prev > 0
    BY <1>4, <1>6, <1>8, <1>9, <2>1
  <2>2. CASE ~(prev > 0)
    <3>1. b = 0
      BY <1>6, <1>8, <2>2
    <3>2. window_energy_uj(0, dt) = 0
      BY <1>5, NoPowerNoEnergy
    <3> HIDE DEF d
    <3> QED BY <1>2, <1>9, <3>1, <3>2
  <2> QED BY <2>1, <2>2
<1> HIDE DEF d, u, k, most
<1>12. d * k <= u
  <2>1. k * d \in Nat /\ k * t \in Nat /\ k * d <= k * t /\ d * k = k * d
    BY <1>1, <1>2, <1>10, <1>11, ProductGrows
  <2> QED BY <1>1, <1>2, <2>1
<1>13. ASSUME seen = Channels, idle_power_uw = 0, prev > 0, dt > 0, most * NS <= MaxU
       PROVE  (u - d * k - truncated) * NS < k * (NS + dt)
  <2>1. most * NS \in Nat /\ most <= most * NS /\ t * NS <= most * NS /\ t * NS \in Nat
    <3>1. most * 1 <= most * NS
      BY <1>1, <1>2, ProductGrows
    <3>2. NS * t <= NS * most /\ NS * t = t * NS /\ NS * most = most * NS
      BY <1>1, <1>2, ProductGrows
    <3>3. most * NS \in Nat /\ t * NS \in Nat /\ most * 1 = most
      BY <1>1, <1>2
    <3> QED BY <3>1, <3>2, <3>3
  <2> DEFINE mn == most * NS
             tn == t * NS
  <2>2. mn \in Nat /\ most <= mn /\ tn <= mn /\ tn \in Nat /\ mn <= MaxU
    BY <1>13, <2>1
  <2> HIDE DEF mn, tn
  <2>3. most <= MaxU /\ tn <= MaxU
    BY <1>1, <1>2, <2>2
  <2>4. (t - d) * NS < NS + dt
    <3>1. dt \in Nat \ {0} /\ p = clamp((t * NS) \div dt) /\ d = window_energy_uj(p, dt)
      BY <1>5, <1>7, <1>8, <1>9, <1>13
    <3>2. t * NS <= MaxU
      BY <2>3 DEF tn
    <3> QED BY <1>2, <3>1, <3>2, PowerAndBack
  <2>5. u <= k * t + truncated /\ truncated \in Nat
    <3>1. (k - 1) * Cardinality(Channels) = truncated /\ truncated \in Nat
      BY <1>1
    <3> QED BY <1>2, <1>13, <2>3, <3>1
  <2> HIDE DEF truncated
  <2> DEFINE a == t - d
             v == u - d * k - truncated
             w == NS + dt
  <2>6. a \in Nat /\ v \in Int /\ v <= k * a /\ w \in Nat
    <3>1. k * a = k * t - d * k
      BY <1>1, <1>2, <1>10
    <3>2. a \in Nat /\ w \in Nat
      BY <1>1, <1>2, <1>5, <1>10, <1>11
    <3> DEFINE y == d * k
               z == k * t
    <3>3. y \in Nat /\ z \in Nat /\ u <= z + truncated
      BY <1>1, <1>2, <1>10, <2>5
    <3> HIDE DEF y, z
    <3>4. u - y - truncated <= z - y /\ u - y - truncated \in Int
      BY <1>1, <2>5, <3>3
    <3> QED BY <3>1, <3>2, <3>4 DEF y, z
  <2>7. a * NS < w
    BY <2>4
  <2> HIDE DEF a, v, w
  <2>8. k * (a * NS) < k * w
    <3> DEFINE an == a * NS
    <3>1. an \in Nat /\ an + 1 <= w
      BY <1>1, <2>6, <2>7
    <3> HIDE DEF an
    <3>2. k * (an + 1) <= k * w
      BY <1>1, <2>6, <3>1, ProductGrows
    <3>3. k * (an + 1) = k * an + k /\ k * an \in Nat /\ k * w \in Nat
      BY <1>1, <2>6, <3>1
    <3>4. k * an < k * w
      BY <1>1, <3>2, <3>3
    <3> QED BY <3>4 DEF an
  <2>9. v * NS <= (k * a) * NS
    <3> DEFINE ka == k * a
    <3>1. ka \in Nat /\ v <= ka
      BY <1>1, <2>6
    <3> HIDE DEF ka
    <3>2. CASE v < 0
      <4>1. v * NS <= 0
        BY <1>1, <2>6, <3>2
      <4>2. ka * NS \in Nat
        BY <1>1, <3>1
      <4>3. v * NS \in Int
        BY <1>1, <2>6
      <4>4. v * NS <= ka * NS
        BY <4>1, <4>2, <4>3
      <4> QED BY <4>4 DEF ka
    <3>3. CASE v >= 0
      <4>1. v \in Nat
        BY <2>6, <3>3
      <4>2. NS * v <= NS * ka
        BY <1>1, <3>1, <4>1, ProductGrows
      <4>3. NS * v = v * NS /\ NS * ka = ka * NS
        BY <1>1, <3>1, <4>1
      <4> QED BY <4>2, <4>3 DEF ka
    <3> QED BY <2>6, <3>2, <3>3
  <2>10. (k * a) * NS = k * (a * NS) /\ k * (a * NS) \in Int /\ v * NS \in Int /\ k * w \in Int
    BY <1>1, <2>6
  <2>11. v * NS < k * w
    <3> DEFINE y == v * NS
               z == k * (a * NS)
               q == k * w
    <3>1. y \in Int /\ z \in Int /\ q \in Int /\ y <= z /\ z < q
      BY <2>8, <2>9, <2>10
    <3> HIDE DEF y, z, q
    <3>2. y < q
      BY <3>1
    <3> QED BY <3>2 DEF y, q
  <2> QED BY <2>11 DEF v, w
<1> QED BY <1>5, <1>10, <1>12, <1>13 DEF dt, d, p, u, k, most

-------------------------------------------------------------------------------
(* Types, and the balance of the queue *)

GhostOK == stamped \in Nat /\ sinceTick \in Nat /\ tickBurn \in Nat /\ tickNs \in Nat

TypeInv ==
  /\ LoopOK /\ QueueTypeOK /\ Within(0, 0, MaxU)
  /\ SamplesOK /\ CountOK /\ ClockOK
  /\ active_pids \in PidLists /\ faults \in Nat
  /\ GhostOK

(***************************************************************************)
(* The PIDs main sets are a sequence of PIDs.                              *)
(***************************************************************************)
LEMMA PidListsAreSeqs == ASSUME active_pids \in PidLists PROVE active_pids \in Seq(Pids)
<1>1. PICK n \in Nat : active_pids \in [1 .. n -> Pids]
  BY AppleAssumption DEF PidLists
<1> QED BY <1>1

(***************************************************************************)
(* The total of a function on the channels is a natural number, the sum.   *)
(***************************************************************************)
LEMMA TotalIs ==
  ASSUME NEW f \in [Channels -> Nat]
  PROVE  Total(f) = SumOf(f, Channels) /\ Total(f) \in Nat
<1>1. Total(f) = SumOf(f, Channels)
  <2>1. DOMAIN f = Channels
    OBVIOUS
  <2> QED BY <2>1 DEF Total, SumOf
<1> QED BY <1>1, AppleAssumption, SumType

(***************************************************************************)
(* Every step keeps the types and the balance of the queue.                *)
(***************************************************************************)
LEMMA TypeStep == TypeInv /\ [Next]_avars => TypeInv'
<1> SUFFICES ASSUME TypeInv, [Next]_avars PROVE TypeInv'
  OBVIOUS
<1> USE AppleAssumption, MaxUAssumption
<1>0. /\ LoopOK /\ QueueTypeOK /\ Within(0, 0, MaxU)
      /\ SamplesOK /\ CountOK /\ ClockOK /\ active_pids \in PidLists /\ faults \in Nat /\ GhostOK
  BY DEF TypeInv
<1>1. ASSUME UNCHANGED <<loopVars, queueVars>>
      PROVE  LoopOK' /\ QueueTypeOK' /\ Within(0, 0, MaxU)'
  BY <1>0, <1>1, QueueKept DEF loopVars, LoopOK, LoopTypeOK
<1>2. ASSUME UNCHANGED <<provider, world>>
      PROVE  SamplesOK' /\ CountOK' /\ ClockOK' /\ (active_pids \in PidLists)' /\ (faults \in Nat)'
  BY <1>0, <1>2 DEF provider, world, SamplesOK, CountOK, ClockOK
<1>3. ASSUME UNCHANGED ghosts PROVE GhostOK'
  BY <1>0, <1>3 DEF ghosts, GhostOK
<1>4. ASSUME NEW nj \in [Channels -> Bursts], NEW t \in Times, Elapse(nj, t) PROVE TypeInv'
  <2>1. nj \in [Channels -> Nat] /\ t \in U64
    OBVIOUS
  <2>2. Total(nj) \in Nat
    BY <2>1, TotalIs
  <2>3. CountOK'
    BY <1>0, <1>4, <2>1, <2>2 DEF Elapse, CountOK
  <2>4. GhostOK'
    BY <1>0, <1>4, <2>2 DEF Elapse, GhostOK
  <2>5. SamplesOK' /\ ClockOK' /\ (active_pids \in PidLists)'
    BY <1>0, <1>4, <2>1 DEF Elapse, provider, SamplesOK, ClockOK
  <2>6. (faults \in Nat)'
    BY <1>0, <1>4 DEF Elapse, Fault
  <2>7. UNCHANGED <<loopVars, queueVars>>
    BY <1>4 DEF Elapse
  <2> QED BY <1>1, <2>3, <2>4, <2>5, <2>6, <2>7 DEF TypeInv
<1>5. ASSUME NEW c \in Channels, Reset(c) PROVE TypeInv'
  <2>1. UNCHANGED <<loopVars, queueVars, provider, burnt, now, ghosts>>
    BY <1>5 DEF Reset
  <2>2. CountOK' /\ (faults \in Nat)'
    BY <1>0, <1>5 DEF Reset, Fault, CountOK
  <2>3. SamplesOK' /\ ClockOK' /\ (active_pids \in PidLists)'
    BY <1>0, <2>1 DEF provider, SamplesOK, ClockOK
  <2> QED BY <1>1, <1>3, <2>1, <2>2, <2>3 DEF TypeInv
<1>6. ASSUME NEW seen \in SUBSET Channels, sample_energy_model_delta(seen)
      PROVE  SamplesOK' /\ (faults \in Nat)'
  BY <1>0, <1>6 DEF sample_energy_model_delta, Fault, SamplesOK, CountOK
<1>7. ASSUME NEW seen \in SUBSET Channels, sample_power_state(seen)
      PROVE  /\ SamplesOK' /\ CountOK' /\ ClockOK' /\ (active_pids \in PidLists)' /\ (faults \in Nat)'
             /\ (stamped \in Nat)'
  <2>1. /\ sample_energy_model_delta(seen) /\ last_observed_at_ns' = now /\ stamped' = burnt
        /\ UNCHANGED <<active_pids, idle_power_uw, count, burnt, now>>
    BY <1>7 DEF sample_power_state
  <2> QED BY <1>0, <1>6, <2>1 DEF CountOK, ClockOK
<1>8. ASSUME Attempt PROVE (sinceTick \in Nat)' /\ (tickBurn \in Nat)' /\ (tickNs \in Nat)'
  <2>1. sinceTick \in Nat /\ now \in Nat /\ (prev # NoSnapshot => prev \in Nat)
    BY <1>0 DEF GhostOK, ClockOK, LoopOK, LoopTypeOK, U64
  <2> QED BY <1>8, <2>1 DEF Attempt, saturating_sub
<1>9. ASSUME NEW seen \in SUBSET Channels, SampleOk(seen) PROVE TypeInv'
  <2>1. /\ TickOk(now, active_power_uw(seen), idle_power_uw, active_pids)
        /\ sample_power_state(seen) /\ Attempt /\ UNCHANGED queueVars
    BY <1>9 DEF SampleOk
  <2>2. /\ now \in U64 /\ active_power_uw(seen) \in Nat /\ idle_power_uw \in Nat
        /\ active_pids \in Seq(Pids)
    BY <1>0, SnapshotPower, PidListsAreSeqs DEF ClockOK, U64
  <2>3. LoopOK' /\ UNCHANGED <<energy, handed>>
    BY <1>0, <2>1, <2>2, TickOkStep
  <2>4. QueueTypeOK' /\ Within(0, 0, MaxU)'
    BY <1>0, <2>1, <2>3, QueueKept
  <2> QED BY <1>7, <1>8, <2>1, <2>3, <2>4 DEF TypeInv, GhostOK
<1>10. ASSUME NEW seen \in SUBSET Channels, MainSample(seen) PROVE TypeInv'
  <2>1. sample_power_state(seen) /\ UNCHANGED <<loopVars, queueVars, sinceTick, tickBurn, tickNs>>
    BY <1>10 DEF MainSample
  <2> QED BY <1>0, <1>1, <1>7, <2>1 DEF TypeInv, GhostOK
<1>11. ASSUME NEW seen \in SUBSET Channels, MainDelta(seen) PROVE TypeInv'
  <2>1. /\ sample_energy_model_delta(seen)
        /\ UNCHANGED <<loopVars, queueVars, last_observed_at_ns, active_pids, idle_power_uw,
                       count, burnt, now, ghosts>>
    BY <1>11 DEF MainDelta
  <2> QED BY <1>0, <1>1, <1>3, <1>6, <2>1 DEF TypeInv, CountOK, ClockOK
<1>12. CASE SampleErr
  <2>1. TickErr /\ Attempt /\ UNCHANGED <<queueVars, provider, world, stamped>>
    BY <1>12 DEF SampleErr
  <2>2. LoopOK' /\ UNCHANGED <<energy, handed>>
    BY <1>0, <2>1, ControlStep
  <2>3. QueueTypeOK' /\ Within(0, 0, MaxU)'
    BY <1>0, <2>1, <2>2, QueueKept
  <2>4. GhostOK'
    BY <1>0, <1>8, <2>1 DEF GhostOK
  <2> QED BY <1>2, <2>1, <2>2, <2>3, <2>4 DEF TypeInv
<1>13. CASE Finish \/ Control
  <2>1. UNCHANGED <<queueVars, provider, world, ghosts>>
    BY <1>13 DEF Finish, Control
  <2>2. LoopOK' /\ QueueTypeOK' /\ Within(0, 0, MaxU)'
    <3>1. CASE Credit
      BY <1>0, <2>1, <3>1, CreditStep, CreditArrives
    <3>2. CASE Heartbeat
      BY <1>0, <2>1, <3>2, HeartbeatStep, QueueKept
    <3>3. CASE StartLoop \/ DropLoop
      BY <1>0, <2>1, <3>3, ControlStep, QueueKept
    <3> QED BY <1>13, <3>1, <3>2, <3>3 DEF Finish, Control
  <2> QED BY <1>2, <1>3, <2>1, <2>2 DEF TypeInv
<1>14. CASE set_active_pids \/ set_idle_power_uw
  <2>1. /\ UNCHANGED <<loopVars, queueVars, previous_samples, last_observed_at_ns, world, ghosts>>
        /\ (active_pids \in PidLists)' /\ (idle_power_uw \in U64)'
    BY <1>0, <1>14 DEF set_active_pids, set_idle_power_uw, ClockOK
  <2> QED BY <1>0, <1>1, <1>3, <2>1 DEF TypeInv, world, SamplesOK, CountOK, ClockOK
<1>15. CASE attribute_joules_to_pid
  <2>1. PICK p \in Pids, b \in Snapshots, w \in Spans : enqueue_attribution(p, window_energy_uj(b, w))
    BY <1>15 DEF attribute_joules_to_pid
  <2>2. UNCHANGED <<loopVars, provider, world, ghosts>> /\ Push(p, window_energy_uj(b, w))
    BY <1>15, <2>1 DEF attribute_joules_to_pid, enqueue_attribution
  <2>3. PICK uj \in U64 : uj = window_energy_uj(b, w)
    <3>1. b \in Nat /\ w \in Nat
      BY DEF U64
    <3> QED BY <3>1, WindowEnergyIsU64
  <2>4. p \in Buckets /\ Push(p, uj)
    BY <2>2, <2>3 DEF Buckets
  <2>5. QueueTypeOK' /\ Within(0, 0, MaxU)'
    BY <1>0, <2>2, <2>4, PushStep
  <2>6. LoopOK'
    BY <1>0, <2>2 DEF loopVars, LoopOK, LoopTypeOK
  <2> QED BY <1>2, <1>3, <2>2, <2>5, <2>6 DEF TypeInv
<1>16. CASE Sync
  <2>1. LoopOK' /\ QueueTypeOK' /\ Within(0, 0, MaxU)'
    BY <1>0, <1>16, SyncStep DEF Sync
  <2> QED BY <1>2, <1>3, <1>16, <2>1 DEF Sync, TypeInv
<1>17. CASE UNCHANGED avars
  BY <1>1, <1>2, <1>3, <1>17 DEF avars, TypeInv
<1> QED BY <1>4, <1>5, <1>9, <1>10, <1>11, <1>12, <1>13, <1>14, <1>15, <1>16, <1>17 DEF Next

(***************************************************************************)
(* The types and the balance of the queue hold always.                     *)
(***************************************************************************)
LEMMA TypeInvariant == Spec => []TypeInv
<1>1. Init => TypeInv
  <2> SUFFICES ASSUME Init PROVE TypeInv
    OBVIOUS
  <2> USE AppleAssumption, MaxUAssumption
  <2>1. LoopOK /\ QueueTypeOK /\ Within(0, 0, MaxU)
    BY LoopStart, QueueStart DEF Init
  <2>2. 0 \in U64
    BY DEF U64
  <2>3. SamplesOK /\ CountOK /\ ClockOK /\ GhostOK /\ faults \in Nat
    BY <2>2 DEF Init, SamplesOK, CountOK, ClockOK, GhostOK
  <2>4. active_pids \in PidLists
    <3>1. <<>> \in [1 .. 0 -> Pids] /\ 0 \in 0 .. MaxActive
      OBVIOUS
    <3> QED BY <3>1 DEF Init, PidLists
  <2> QED BY <2>1, <2>3, <2>4 DEF TypeInv
<1> QED BY <1>1, TypeStep, PTL DEF Spec

(***************************************************************************)
(* Every number of the provider stays in its type, the clock stepping back *)
(* and the counters resetting as they like.                                *)
(***************************************************************************)
THEOREM AppleIsTyped == Spec => []TypeOK
<1>1. TypeInv => TypeOK
  BY DEF TypeInv, TypeOK, LoopOK, SamplesOK, CountOK, ClockOK, GhostOK
<1> QED BY <1>1, TypeInvariant, PTL

(***************************************************************************)
(* What main attributes and enqueues reaches the registry once, next to    *)
(* what the loops hand over.                                               *)
(***************************************************************************)
THEOREM AppleAttributionsArrive == Spec => []EveryAttributionArrivesOnce
<1>1. TypeInv => EveryAttributionArrivesOnce
  BY ArrivedIs DEF TypeInv
<1> QED BY <1>1, TypeInvariant, PTL

(***************************************************************************)
(* The debug assertion of sample_power_state holds at every reading, for   *)
(* every u64: energy turned into power and back never gains.               *)
(***************************************************************************)
THEOREM AppleAssertHolds == Spec => []DebugAssertHolds
<1>1. TypeInv => DebugAssertHolds
  <2> SUFFICES ASSUME TypeInv, NEW seen \in SUBSET Channels
               PROVE  window_energy_uj(active_power_uw(seen), dt_ns)
                        <= saturating_add(total_uj(seen), 1)
    BY DEF DebugAssertHolds
  <2>0. SamplesOK /\ CountOK /\ ClockOK
    BY DEF TypeInv
  <2> DEFINE t == total_uj(seen)
             p == active_power_uw(seen)
             e == window_energy_uj(p, dt_ns)
             a == saturating_add(t, 1)
  <2>1. p \in Nat /\ dt_ns \in Nat /\ p <= p
    BY <2>0, SnapshotPower
  <2>2. e <= t
    BY <2>0, <2>1, SnapshotPower
  <2>3. t \in U64 /\ 1 \in U64
    BY <2>0, TotalBounds, MaxUAssumption DEF U64
  <2> HIDE DEF p, t
  <2>4. e \in U64
    BY <2>1, WindowEnergyIsU64
  <2>5. a \in U64 /\ a >= t
    BY <2>3, SaturatingAddGrows
  <2> HIDE DEF e, a
  <2>6. e <= a
    BY <2>2, <2>3, <2>4, <2>5, MaxUAssumption DEF U64
  <2> QED BY <2>6 DEF e, a, p, t
<1> QED BY <1>1, TypeInvariant, PTL

-------------------------------------------------------------------------------
(* The energy a tick credits *)

InLoop == pc # "main" /\ prev # NoSnapshot

\* every channel has a previous sample that it has not fallen behind
Forward == \A c \in Channels : previous_samples # NoSamples /\ previous_samples[c] <= count[c]

Covered == (handed + Owed) * NJ_PER_UJ + Uncounted <= burnt
StampCovered == stamped + Uncounted <= burnt
LoopCovered == InLoop => prev = last_observed_at_ns /\ Uncounted <= sinceTick
LoopExact ==
  InLoop /\ faults = 0 =>
    Forward /\ sinceTick <= Uncounted /\ prev <= now /\ (prev = now => sinceTick = 0)

EnergyInv ==
  /\ Covered
  /\ StampCovered
  /\ LoopCovered
  /\ LoopExact
  /\ NoBackfill
  /\ TickLosesLittle

(***************************************************************************)
(* What the channels burn is what they are further ahead afterwards, or    *)
(* more.                                                                   *)
(***************************************************************************)
LEMMA BurnCounts ==
  ASSUME SamplesOK, CountOK, NEW nj \in [Channels -> Nat],
         count' = [c \in Channels |-> count[c] + nj[c]], previous_samples' = previous_samples
  PROVE  /\ (Uncounted \in Nat)' /\ Uncounted' <= Uncounted + Total(nj)
         /\ Forward => Forward' /\ Uncounted' = Uncounted + Total(nj)
<1> DEFINE f == Ahead
           g == Ahead'
           h == [c \in Channels |-> f[c] + nj[c]]
<1>1. IsFiniteSet(Channels) /\ \A c \in Channels : f[c] \in Nat /\ nj[c] \in Nat
  BY AppleAssumption, AheadType
<1>2. \A c \in Channels : h[c] \in Nat /\ h[c] = f[c] + nj[c]
  BY <1>1
<1>3. ASSUME NEW c \in Channels
      PROVE  /\ g[c] \in Nat /\ g[c] <= h[c]
             /\ Forward => g[c] = h[c] /\ previous_samples[c] <= count[c] + nj[c]
  <2>1. count[c] \in Nat /\ nj[c] \in Nat /\ count'[c] = count[c] + nj[c]
    BY DEF CountOK
  <2>2. g[c] = IF previous_samples # NoSamples /\ count'[c] > previous_samples[c]
               THEN count'[c] - previous_samples[c] ELSE 0
    BY DEF Ahead
  <2>3. f[c] = IF previous_samples # NoSamples /\ count[c] > previous_samples[c]
               THEN count[c] - previous_samples[c] ELSE 0
    BY DEF Ahead
  <2>4. h[c] = f[c] + nj[c] /\ h[c] \in Nat
    BY <1>2
  <2>5. Forward => previous_samples # NoSamples /\ previous_samples[c] <= count[c]
    BY DEF Forward
  <2> DEFINE p == previous_samples[c]
             x == count[c]
             y == nj[c]
             z == count'[c]
  <2> HIDE DEF f, g, h
  <2>6. CASE previous_samples = NoSamples
    BY <2>2, <2>4, <2>5, <2>6
  <2>7. CASE previous_samples # NoSamples
    <3>1. p \in Nat /\ x \in Nat /\ y \in Nat /\ z = x + y
      BY <2>1, <2>7 DEF SamplesOK
    <3>2. /\ g[c] = (IF z > p THEN z - p ELSE 0) /\ f[c] = (IF x > p THEN x - p ELSE 0)
          /\ h[c] = f[c] + y
      BY <2>2, <2>3, <2>4, <2>7
    <3> HIDE DEF p, x, y, z
    <3>3. g[c] \in Nat /\ g[c] <= h[c] /\ (p <= x => g[c] = h[c] /\ p <= x + y)
      BY <3>1, <3>2
    <3> QED BY <2>5, <3>3 DEF p, x, y
  <2> QED BY <2>6, <2>7
<1>4. Forward => Forward'
  <2> SUFFICES ASSUME Forward PROVE Forward'
    OBVIOUS
  <2>1. \A c \in Channels : count'[c] = count[c] + nj[c]
    OBVIOUS
  <2> QED BY <1>3, <2>1 DEF Forward
<1>5. Total(nj) = SumOf(nj, Channels)
  BY TotalIs
<1> HIDE DEF f, g, h
<1>6. SumOf(h, Channels) = SumOf(f, Channels) + SumOf(nj, Channels)
  BY <1>1, <1>2, SumPlus
<1>7. SumOf(g, Channels) \in Nat
  BY <1>1, <1>3, SumType
<1>8. SumOf(g, Channels) <= SumOf(h, Channels)
  BY <1>1, <1>2, <1>3, SumMonotone
<1>9. Forward => SumOf(g, Channels) = SumOf(h, Channels)
  <2> SUFFICES ASSUME Forward PROVE SumOf(g, Channels) = SumOf(h, Channels)
    OBVIOUS
  <2>1. \A c \in Channels : h[c] \in Nat /\ g[c] = h[c]
    BY <1>2, <1>3
  <2> QED BY <1>1, <2>1, SumSame
<1>10. Uncounted = SumOf(f, Channels) /\ Uncounted' = SumOf(g, Channels)
  BY DEF Uncounted, f, g
<1> QED BY <1>4, <1>5, <1>6, <1>7, <1>8, <1>9, <1>10

(***************************************************************************)
(* A reset never puts a channel ahead.                                     *)
(***************************************************************************)
LEMMA ResetCounts ==
  ASSUME SamplesOK, CountOK, NEW c \in Channels,
         count' = [count EXCEPT ![c] = 0], previous_samples' = previous_samples
  PROVE  (Uncounted \in Nat)' /\ Uncounted' <= Uncounted
<1> DEFINE f == Ahead
           g == Ahead'
<1>1. IsFiniteSet(Channels) /\ \A d \in Channels : f[d] \in Nat
  BY AppleAssumption, AheadType
<1>2. ASSUME NEW d \in Channels PROVE g[d] \in Nat /\ g[d] <= f[d]
  <2>1. g[d] = IF previous_samples # NoSamples /\ count'[d] > previous_samples[d]
               THEN count'[d] - previous_samples[d] ELSE 0
    BY DEF Ahead
  <2>2. CASE d # c
    <3>1. count'[d] = count[d]
      BY <2>2 DEF CountOK
    <3>2. g[d] = f[d]
      BY <2>1, <3>1 DEF Ahead
    <3> QED BY <1>1, <3>2
  <2>3. CASE d = c
    <3>1. count'[d] = 0
      BY <2>3 DEF CountOK
    <3>2. previous_samples # NoSamples => previous_samples[d] \in Nat
      BY DEF SamplesOK
    <3>3. g[d] = 0
      <4> HIDE DEF g
      <4> QED BY <2>1, <3>1, <3>2
    <3> QED BY <1>1, <3>3
  <2> QED BY <2>2, <2>3
<1> HIDE DEF f, g
<1>3. SumOf(g, Channels) \in Nat
  BY <1>1, <1>2, SumType
<1>4. SumOf(g, Channels) <= SumOf(f, Channels)
  BY <1>1, <1>2, SumMonotone
<1> QED BY <1>3, <1>4 DEF Uncounted, f, g

(***************************************************************************)
(* When the samples slide, no channel is ahead any more.                   *)
(***************************************************************************)
LEMMA SlideCounts ==
  ASSUME CountOK, previous_samples' = count, count' = count
  PROVE  Uncounted' = 0 /\ Forward'
<1> DEFINE g == Ahead'
<1>1. \A c \in Channels : count[c] \in Nat
  BY DEF CountOK
<1>2. \A c \in Channels : g[c] = 0
  BY <1>1 DEF Ahead
<1>3. Forward'
  <2>1. ASSUME NEW c \in Channels PROVE count # NoSamples
    <3>1. DOMAIN count = Channels /\ DOMAIN NoSamples = {}
      BY DEF CountOK, NoSamples
    <3> QED BY <3>1
  <2> QED BY <1>1, <2>1 DEF Forward
<1> HIDE DEF g
<1>4. SumOf(g, Channels) = 0
  BY <1>2, AppleAssumption, SumZero
<1> QED BY <1>3, <1>4 DEF Uncounted, g

(***************************************************************************)
(* Outside a tick there is nothing to claim of one.                        *)
(***************************************************************************)
LEMMA NoTick == ASSUME pc' # "credit" PROVE NoBackfill' /\ TickLosesLittle'
  BY DEF NoBackfill, TickLosesLittle

(***************************************************************************)
(* During a tick, its energy and its time stay as they are.                *)
(***************************************************************************)
LEMMA TickKept ==
  ASSUME NoBackfill, TickLosesLittle, faults' = 0 => faults = 0,
         UNCHANGED <<pc, prev, delta, tickBurn, tickNs, idle_power_uw>>
  PROVE  NoBackfill' /\ TickLosesLittle'
  BY DEF NoBackfill, TickLosesLittle

(***************************************************************************)
(* A burn of x nJ that puts the channels ahead by x at most stays covered. *)
(***************************************************************************)
LEMMA BurnCovered ==
  ASSUME LoopOK, (Uncounted \in Nat)', Uncounted \in Nat, burnt \in Nat, stamped \in Nat,
         NEW x \in Nat, burnt' = burnt + x, Uncounted' <= Uncounted + x,
         UNCHANGED <<loopVars, stamped>>, Covered, StampCovered
  PROVE  Covered' /\ StampCovered'
<1> DEFINE m == (handed + Owed) * NJ_PER_UJ
           u == Uncounted
           v == Uncounted'
           w == burnt'
<1>1. m \in Nat
  <2>1. handed \in Nat /\ Owed \in Nat /\ NJ_PER_UJ \in Nat
    BY OwedType, AppleAssumption DEF LoopOK, LoopTypeOK
  <2> QED BY <2>1
<1>2. m + u <= burnt /\ stamped + u <= burnt
  BY DEF Covered, StampCovered
<1>3. v \in Nat /\ v <= u + x /\ w = burnt + x /\ u \in Nat
  OBVIOUS
<1>4. handed' = handed /\ Owed' = Owed /\ stamped' = stamped
  BY DEF loopVars, Owed
<1> HIDE DEF m, u, v, w
<1>5. m + v <= w /\ stamped + v <= w
  BY <1>1, <1>2, <1>3
<1> QED BY <1>4, <1>5 DEF Covered, StampCovered, m, v, w

(***************************************************************************)
(* Every step keeps what is credited within what was burnt.                *)
(***************************************************************************)
LEMMA EnergyStep == TypeInv /\ EnergyInv /\ [Next]_avars => EnergyInv'
<1> SUFFICES ASSUME TypeInv, EnergyInv, [Next]_avars PROVE EnergyInv'
  OBVIOUS
<1> USE AppleAssumption, MaxUAssumption
<1>0. /\ LoopOK /\ SamplesOK /\ CountOK /\ ClockOK /\ GhostOK /\ active_pids \in PidLists
      /\ faults \in Nat /\ Covered /\ StampCovered /\ LoopCovered /\ LoopExact
      /\ NoBackfill /\ TickLosesLittle
  BY DEF TypeInv, EnergyInv
<1>1. /\ Uncounted \in Nat /\ burnt \in Nat /\ now \in Nat /\ last_observed_at_ns \in Nat
      /\ stamped \in Nat /\ sinceTick \in Nat /\ handed \in Nat /\ Owed \in Nat
      /\ prev \in U64 \cup {NoSnapshot}
  BY <1>0, AheadType, OwedType DEF CountOK, ClockOK, GhostOK, LoopOK, LoopTypeOK, U64
<1>2. ASSUME UNCHANGED <<previous_samples, count, burnt, stamped, handed>>, Owed' = Owed
      PROVE  Covered' /\ StampCovered' /\ Uncounted' = Uncounted /\ (Forward => Forward')
  BY <1>0, <1>2 DEF Covered, StampCovered, Uncounted, Ahead, Forward
<1>3. ASSUME NEW nj \in [Channels -> Bursts], NEW t \in Times, Elapse(nj, t) PROVE EnergyInv'
  <2>1. nj \in [Channels -> Nat] /\ t \in Nat
    <3>1. nj \in [Channels -> Nat] /\ t \in U64
      OBVIOUS
    <3> QED BY <3>1 DEF U64
  <2>2. PICK x \in Nat : x = Total(nj)
    BY <2>1, TotalIs
  <2>3. /\ Fault(t <= now) /\ burnt' = burnt + x /\ now' = t
        /\ count' = [c \in Channels |-> count[c] + nj[c]]
        /\ sinceTick' = IF pc = "main" \/ prev = NoSnapshot THEN 0 ELSE sinceTick + x
        /\ UNCHANGED <<loopVars, provider, stamped, tickBurn, tickNs>>
    BY <1>3, <2>2 DEF Elapse
  <2>4. /\ (Uncounted \in Nat)' /\ Uncounted' <= Uncounted + x
        /\ Forward => Forward' /\ Uncounted' = Uncounted + x
    BY <1>0, <2>1, <2>2, <2>3, BurnCounts DEF provider
  <2>5. Covered' /\ StampCovered'
    BY <1>0, <1>1, <2>3, <2>4, BurnCovered
  <2>6. InLoop' <=> InLoop
    BY <2>3 DEF InLoop, loopVars
  <2>7. LoopCovered'
    <3> SUFFICES ASSUME InLoop' PROVE (prev = last_observed_at_ns)' /\ (Uncounted <= sinceTick)'
      BY DEF LoopCovered
    <3>1. prev = last_observed_at_ns /\ Uncounted <= sinceTick /\ sinceTick' = sinceTick + x
      BY <1>0, <2>3, <2>6 DEF LoopCovered, InLoop
    <3> DEFINE v == Uncounted'
               w == sinceTick'
    <3>2. v \in Nat /\ v <= Uncounted + x /\ w = sinceTick + x
      BY <2>4, <3>1
    <3> HIDE DEF v, w
    <3>3. v <= w
      BY <1>1, <3>1, <3>2
    <3> QED BY <2>3, <3>1, <3>3 DEF v, w, loopVars, provider
  <2>8. faults' = 0 => faults = 0 /\ t > now
    <3>1. Fault(t <= now)
      BY <2>3
    <3> QED BY <1>0, <1>1, <2>1, <3>1 DEF Fault
  <2>9. LoopExact'
    <3> SUFFICES ASSUME InLoop', faults' = 0
                 PROVE  Forward' /\ (sinceTick <= Uncounted)' /\ (prev <= now)'
                        /\ (prev = now => sinceTick = 0)'
      BY DEF LoopExact
    <3>1. /\ Forward /\ sinceTick <= Uncounted /\ prev <= now
          /\ sinceTick' = sinceTick + x /\ prev' = prev /\ prev \in Nat
      BY <1>0, <1>1, <2>3, <2>6, <2>8 DEF LoopExact, InLoop, loopVars, U64
    <3>2. Forward' /\ Uncounted' = Uncounted + x
      BY <2>4, <3>1
    <3> DEFINE v == Uncounted'
               w == sinceTick'
    <3>3. v = Uncounted + x /\ w = sinceTick + x
      BY <3>1, <3>2
    <3> HIDE DEF v, w
    <3>4. w <= v
      BY <1>1, <3>1, <3>3
    <3>5. prev <= t /\ prev # t
      BY <1>1, <2>1, <2>8, <3>1
    <3> QED BY <2>3, <3>1, <3>2, <3>4, <3>5 DEF v, w
  <2>10. NoBackfill' /\ TickLosesLittle'
    BY <1>0, <2>3, <2>8, TickKept DEF loopVars, provider
  <2> QED BY <2>5, <2>7, <2>9, <2>10 DEF EnergyInv
<1>4. ASSUME NEW c \in Channels, Reset(c) PROVE EnergyInv'
  <2>1. /\ count' = [count EXCEPT ![c] = 0] /\ faults' = faults + 1
        /\ UNCHANGED <<loopVars, provider, burnt, now, ghosts>>
    BY <1>4 DEF Reset, Fault
  <2>2. (Uncounted \in Nat)' /\ Uncounted' <= Uncounted
    BY <1>0, <2>1, ResetCounts DEF provider
  <2>3. faults' # 0
    BY <1>0, <2>1
  <2>4. Covered' /\ StampCovered'
    <3>1. PICK x \in Nat : x = 0
      OBVIOUS
    <3>2. burnt' = burnt + x /\ Uncounted' <= Uncounted + x
      <4> DEFINE v == Uncounted'
      <4>1. v \in Nat /\ v <= Uncounted /\ burnt' = burnt
        BY <2>1, <2>2
      <4> HIDE DEF v
      <4>2. v <= Uncounted + x /\ burnt' = burnt + x
        BY <1>1, <3>1, <4>1
      <4> QED BY <4>2 DEF v
    <3> QED BY <1>0, <1>1, <2>1, <2>2, <3>2, BurnCovered DEF ghosts
  <2>5. LoopCovered'
    <3> DEFINE v == Uncounted'
    <3>1. v \in Nat /\ v <= Uncounted
      BY <2>2
    <3> HIDE DEF v
    <3>2. Uncounted <= sinceTick => v <= sinceTick
      BY <1>1, <3>1
    <3> QED BY <1>0, <2>1, <3>2 DEF LoopCovered, InLoop, loopVars, provider, ghosts, v
  <2>6. LoopExact'
    BY <2>3 DEF LoopExact
  <2>7. NoBackfill' /\ TickLosesLittle'
    BY <1>0, <2>1, <2>3, TickKept DEF loopVars, provider, ghosts
  <2> QED BY <2>4, <2>5, <2>6, <2>7 DEF EnergyInv
<1>5. ASSUME NEW seen \in SUBSET Channels, sample_energy_model_delta(seen), count' = count
      PROVE  /\ Uncounted' = 0 /\ Forward'
             /\ faults' = 0 => faults = 0 /\ seen = Channels
  <2>1. Uncounted' = 0 /\ Forward'
    BY <1>0, <1>5, SlideCounts DEF sample_energy_model_delta
  <2>2. faults' = 0 => faults = 0 /\ seen = Channels
    BY <1>0, <1>5 DEF sample_energy_model_delta, Fault
  <2> QED BY <2>1, <2>2
<1>6. ASSUME NEW seen \in SUBSET Channels, SampleOk(seen) PROVE EnergyInv'
  <2>1. /\ TickOk(now, active_power_uw(seen), idle_power_uw, active_pids)
        /\ sample_energy_model_delta(seen) /\ last_observed_at_ns' = now /\ stamped' = burnt
        /\ UNCHANGED <<idle_power_uw, count, burnt, now>>
        /\ sinceTick' = 0 /\ tickBurn' = sinceTick
        /\ tickNs' = IF prev = NoSnapshot THEN 0 ELSE saturating_sub(now, prev)
    BY <1>6 DEF SampleOk, sample_power_state, Attempt
  <2>2. Uncounted' = 0 /\ Forward' /\ (faults' = 0 => faults = 0 /\ seen = Channels)
    BY <1>5, <2>1
  <2>3. now \in U64 /\ active_power_uw(seen) \in Nat /\ idle_power_uw \in Nat
        /\ active_pids \in Seq(Pids)
    BY <1>0, SnapshotPower, PidListsAreSeqs DEF ClockOK, U64
  <2>4. /\ pc = "await" /\ Owed = 0 /\ prev' = now /\ handed' = handed
        /\ prev = NoSnapshot => pc' = "await" /\ Owed' = 0
        /\ prev # NoSnapshot =>
             /\ Owed' = delta'
             /\ delta' = burst_energy_uj(active_power_uw(seen), idle_power_uw, saturating_sub(now, prev))
    BY <1>0, <2>1, <2>3, TickOkStep
  <2>5. LoopCovered' /\ LoopExact'
    <3>1. 0 <= 0 /\ now <= now
      BY <1>1
    <3> QED BY <2>1, <2>2, <2>4, <3>1 DEF LoopCovered, LoopExact
  <2>6. StampCovered'
    BY <1>1, <2>1, <2>2 DEF StampCovered
  <2> DEFINE k == NJ_PER_UJ
             m == handed * k
  <2>7. m \in Nat /\ m + Uncounted <= burnt
    BY <1>0, <1>1, <2>4 DEF Covered
  <2>8. CASE prev = NoSnapshot
    <3>1. NoBackfill' /\ TickLosesLittle'
      BY <2>4, <2>8, NoTick
    <3>2. Covered'
      <4>1. (handed + 0) * k + 0 <= burnt
        BY <1>1, <2>7
      <4> QED BY <2>1, <2>2, <2>4, <2>8, <4>1 DEF Covered
    <3> QED BY <2>5, <2>6, <3>1, <3>2 DEF EnergyInv
  <2>9. CASE prev # NoSnapshot
    <3>1. prev = last_observed_at_ns /\ Uncounted <= sinceTick
      BY <1>0, <2>4, <2>9 DEF LoopCovered, InLoop
    <3> DEFINE truncated == Cardinality(Channels) * (k - 1)
               dt == saturating_sub(now, prev)
               d == burst_energy_uj(active_power_uw(seen), idle_power_uw, dt)
               u == Uncounted
    <3>2. /\ d \in Nat /\ dt \in Nat /\ d * k <= u
          /\ (seen = Channels /\ idle_power_uw = 0 /\ prev > 0 /\ dt > 0 /\ (u \div k) * NS <= MaxU)
               => (u - d * k - truncated) * NS < k * (NS + dt)
      BY <1>0, <3>1, TickDelta
    <3>3. delta' = d /\ Owed' = d /\ tickNs' = dt
      BY <2>1, <2>4, <2>9
    <3>4. dt = 0 <=> now <= prev
      BY <1>1, <3>1 DEF saturating_sub
    <3>5. dt < now => prev > 0
      BY <1>1, <3>1 DEF saturating_sub
    <3> HIDE DEF d, dt, u
    <3>6. u \in Nat /\ u <= sinceTick /\ m + u <= burnt
      BY <1>1, <2>7, <3>1 DEF u
    <3>7. d * k \in Nat
      BY <3>2
    <3>8. Covered'
      <4>1. (handed + d) * k + 0 = m + d * k
        BY <1>1, <3>2
      <4> DEFINE dk == d * k
      <4>2. dk \in Nat /\ dk <= u
        BY <3>2, <3>7
      <4> HIDE DEF dk, m
      <4>3. m + dk <= burnt
        BY <1>1, <2>7, <3>6, <4>2
      <4>4. (handed + d) * k + 0 <= burnt
        BY <4>1, <4>3 DEF dk
      <4> QED BY <2>1, <2>2, <2>4, <3>3, <4>4 DEF Covered
    <3>9. NoBackfill'
      <4> DEFINE dk == d * k
      <4>1. dk \in Nat /\ dk <= u
        BY <3>2, <3>7
      <4> HIDE DEF dk
      <4>2. dk <= sinceTick
        BY <1>1, <3>6, <4>1
      <4> QED BY <2>1, <3>3, <4>2 DEF NoBackfill, dk
    <3>10. TickLosesLittle'
      <4> SUFFICES ASSUME faults' = 0, idle_power_uw' = 0, tickNs' < prev',
                          (tickBurn' \div NJ_PER_UJ) * NS <= MaxU
                   PROVE  (tickBurn' - delta' * NJ_PER_UJ - truncated) * NS < NJ_PER_UJ * (NS + tickNs')
        BY DEF TickLosesLittle
      <4>1. faults = 0 /\ seen = Channels /\ idle_power_uw = 0 /\ dt < now /\ prev > 0
            /\ (sinceTick \div k) * NS <= MaxU
        BY <2>1, <2>2, <2>4, <3>3, <3>5
      <4>2. sinceTick <= u /\ prev <= now /\ (prev = now => sinceTick = 0)
        BY <1>0, <2>4, <2>9, <4>1 DEF LoopExact, InLoop, u
      <4>3. sinceTick = u
        BY <1>1, <3>6, <4>2
      <4>4. (u - d * k - truncated) * NS < k * (NS + dt)
        <5>1. CASE dt > 0
          BY <3>2, <4>1, <4>3, <5>1
        <5>2. CASE dt = 0
          <6>1. u = 0 /\ d = 0
            <7>1. prev = now
              BY <1>1, <3>1, <3>4, <4>2, <5>2
            <7>2. u = 0
              BY <4>2, <4>3, <7>1
            <7> DEFINE dk == d * k
            <7>3. dk <= 0 /\ dk \in Nat /\ dk = d * k
              BY <3>2, <3>7, <7>2
            <7> HIDE DEF dk
            <7>4. d * k = 0
              BY <7>3
            <7>5. d = 0
              BY <3>2, <7>4
            <7> QED BY <7>2, <7>5
          <6>2. NS \in Nat \ {0} /\ k \in Nat \ {0} /\ Cardinality(Channels) \in Nat
            BY AttributionAssumption, FS_CardinalityType DEF NS
          <6>3. truncated \in Nat
            BY <6>2
          <6> HIDE DEF truncated, k
          <6>4. (0 - 0 * k - truncated) * NS <= 0
            <7>1. 0 - 0 * k - truncated <= 0 /\ 0 - 0 * k - truncated \in Int
              BY <6>2, <6>3
            <7> DEFINE y == 0 - 0 * k - truncated
            <7> HIDE DEF y
            <7>2. y \in Int /\ y <= 0
              BY <7>1 DEF y
            <7>3. y * NS <= 0
              BY <6>2, <7>2
            <7> QED BY <7>3 DEF y
          <6>5. k * (NS + 0) > 0 /\ k * (NS + 0) \in Int /\ (0 - 0 * k - truncated) * NS \in Int
            BY <6>2, <6>3
          <6>6. (0 - 0 * k - truncated) * NS < k * (NS + 0)
            <7> DEFINE y == (0 - 0 * k - truncated) * NS
                       z == k * (NS + 0)
            <7>1. y <= 0 /\ z > 0 /\ y \in Int /\ z \in Int
              BY <6>4, <6>5
            <7> HIDE DEF y, z
            <7>2. y < z
              BY <7>1
            <7> QED BY <7>2 DEF y, z
          <6> QED BY <5>2, <6>1, <6>6
        <5> QED BY <3>2, <5>1, <5>2
      <4> QED BY <2>1, <3>3, <4>3, <4>4
    <3> QED BY <2>5, <2>6, <3>8, <3>9, <3>10 DEF EnergyInv
  <2> QED BY <2>8, <2>9
<1>7. ASSUME NEW seen \in SUBSET Channels, MainSample(seen) \/ MainDelta(seen) PROVE EnergyInv'
  <2>1. /\ pc = "main" /\ sample_energy_model_delta(seen) /\ UNCHANGED <<loopVars, count, burnt>>
        /\ stamped' = stamped \/ stamped' = burnt
    BY <1>7 DEF MainSample, MainDelta, sample_power_state, ghosts
  <2>2. Uncounted' = 0 /\ pc' = "main" /\ handed' = handed /\ Owed' = Owed
    BY <1>5, <2>1 DEF loopVars, Owed
  <2>3. LoopCovered' /\ LoopExact' /\ NoBackfill' /\ TickLosesLittle'
    BY <2>2, NoTick DEF LoopCovered, LoopExact, InLoop
  <2>4. StampCovered'
    <3>1. stamped <= burnt
      BY <1>0, <1>1 DEF StampCovered
    <3>2. stamped + 0 <= burnt /\ burnt + 0 <= burnt
      BY <1>1, <3>1
    <3> QED BY <2>1, <2>2, <3>2 DEF StampCovered
  <2>5. Covered'
    <3> DEFINE m == (handed + Owed) * NJ_PER_UJ
    <3>1. m \in Nat /\ m + Uncounted <= burnt
      BY <1>0, <1>1 DEF Covered
    <3> HIDE DEF m
    <3>2. m + 0 <= burnt
      BY <1>1, <3>1
    <3> QED BY <2>1, <2>2, <3>2 DEF Covered, m
  <2> QED BY <2>3, <2>4, <2>5 DEF EnergyInv
<1>8. ASSUME UNCHANGED <<previous_samples, count, burnt, stamped, handed>>, Owed' = Owed,
             ~InLoop', pc' # "credit"
      PROVE  EnergyInv'
  <2>1. Covered' /\ StampCovered'
    BY <1>2, <1>8
  <2>2. LoopCovered' /\ LoopExact' /\ NoBackfill' /\ TickLosesLittle'
    BY <1>8, NoTick DEF LoopCovered, LoopExact
  <2> QED BY <2>1, <2>2 DEF EnergyInv
<1>9. CASE SampleErr
  <2>1. TickErr /\ UNCHANGED <<provider, world, stamped>>
    BY <1>9 DEF SampleErr
  <2>2. Owed' = Owed /\ handed' = handed /\ pc' # "credit" /\ prev' = NoSnapshot
    BY <1>0, <2>1, ControlStep DEF TickErr
  <2> QED BY <1>8, <2>1, <2>2 DEF provider, world, InLoop
<1>10. CASE Control
  <2>1. (StartLoop \/ DropLoop) /\ UNCHANGED <<provider, world, ghosts>>
    BY <1>10 DEF Control
  <2>2. Owed' = Owed /\ handed' = handed /\ pc' # "credit"
    BY <1>0, <2>1, ControlStep
  <2>3. ~InLoop'
    BY <2>1 DEF StartLoop, DropLoop, InLoop
  <2> QED BY <1>8, <2>1, <2>2, <2>3 DEF provider, world, ghosts
<1>11. ASSUME UNCHANGED <<previous_samples, last_observed_at_ns, world, ghosts, handed, prev>>,
              Owed' = Owed, InLoop' => InLoop, NoBackfill', TickLosesLittle'
       PROVE  EnergyInv'
  <2>1. Covered' /\ StampCovered' /\ Uncounted' = Uncounted /\ (Forward => Forward')
    BY <1>2, <1>11 DEF world, ghosts
  <2>2. LoopCovered'
    BY <1>0, <1>11, <2>1 DEF LoopCovered, ghosts
  <2>3. LoopExact'
    BY <1>0, <1>11, <2>1 DEF LoopExact, world, ghosts
  <2> QED BY <1>11, <2>1, <2>2, <2>3 DEF EnergyInv
<1>12. CASE Finish
  <2>1. UNCHANGED <<provider, world, ghosts>>
    BY <1>12 DEF Finish
  <2>2. CASE Heartbeat
    <3>1. Owed' = Owed /\ UNCHANGED <<handed, prev>> /\ pc = "credit" /\ pc' = "await"
      BY <1>0, <2>2, HeartbeatStep
    <3>2. InLoop' => InLoop
      BY <3>1 DEF InLoop
    <3> QED BY <1>11, <2>1, <3>1, <3>2, NoTick DEF provider
  <2>3. CASE Credit
    <3>1. /\ UNCHANGED <<pc, prev, delta>>
          /\ handed' \in Nat /\ handed' + Owed' = handed + Owed
      BY <1>0, <2>3, CreditStep
    <3>2. NoBackfill' /\ TickLosesLittle'
      BY <1>0, <2>1, <3>1, TickKept DEF provider, world, ghosts
    <3>3. Uncounted' = Uncounted /\ (Forward => Forward')
      BY <2>1 DEF provider, world, Uncounted, Ahead, Forward
    <3>4. Covered' /\ StampCovered'
      BY <1>0, <2>1, <3>1, <3>3 DEF Covered, StampCovered, world, ghosts
    <3>5. LoopCovered' /\ LoopExact'
      BY <1>0, <2>1, <3>1, <3>3 DEF LoopCovered, LoopExact, InLoop, provider, world, ghosts
    <3> QED BY <3>2, <3>4, <3>5 DEF EnergyInv
  <2> QED BY <1>12, <2>2, <2>3 DEF Finish
<1>13. CASE set_active_pids \/ set_idle_power_uw \/ attribute_joules_to_pid \/ Sync
  <2>1. /\ UNCHANGED <<previous_samples, last_observed_at_ns, world, ghosts, handed, prev>>
        /\ pc = "main" /\ pc' = "main"
    BY <1>13 DEF set_active_pids, set_idle_power_uw, attribute_joules_to_pid, enqueue_attribution, Sync,
                 sync_registry, loopVars, provider
  <2>2. Owed' = Owed
    BY <2>1 DEF Owed
  <2>3. (InLoop' => InLoop) /\ NoBackfill' /\ TickLosesLittle'
    BY <2>1, NoTick DEF InLoop
  <2> QED BY <1>11, <2>1, <2>2, <2>3
<1>14. CASE UNCHANGED avars
  <2>1. UNCHANGED <<loopVars, provider, world, ghosts>>
    BY <1>14 DEF avars
  <2>2. NoBackfill' /\ TickLosesLittle'
    BY <1>0, <2>1, TickKept DEF loopVars, provider, world, ghosts
  <2>3. Owed' = Owed /\ (InLoop' => InLoop)
    BY <2>1 DEF loopVars, Owed, InLoop
  <2> QED BY <1>11, <2>1, <2>2, <2>3 DEF loopVars, provider
<1> QED BY <1>3, <1>4, <1>6, <1>7, <1>9, <1>10, <1>12, <1>13, <1>14 DEF Next

(***************************************************************************)
(* What is credited stays within what was burnt.                           *)
(***************************************************************************)
LEMMA EnergyInvariant == Spec => [](TypeInv /\ EnergyInv)
<1>1. Init => EnergyInv
  <2> SUFFICES ASSUME Init PROVE EnergyInv
    OBVIOUS
  <2>1. pc = "main" /\ handed = 0 /\ Owed = 0 /\ burnt = 0 /\ stamped = 0
    BY LoopStart DEF Init, LoopInit
  <2>2. Uncounted = 0
    <3>1. \A c \in Channels : Ahead[c] = 0
      BY DEF Init, Ahead
    <3> QED BY <3>1, AppleAssumption, SumZero DEF Uncounted
  <2>3. (0 + 0) * NJ_PER_UJ + 0 <= 0
    BY AppleAssumption
  <2> QED BY <2>1, <2>2, <2>3 DEF EnergyInv, Covered, StampCovered, LoopCovered, LoopExact, InLoop,
                                  NoBackfill, TickLosesLittle
<1> QED BY <1>1, EnergyStep, TypeInvariant, PTL DEF Spec

(***************************************************************************)
(* The loops never credit energy the channels did not burn.                *)
(***************************************************************************)
THEOREM AppleNeverFabricates == Spec => []NeverFabricates
<1>1. TypeInv /\ EnergyInv => NeverFabricates
  <2> SUFFICES ASSUME TypeInv, EnergyInv PROVE NeverFabricates
    OBVIOUS
  <2>0. LoopOK /\ SamplesOK /\ CountOK /\ Covered
    BY DEF TypeInv, EnergyInv
  <2> DEFINE m == (handed + Owed) * NJ_PER_UJ
  <2>1. m \in Nat /\ Uncounted \in Nat /\ burnt \in Nat /\ m + Uncounted <= burnt
    BY <2>0, OwedType, AheadType, AppleAssumption DEF Covered, CountOK, LoopOK, LoopTypeOK
  <2> HIDE DEF m
  <2>2. m <= burnt
    BY <2>1
  <2> QED BY <2>2 DEF NeverFabricates, m, Owed
<1> QED BY <1>1, EnergyInvariant, PTL

(***************************************************************************)
(* A tick is charged at most what was burnt since the attempt before it.   *)
(***************************************************************************)
THEOREM AppleNoBackfill == Spec => []NoBackfill
<1>1. EnergyInv => NoBackfill
  BY DEF EnergyInv
<1> QED BY <1>1, EnergyInvariant, PTL

(***************************************************************************)
(* No reading overstates the power since the last stamp.                   *)
(***************************************************************************)
THEOREM ApplePowerNeverOverstated == Spec => []PowerNeverOverstated
<1>1. TypeInv /\ EnergyInv => PowerNeverOverstated
  <2> SUFFICES ASSUME TypeInv, EnergyInv, NEW seen \in SUBSET Channels
               PROVE  total_uj(seen) * NJ_PER_UJ <= burnt - stamped
    BY DEF PowerNeverOverstated
  <2>0. SamplesOK /\ CountOK /\ GhostOK /\ StampCovered
    BY DEF TypeInv, EnergyInv
  <2> DEFINE t == total_uj(seen)
             k == NJ_PER_UJ
  <2>1. t \in Nat /\ k \in Nat /\ k * t <= Uncounted
    BY <2>0, TotalBounds, AppleAssumption
  <2> HIDE DEF t, k
  <2>2. t * k = k * t /\ k * t \in Nat
    BY <2>1
  <2>3. Uncounted \in Nat /\ burnt \in Nat /\ stamped \in Nat /\ stamped + Uncounted <= burnt
    BY <2>0, AheadType DEF CountOK, GhostOK, StampCovered
  <2>4. t * k <= burnt - stamped
    BY <2>1, <2>2, <2>3
  <2> QED BY <2>4 DEF t, k
<1> QED BY <1>1, EnergyInvariant, PTL

(***************************************************************************)
(* A tick without faults and baseline loses less than 1 uJ per channel,    *)
(* 1 uJ, and 1 uJ per second.                                              *)
(***************************************************************************)
THEOREM AppleTickLosesLittle == Spec => []TickLosesLittle
<1>1. EnergyInv => TickLosesLittle
  BY DEF EnergyInv
<1> QED BY <1>1, EnergyInvariant, PTL
===============================================================================
