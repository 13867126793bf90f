---------------------------- MODULE WindowsProofs ----------------------------
(***************************************************************************)
(* What TLAPS proves of the Windows provider: its types, that a tick       *)
(* splits its energy over the processes of that tick, and that the windows *)
(* main attributes add up, for any number of processes and any capacity of *)
(* the scratch buffer.                                                     *)
(***************************************************************************)
EXTENDS WindowsProvider, SamplingProofs

-------------------------------------------------------------------------------
(* The shares of a window *)

(***************************************************************************)
(* Every equal share is at most the total, and the shares add up to it:    *)
(* the first total % n processes get the remainder's micro-joules.         *)
(***************************************************************************)
LEMMA EqualSharesAddUp ==
  ASSUME NEW total \in Nat, NEW n \in Nat \ {0}
  PROVE  /\ DOMAIN EqualShares(total, n) = 1 .. n
         /\ \A i \in 1 .. n : EqualShares(total, n)[i] \in Nat /\ EqualShares(total, n)[i] <= total
         /\ SumOf(EqualShares(total, n), 1 .. n) = total
<1> DEFINE q == total \div n
           r == total - q * n
           f == [i \in 1 .. n |-> q]
           g == [i \in 1 .. n |-> IF i <= r THEN 1 ELSE 0]
           h == EqualShares(total, n)
<1>1. q \in Nat /\ q * n <= total /\ total - q * n < n
  BY DivisionBounds
<1>2. h = [i \in 1 .. n |-> q + (IF i <= r THEN 1 ELSE 0)]
  BY DEF EqualShares
<1>3. q * n \in Nat
  BY <1>1
<1> HIDE DEF q
<1>4. r \in Nat /\ r < n /\ q * n + r = total
  <2> DEFINE m == q * n
  <2>1. m \in Nat /\ m <= total /\ total - m < n
    BY <1>1, <1>3
  <2> HIDE DEF m
  <2>2. total - m \in Nat /\ total - m < n /\ m + (total - m) = total
    BY <2>1
  <2> QED BY <2>2 DEF m
<1>5. q <= q * n
  <2>1. q * 1 <= q * n
    BY <1>1, ProductGrows
  <2> QED BY <1>1, <2>1
<1> HIDE DEF r, h
<1>6. \A i \in 1 .. n : h[i] \in Nat /\ h[i] <= total
  <2> DEFINE m == q * n
  <2>1. m \in Nat /\ m + r = total /\ q <= m
    BY <1>3, <1>4, <1>5
  <2> HIDE DEF m
  <2> QED BY <1>1, <1>2, <1>4, <2>1
<1>7. IsFiniteSet(1 .. n) /\ Cardinality(1 .. n) = n /\ IsFiniteSet(1 .. r) /\ Cardinality(1 .. r) = r
  BY <1>4, FS_Interval
<1>8. \A i \in 1 .. n : f[i] = q /\ f[i] \in Nat /\ g[i] \in Nat /\ h[i] = f[i] + g[i]
  BY <1>1, <1>2
<1>9. (1 .. r) \in SUBSET (1 .. n) /\ (\A i \in 1 .. r : g[i] = 1)
      /\ \A i \in (1 .. n) \ (1 .. r) : g[i] = 0
  BY <1>4
<1> HIDE DEF f, g
<1>10. SumOf(f, 1 .. n) = q * n
  <2>1. \A i \in 1 .. n : f[i] = q
    BY <1>8
  <2>2. SumOf(f, 1 .. n) = q * Cardinality(1 .. n)
    <3> DEFINE S == 1 .. n
    <3>1. IsFiniteSet(S) /\ (\A i \in S : f[i] = q) /\ q \in Nat
      BY <1>1, <1>7, <2>1
    <3> HIDE DEF S
    <3>2. SumOf(f, S) = q * Cardinality(S)
      BY ONLY <3>1, SumConst, Zenon
    <3> QED BY <3>2 DEF S
  <2> QED BY <1>7, <2>2
<1>11. SumOf(g, 1 .. n) = SumOf(g, 1 .. r)
  BY <1>7, <1>8, <1>9, SumSupport
<1>12. SumOf(g, 1 .. r) = r
  <2>1. PICK c \in Nat : c = 1
    OBVIOUS
  <2>2. \A i \in 1 .. r : g[i] = c
    BY <1>9, <2>1
  <2>3. SumOf(g, 1 .. r) = c * Cardinality(1 .. r)
    BY <1>7, <2>2, SumConst
  <2> QED BY <1>4, <1>7, <2>1, <2>3
<1>13. SumOf(h, 1 .. n) = SumOf(f, 1 .. n) + SumOf(g, 1 .. n)
  BY <1>7, <1>8, SumPlus
<1>14. SumOf(h, 1 .. n) = total
  BY <1>4, <1>10, <1>11, <1>12, <1>13
<1>15. DOMAIN h = 1 .. n
  BY <1>2
<1> QED BY <1>6, <1>14, <1>15 DEF h

(***************************************************************************)
(* window_energy_uj is the rounded and clamped product as long as the      *)
(* product of the sub-second part fits.                                    *)
(***************************************************************************)
LEMMA WindowEnergyIsClamped ==
  ASSUME NEW p \in Nat, NEW t \in Nat, p * (t % NS) <= MaxU
  PROVE  window_energy_uj(p, t) = clamp((p * t) \div NS)
<1>1. NS \in Nat \ {0} /\ MaxU \in Nat
  BY AttributionAssumption, MaxUAssumption DEF NS
<1> DEFINE a == p * (t \div NS)
           c == p * (t % NS)
           b == c \div NS
<1>2. t \div NS \in Nat /\ t % NS \in Nat
  BY <1>1
<1>3. a \in Nat /\ c \in Nat
  BY <1>2
<1>4. clamp(c) = c
  BY <1>1, <1>3 DEF clamp
<1>5. window_energy_uj(p, t) = clamp(clamp(a) + (clamp(c) \div NS))
  BY DEF window_energy_uj, saturating_add, saturating_mul
<1>6. (p * t) \div NS = a + b
  BY SplitWindow
<1> HIDE DEF a, c
<1>7. b \in Nat
  BY <1>1, <1>3, DivisionBounds
<1>8. window_energy_uj(p, t) = clamp(clamp(a) + b)
  BY <1>4, <1>5
<1> HIDE DEF b
<1> QED BY <1>3, <1>6, <1>7, <1>8, ClampAdd

(***************************************************************************)
(* The share of a time slice is a u64.                                     *)
(***************************************************************************)
LEMMA ModelShareIsU64 ==
  ASSUME NEW uw \in Nat, NEW idle \in Nat, NEW dt \in Nat, NEW n \in Nat \ {0}
  PROVE  deterministic_attribution_uj(uw, idle, dt \div n, dt) \in U64
<1> DEFINE p == saturating_sub(uw, idle)
           s == dt \div n
           t == IF s < dt THEN s ELSE dt
<1>1. p \in Nat /\ NS \in Nat \ {0}
  BY AttributionAssumption DEF saturating_sub, NS
<1>2. t \in Nat
  BY DivisionBounds
<1> HIDE DEF p, t
<1>3. p * t \in Nat
  BY <1>1, <1>2
<1>4. clamp((p * t) \div NS) \in U64
  BY <1>1, <1>3, DivisionBounds, ClampBounds
<1>5. 0 \in U64
  BY MaxUAssumption DEF U64
<1> QED BY <1>4, <1>5 DEF deterministic_attribution_uj, p, t

(***************************************************************************)
(* The n equal time slices of attribute_window never get more than the     *)
(* burst energy of the whole window, if that is not saturated.             *)
(***************************************************************************)
LEMMA ModelSharesAreCovered ==
  ASSUME NEW uw \in Nat, NEW idle \in Nat, NEW dt \in Nat, NEW n \in Nat \ {0},
         uw * (NS - 1) <= MaxU, burst_energy_uj(uw, idle, dt) < MaxU
  PROVE  LET uj == deterministic_attribution_uj(uw, idle, dt \div n, dt)
         IN  uj \in U64 /\ uj * n <= burst_energy_uj(uw, idle, dt)
<1>1. NS \in Nat \ {0} /\ MaxU \in Nat
  BY AttributionAssumption, MaxUAssumption DEF NS
<1> DEFINE p == saturating_sub(uw, idle)
           s == dt \div n
           uj == deterministic_attribution_uj(uw, idle, s, dt)
           e == burst_energy_uj(uw, idle, dt)
           X == (p * dt) \div NS
           A == (p * s) \div NS
<1>2. p \in Nat /\ p <= uw
  BY DEF saturating_sub
<1>3. s \in Nat /\ s * n <= dt
  BY DivisionBounds
<1>4. s <= dt
  <2>1. s * 1 <= s * n
    BY <1>3, ProductGrows
  <2>2. s * n \in Nat
    BY <1>3
  <2> HIDE DEF s
  <2> QED BY <1>3, <2>1, <2>2
<1>5. uj = IF dt = 0 THEN 0 ELSE clamp(A)
  <2> HIDE DEF s, p
  <2>1. (IF s < dt THEN s ELSE dt) = s
    BY <1>3, <1>4
  <2> QED BY <2>1 DEF deterministic_attribution_uj, p
<1>6. e = clamp(X)
  <2>1. p * (dt % NS) <= MaxU
    <3> DEFINE r == dt % NS
    <3>1. r \in Nat /\ r <= NS - 1 /\ NS - 1 \in Nat
      BY <1>1
    <3> HIDE DEF p, r
    <3>2. p * r <= p * (NS - 1)
      BY <1>2, <3>1, ProductGrows
    <3>3. (NS - 1) * p <= (NS - 1) * uw
      BY <1>2, <3>1, ProductGrows
    <3>4. (NS - 1) * p = p * (NS - 1) /\ (NS - 1) * uw = uw * (NS - 1) /\ p * r \in Nat
          /\ p * (NS - 1) \in Nat /\ uw * (NS - 1) \in Nat
      BY <1>2, <3>1
    <3>5. p * r <= MaxU
      BY <1>1, <3>2, <3>3, <3>4
    <3> QED BY <3>5 DEF r
  <2> HIDE DEF p
  <2>2. window_energy_uj(p, dt) = clamp(X)
    BY <1>2, <2>1, WindowEnergyIsClamped
  <2> QED BY <2>2 DEF burst_energy_uj, baseline_burst_power_uw, p
<1> HIDE DEF p, s
<1>7. p * s \in Nat /\ p * dt \in Nat /\ X \in Nat /\ A \in Nat
      /\ A * NS <= p * s /\ p * dt < X * NS + NS
  <2>1. p * s \in Nat /\ p * dt \in Nat
    BY <1>2, <1>3
  <2>2. A \in Nat /\ A * NS <= p * s
    BY <1>1, <2>1, DivisionBounds
  <2>3. X \in Nat /\ p * dt - X * NS < NS
    BY <1>1, <2>1, DivisionBounds
  <2> DEFINE y == X * NS
             z == p * dt
  <2>4. y \in Nat
    BY <1>1, <2>3
  <2>5. z \in Nat /\ z - y < NS
    BY <2>1, <2>3
  <2> HIDE DEF y, z
  <2>6. z < y + NS
    BY <1>1, <2>4, <2>5
  <2> QED BY <2>1, <2>2, <2>3, <2>6 DEF y, z
<1>8. e = X
  <2>1. clamp(X) < MaxU
    BY <1>6
  <2> HIDE DEF X
  <2> QED BY <1>1, <1>6, <1>7, <2>1 DEF clamp
<1>9. A * n <= X
  <2> HIDE DEF A, X
  <2>1. n * (A * NS) <= n * (p * s)
    BY <1>1, <1>7, ProductGrows
  <2>2. n * (p * s) = p * (s * n)
    BY <1>2, <1>3
  <2>3. p * (s * n) <= p * dt
    BY <1>2, <1>3, ProductGrows
  <2>4. n * (A * NS) = (A * n) * NS
    BY <1>1, <1>7
  <2>5. (A * n) * NS < X * NS + NS
    <3> DEFINE w == (A * n) * NS
               v == p * dt
               y == X * NS
               k == p * (s * n)
    <3>1. w \in Int /\ v \in Int /\ y \in Int /\ k \in Int /\ w <= k /\ k <= v /\ v < y + NS
      BY <1>1, <1>2, <1>3, <1>7, <2>1, <2>2, <2>3, <2>4
    <3> HIDE DEF w, v, y, k
    <3>2. w < y + NS
      BY <1>1, <3>1
    <3> QED BY <3>2 DEF w, y
  <2> SUFFICES ASSUME X < A * n PROVE FALSE
    BY <1>7
  <2> DEFINE m == A * n
  <2>6. m \in Nat /\ X + 1 <= m
    BY <1>7
  <2> HIDE DEF m
  <2>7. NS * (X + 1) <= NS * m
    BY <1>1, <1>7, <2>6, ProductGrows
  <2>8. NS * (X + 1) = X * NS + NS /\ NS * m = m * NS /\ X * NS \in Nat /\ m * NS \in Nat
    BY <1>1, <1>7, <2>6
  <2>9. m * NS < X * NS + NS
    BY <2>5 DEF m
  <2> QED BY <1>1, <2>7, <2>8, <2>9
<1>10. uj \in U64 /\ uj <= A /\ uj \in Nat
  <2> HIDE DEF A, uj
  <2>1. clamp(A) \in U64 /\ clamp(A) <= A
    BY <1>7, ClampBounds
  <2>2. 0 \in U64 /\ 0 <= A
    BY <1>1, <1>7 DEF U64
  <2> QED BY <1>1, <1>5, <2>1, <2>2 DEF U64
<1> HIDE DEF uj, A, X, e
<1>11. uj * n <= X
  <2>1. n * uj <= n * A
    BY <1>7, <1>10, ProductGrows
  <2>2. n * uj = uj * n /\ n * A = A * n /\ uj * n \in Nat /\ A * n \in Nat
    BY <1>7, <1>10
  <2> DEFINE y == uj * n
             k == A * n
  <2>3. y \in Nat /\ k \in Nat /\ y <= k /\ k <= X
    BY <1>9, <2>1, <2>2
  <2> HIDE DEF y, k
  <2>4. y <= X
    BY <1>7, <2>3
  <2> QED BY <2>4 DEF y
<1> QED BY <1>8, <1>10, <1>11 DEF uj, e, s

(***************************************************************************)
(* Attribute adds the shares to the registry, exactly if nothing saturates.*)
(***************************************************************************)
LEMMA AttributeStep ==
  ASSUME LoopOK, procs \in Seq(Pids), NEW uj, \A i \in 1 .. Len(procs) : uj[i] \in U64,
         Attribute(uj)
  PROVE  /\ LoopOK' /\ UNCHANGED <<pc, handed>> /\ last_pids' = procs
         /\ SumOf(uj, 1 .. Len(procs)) \in Nat
         /\ SumOf(energy, Buckets) + SumOf(uj, 1 .. Len(procs)) <= MaxU =>
              SumOf(energy', Buckets) = SumOf(energy, Buckets) + SumOf(uj, 1 .. Len(procs))
<1> DEFINE n == Len(procs)
           list == [i \in DOMAIN procs |-> [pid |-> procs[i], uj |-> uj[i]]]
<1>1. /\ AddAll(list) /\ last_pids' = procs
      /\ UNCHANGED <<pc, prev, cumulative, delta, todo, share, remainder, handed, start>>
  BY DEF Attribute
<1>2. DOMAIN procs = 1 .. n /\ n \in Nat
  OBVIOUS
<1>3. list \in Seq(Attributions) /\ DOMAIN list = 1 .. n /\ \A i \in 1 .. n : list[i].uj = uj[i]
  <2>1. \A i \in 1 .. n : [pid |-> procs[i], uj |-> uj[i]] \in Attributions
    BY <1>2 DEF Attributions, Buckets
  <2>2. list \in [1 .. n -> Attributions]
    BY <1>2, <2>1
  <2> QED BY <1>2, <2>2
<1>4. energy \in [Buckets -> U64]
  BY DEF LoopOK, LoopTypeOK
<1> HIDE DEF list, n
<1>5. energy' \in [Buckets -> U64]
      /\ (SumOf(energy, Buckets) + SumUj(list) <= MaxU =>
            SumOf(energy', Buckets) = SumOf(energy, Buckets) + SumUj(list))
  BY <1>1, <1>3, <1>4, AddAllStep
<1>6. SumUj(list) = SumOf(uj, 1 .. n) /\ SumUj(list) \in Nat
  <2>1. /\ SumUj(list) = SumOf(UjsOf(list), 1 .. n) /\ SumUj(list) \in Nat /\ IsFiniteSet(1 .. n)
        /\ \A i \in 1 .. n : UjsOf(list)[i] \in Nat /\ UjsOf(list)[i] = list[i].uj
    BY <1>3, ListFacts
  <2> DEFINE f == UjsOf(list)
  <2>2. \A i \in 1 .. n : f[i] \in Nat /\ uj[i] = f[i]
    BY <1>3, <2>1
  <2> HIDE DEF f
  <2>3. SumOf(uj, 1 .. n) = SumOf(f, 1 .. n)
    BY <2>1, <2>2, SumSame
  <2> QED BY <2>1, <2>3 DEF f
<1>7. LoopOK'
  BY <1>1, <1>5 DEF LoopOK, LoopTypeOK
<1> QED BY <1>1, <1>5, <1>6, <1>7 DEF n

-------------------------------------------------------------------------------
(* Types, and the split of a tick *)

TickCall(c) ==
  \E mw \in MilliWatts, t \in U64 : c = [kind |-> "tick", uw |-> mw * THOUSAND, at |-> t]

MainCall(c) ==
  \/ c = [kind |-> "list"]
  \/ c = [kind |-> "sample"]
  \/ \E mw \in MilliWatts, dt \in Windows : c = [kind |-> "window", mw |-> mw, dt |-> dt]
  \/ \E mw \in MilliWatts, idle \in IdlePowers, dt \in Windows :
       c = [kind |-> "model", uw |-> mw * THOUSAND, idle |-> idle, dt |-> dt]

\* the loop waits while its tick asks NVML, and there is no loop while main does
CallOK ==
  \/ call = NoCall
  \/ TickCall(call) /\ pc = "await"
  \/ MainCall(call) /\ pc = "main"

BufferOK == last_pids \in Seq(Pids) /\ cap \in Nat /\ len \in 0 .. cap

GpuOK == procs \in ProcLists /\ now \in U64 /\ changes \in Nat /\ calls \in Nat

HistoryOK ==
  /\ odd \in BOOLEAN /\ exact \in Nat /\ atMost \in Nat
  /\ refresh \in [ok : BOOLEAN, pids : Seq(Pids)]

WinInv ==
  /\ LoopOK
  /\ QueueTypeOK
  /\ CallOK
  /\ BufferOK
  /\ GpuOK
  /\ HistoryOK
  /\ SplitIsFresh

(***************************************************************************)
(* What the fields of a call are.                                          *)
(***************************************************************************)
LEMMA CallFields ==
  ASSUME CallOK
  PROVE  /\ call.kind \in {"none", "tick", "list", "sample", "window", "model"}
         /\ call = NoCall <=> call.kind = "none"
         /\ call.kind = "tick" => pc = "await" /\ call.uw \in Nat /\ call.at \in U64
         /\ (call # NoCall /\ call.kind # "tick") => pc = "main"
         /\ call.kind = "window" => call.mw \in Nat /\ call.dt \in Nat
         /\ call.kind = "model" => /\ call.idle \in Nat /\ call.dt \in Nat
                                   /\ \E mw \in MilliWatts : call.uw = mw * THOUSAND
<1> USE WindowsAssumption, MaxUAssumption
<1>1. CASE call = NoCall
  BY <1>1 DEF NoCall
<1>2. CASE TickCall(call) /\ pc = "await"
  <2>1. PICK mw \in MilliWatts, t \in U64 : call = [kind |-> "tick", uw |-> mw * THOUSAND, at |-> t]
    BY <1>2 DEF TickCall
  <2>2. mw * THOUSAND \in Nat
    BY <2>1
  <2> QED BY <1>2, <2>1, <2>2 DEF NoCall
<1>3. CASE MainCall(call) /\ pc = "main"
  <2>1. CASE call = [kind |-> "list"] \/ call = [kind |-> "sample"]
    BY <1>3, <2>1 DEF NoCall
  <2>2. ASSUME NEW mw \in MilliWatts, NEW dt \in Windows,
               call = [kind |-> "window", mw |-> mw, dt |-> dt]
        PROVE  /\ call.kind = "window" /\ call.mw \in Nat /\ call.dt \in Nat
    BY <2>2 DEF U64
  <2>3. ASSUME NEW mw \in MilliWatts, NEW idle \in IdlePowers, NEW dt \in Windows,
               call = [kind |-> "model", uw |-> mw * THOUSAND, idle |-> idle, dt |-> dt]
        PROVE  /\ call.kind = "model" /\ call.idle \in Nat /\ call.dt \in Nat
               /\ call.uw = mw * THOUSAND
    BY <2>3 DEF U64
  <2>4. NoCall.kind = "none"
    BY DEF NoCall
  <2> QED BY <1>3, <2>1, <2>2, <2>3, <2>4 DEF MainCall
<1> QED BY <1>1, <1>2, <1>3 DEF CallOK

(***************************************************************************)
(* NVML's list is a sequence of PIDs.                                      *)
(***************************************************************************)
LEMMA ProcsAreListed ==
  ASSUME GpuOK
  PROVE  procs \in Seq(Pids) /\ Len(procs) \in Nat /\ (procs # <<>> => Len(procs) \in Nat \ {0})
<1>1. PICK n \in Nat : procs \in [1 .. n -> Pids]
  BY WindowsAssumption DEF GpuOK, ProcLists
<1>2. procs \in Seq(Pids)
  BY <1>1
<1> QED BY <1>2

(***************************************************************************)
(* The rest of a tail is a shorter tail.                                   *)
(***************************************************************************)
LEMMA TailOfSuffix ==
  ASSUME NEW S, NEW s \in Seq(S), NEW t, t # <<>>, Len(t) <= Len(s), Len(t) \in Nat,
         t = SubSeq(s, Len(s) - Len(t) + 1, Len(s))
  PROVE  /\ Len(Tail(t)) <= Len(s)
         /\ Tail(t) = SubSeq(s, Len(s) - Len(Tail(t)) + 1, Len(s))
<1> DEFINE n == Len(s)
           k == Len(t)
           r == SubSeq(s, n - (k - 1) + 1, n)
<1>1. n \in Nat /\ k \in Nat
  OBVIOUS
<1>2. t \in Seq(S) /\ k >= 1
  <2>1. SubSeq(s, n - k + 1, n) \in Seq(S)
    BY <1>1
  <2>2. t \in Seq(S)
    BY <2>1
  <2> QED BY <2>2
<1>3. Tail(t) \in Seq(S) /\ Len(Tail(t)) = k - 1 /\ \A i \in 1 .. (k - 1) : Tail(t)[i] = t[i + 1]
  BY <1>2
<1>4. \A i \in 1 .. k : t[i] = s[n - k + i]
  BY <1>1
<1>5. r \in Seq(S) /\ Len(r) = k - 1 /\ \A i \in 1 .. (k - 1) : r[i] = s[n - (k - 1) + i]
  BY <1>1, <1>2
<1> HIDE DEF n, k, r
<1>6. \A i \in 1 .. (k - 1) : Tail(t)[i] = r[i]
  <2> TAKE i \in 1 .. (k - 1)
  <2>1. i + 1 \in 1 .. k /\ n - k + (i + 1) = n - (k - 1) + i
    BY <1>1
  <2> QED BY <1>3, <1>4, <1>5, <2>1
<1>7. Tail(t) = r
  BY <1>3, <1>5, <1>6
<1> QED BY <1>1, <1>2, <1>3, <1>7 DEF n, k, r

(***************************************************************************)
(* Without a tick under way there is no split to be fresh.                 *)
(***************************************************************************)
LEMMA NothingToSplit == ASSUME pc' # "credit" PROVE SplitIsFresh'
  BY DEF SplitIsFresh

(***************************************************************************)
(* The processes, or PID 0 if there are none, are a list of buckets.       *)
(***************************************************************************)
LEMMA SplitOverBuckets ==
  ASSUME NEW pids \in Seq(Pids)
  PROVE  (IF pids = <<>> THEN <<SystemPid>> ELSE pids) \in Seq(Buckets)
<1>1. <<SystemPid>> \in Seq(Buckets)
  BY DEF Buckets
<1>2. pids \in Seq(Buckets)
  BY DEF Buckets
<1> QED BY <1>1, <1>2

(***************************************************************************)
(* A sample that arrives with pids puts them, or PID 0, into the tick.     *)
(***************************************************************************)
LEMMA TickIsFresh ==
  ASSUME LoopOK, NEW t \in U64, NEW uw \in Nat, NEW pids \in Seq(Pids), TickOk(t, uw, 0, pids),
         refresh'.ok => refresh'.pids = pids
  PROVE  LoopOK' /\ SplitIsFresh'
<1>1. /\ LoopOK' /\ pc = "await"
      /\ prev = NoSnapshot => pc' = "await"
      /\ prev # NoSnapshot => todo' = IF pids = <<>> THEN <<SystemPid>> ELSE pids
  BY TickOkStep
<1>2. CASE prev = NoSnapshot
  BY <1>1, <1>2, NothingToSplit
<1>3. CASE prev # NoSnapshot
  <2> DEFINE over == IF pids = <<>> THEN <<SystemPid>> ELSE pids
  <2>1. over \in Seq(Buckets)
    BY SplitOverBuckets
  <2> HIDE DEF over
  <2>2. Len(over) <= Len(over) /\ over = SubSeq(over, Len(over) - Len(over) + 1, Len(over))
    BY <2>1
  <2>3. todo' = over
    BY <1>1, <1>3 DEF over
  <2> QED BY <1>1, <2>2, <2>3 DEF SplitIsFresh, over
<1> QED BY <1>1, <1>2, <1>3

(***************************************************************************)
(* Every step keeps the types, the calls and the split.                    *)
(***************************************************************************)
LEMMA WindowsStep == WinInv /\ [Next]_wvars => WinInv'
<1> SUFFICES ASSUME WinInv, [Next]_wvars PROVE WinInv'
  OBVIOUS
<1> USE WindowsAssumption, MaxUAssumption
<1>0. LoopOK /\ QueueTypeOK /\ CallOK /\ BufferOK /\ GpuOK /\ HistoryOK /\ SplitIsFresh
  BY DEF WinInv
<1>1. ASSUME UNCHANGED loopVars PROVE LoopOK'
  BY <1>0, <1>1 DEF loopVars, LoopOK, LoopTypeOK
<1>2. ASSUME UNCHANGED queueVars PROVE QueueTypeOK'
  BY <1>0, <1>2 DEF queueVars, QueueTypeOK
<1>3. ASSUME UNCHANGED <<last_pids, len, cap>> PROVE BufferOK'
  BY <1>0, <1>3 DEF BufferOK
<1>4. ASSUME UNCHANGED <<procs, now, changes, calls>> PROVE GpuOK'
  BY <1>0, <1>4 DEF GpuOK
<1>5. ASSUME UNCHANGED <<odd, refresh, exact, atMost>> PROVE HistoryOK'
  BY <1>0, <1>5 DEF HistoryOK
<1>6. ASSUME call' = NoCall PROVE CallOK'
  BY <1>6 DEF CallOK
<1>7. CASE (\E t \in 0 .. MaxTime : Elapse(t)) \/ ProcsChange
  <2>1. UNCHANGED <<loopVars, queueVars, last_pids, len, cap, call, calls, odd, history>>
    BY <1>7 DEF Elapse, ProcsChange
  <2>2. GpuOK'
    <3>1. now \in Nat /\ MaxTime \in Nat /\ MaxTime <= MaxU
      BY <1>0 DEF GpuOK, U64
    <3>2. ASSUME NEW t \in 0 .. MaxTime, Elapse(t) PROVE GpuOK'
      BY <1>0, <3>1, <3>2 DEF Elapse, GpuOK, U64
    <3>3. CASE ProcsChange
      BY <1>0, <3>3 DEF ProcsChange, GpuOK
    <3> QED BY <1>7, <3>2, <3>3
  <2>3. CallOK' /\ SplitIsFresh'
    BY <1>0, <2>1 DEF CallOK, SplitIsFresh, loopVars, history
  <2> QED BY <1>1, <1>2, <1>3, <1>5, <2>1, <2>2, <2>3 DEF WinInv, history
<1>8. ASSUME NEW c, Begin(c), (TickCall(c) /\ pc = "await") \/ (MainCall(c) /\ pc = "main"),
             (calls \in Nat)'
      PROVE  WinInv'
  <2>1. /\ call' = c /\ odd' = FALSE
        /\ UNCHANGED <<loopVars, queueVars, last_pids, len, cap, gpu, history>>
    BY <1>8 DEF Begin
  <2>2. pc' = pc
    BY <2>1 DEF loopVars
  <2>3. CallOK' /\ SplitIsFresh'
    BY <1>8, <2>1, <2>2, NothingToSplit DEF CallOK
  <2>4. GpuOK' /\ HistoryOK'
    BY <1>0, <1>8, <2>1 DEF GpuOK, HistoryOK, gpu, history
  <2> QED BY <1>1, <1>2, <1>3, <2>1, <2>3, <2>4 DEF WinInv
<1>9. CASE BeginTick
  <2>1. PICK mw \in MilliWatts : Begin([kind |-> "tick", uw |-> mw * THOUSAND, at |-> now])
    BY <1>9 DEF BeginTick
  <2>2. PICK t \in U64 : t = now
    BY <1>0 DEF GpuOK
  <2>3. PICK c : TickCall(c) /\ Begin(c)
    BY <2>1, <2>2 DEF TickCall
  <2>4. pc = "await" /\ (calls \in Nat)'
    BY <1>0, <1>9 DEF BeginTick, GpuOK
  <2> QED BY <1>8, <2>3, <2>4
<1>10. CASE BeginMain
  <2>1. pc = "main" /\ (calls \in Nat)'
    BY <1>0, <1>10 DEF BeginMain, GpuOK
  <2>2. PICK c : Begin(c) /\ MainCall(c)
    BY <1>10 DEF BeginMain, MainCall
  <2> QED BY <1>8, <2>1, <2>2
<1>11. CASE PowerErr
  <2>1. call = NoCall /\ TickErr
        /\ UNCHANGED <<queueVars, last_pids, len, cap, call, gpu, calls, odd, history>>
    BY <1>11 DEF PowerErr
  <2>2. LoopOK' /\ pc' # "credit"
    BY <1>0, <2>1, ControlStep
  <2> QED BY <1>2, <1>3, <1>4, <1>5, <1>6, <2>1, <2>2, NothingToSplit DEF WinInv, gpu, history
<1>12. CASE AskAgain
  <2>1. /\ call # NoCall /\ Len(procs) > cap /\ reserve(Len(procs) - cap) /\ odd' = ~odd
        /\ UNCHANGED <<loopVars, queueVars, last_pids, len, call, gpu, calls, history>>
    BY <1>12 DEF AskAgain
  <2>2. Len(procs) \in Nat /\ cap \in Nat /\ len \in 0 .. cap
    BY <1>0, ProcsAreListed DEF BufferOK
  <2>3. (cap \in Nat)' /\ cap <= cap'
    <3> DEFINE m == Len(procs)
    <3>1. cap' = IF len + (m - cap) <= cap THEN cap
                 ELSE IF len + (m - cap) > 2 * cap THEN len + (m - cap) ELSE 2 * cap
      BY <2>1 DEF reserve
    <3> HIDE DEF m
    <3>2. m \in Nat
      BY <2>2 DEF m
    <3> QED BY <2>2, <3>1, <3>2
  <2>4. BufferOK'
    BY <1>0, <2>1, <2>2, <2>3 DEF BufferOK
  <2>5. CallOK' /\ SplitIsFresh' /\ HistoryOK'
    BY <1>0, <2>1 DEF CallOK, SplitIsFresh, loopVars, history, HistoryOK
  <2> QED BY <1>1, <1>2, <1>4, <2>1, <2>4, <2>5 DEF WinInv, gpu
<1>13. CASE AskErr
  <2>1. /\ call # NoCall /\ call' = NoCall
        /\ UNCHANGED <<queueVars, last_pids, len, cap, gpu, calls, odd, exact, atMost>>
    BY <1>13 DEF AskErr
  <2>2. LoopOK' /\ SplitIsFresh' /\ HistoryOK'
    <3>1. CASE InTick
      <4>1. TickOk(call.at, call.uw, 0, last_pids) /\ refresh' = [ok |-> FALSE, pids |-> <<>>]
        BY <1>13, <3>1 DEF AskErr
      <4>2. call.uw \in Nat /\ call.at \in U64 /\ last_pids \in Seq(Pids)
        BY <1>0, <3>1, CallFields DEF InTick, BufferOK
      <4>3. ~refresh'.ok /\ (refresh \in [ok : BOOLEAN, pids : Seq(Pids)])'
        BY <4>1
      <4>4. LoopOK' /\ SplitIsFresh'
        BY <1>0, <4>1, <4>2, <4>3, TickIsFresh
      <4> QED BY <1>0, <2>1, <4>3, <4>4 DEF HistoryOK
    <3>2. CASE ~InTick
      <4>1. UNCHANGED <<loopVars, refresh>>
        BY <1>13, <3>2 DEF AskErr
      <4>2. pc = "main"
        BY <1>0, <2>1, <3>2, CallFields DEF InTick
      <4>3. pc' # "credit"
        BY <4>1, <4>2 DEF loopVars
      <4> QED BY <1>1, <1>5, <2>1, <4>1, <4>3, NothingToSplit
    <3> QED BY <3>1, <3>2
  <2> QED BY <1>2, <1>3, <1>4, <1>6, <2>1, <2>2 DEF WinInv, gpu
<1>14. ASSUME Answered, (last_pids \in Seq(Pids))', LoopOK', HistoryOK', SplitIsFresh'
       PROVE  WinInv'
  <2>1. /\ Len(procs) <= cap /\ len' = Len(procs) /\ call' = NoCall
        /\ UNCHANGED <<queueVars, cap, gpu, calls, odd>>
    BY <1>14 DEF Answered
  <2>2. BufferOK'
    <3>1. Len(procs) \in Nat /\ cap \in Nat
      BY <1>0, ProcsAreListed DEF BufferOK
    <3> QED BY <1>14, <2>1, <3>1 DEF BufferOK
  <2> QED BY <1>2, <1>4, <1>6, <1>14, <2>1, <2>2 DEF WinInv, gpu
<1>15. CASE sample_power_state
  <2>1. Answered /\ call # NoCall /\ last_pids' = procs /\ UNCHANGED <<odd, exact, atMost>>
    BY <1>15 DEF sample_power_state, Answered
  <2>2. procs \in Seq(Pids)
    BY <1>0, ProcsAreListed
  <2>3. LoopOK' /\ SplitIsFresh' /\ HistoryOK'
    <3>1. CASE InTick
      <4>1. TickOk(call.at, call.uw, 0, procs) /\ refresh' = [ok |-> TRUE, pids |-> procs]
        BY <1>15, <3>1 DEF sample_power_state
      <4>2. call.uw \in Nat /\ call.at \in U64
        BY <1>0, <3>1, CallFields DEF InTick
      <4>3. refresh'.pids = procs /\ (refresh \in [ok : BOOLEAN, pids : Seq(Pids)])'
        BY <2>2, <4>1
      <4>4. LoopOK' /\ SplitIsFresh'
        BY <1>0, <2>2, <4>1, <4>2, <4>3, TickIsFresh
      <4> QED BY <1>0, <2>1, <4>3, <4>4 DEF HistoryOK
    <3>2. CASE ~InTick
      <4>1. UNCHANGED <<loopVars, refresh>>
        BY <1>15, <3>2 DEF sample_power_state
      <4>2. pc = "main"
        BY <1>0, <2>1, <3>2, CallFields DEF InTick
      <4>3. pc' # "credit"
        BY <4>1, <4>2 DEF loopVars
      <4> QED BY <1>1, <1>5, <2>1, <4>1, <4>3, NothingToSplit
    <3> QED BY <3>1, <3>2
  <2> QED BY <1>14, <2>1, <2>2, <2>3
<1>16. CASE list_compute_processes
  <2>1. /\ call # NoCall /\ call.kind = "list" /\ Answered
        /\ UNCHANGED <<loopVars, last_pids, odd, refresh, exact, atMost>>
    BY <1>16 DEF list_compute_processes, Answered
  <2>2. pc' # "credit"
    BY <1>0, <2>1, CallFields DEF loopVars
  <2>3. (last_pids \in Seq(Pids))'
    BY <1>0, <2>1 DEF BufferOK
  <2> QED BY <1>1, <1>5, <1>14, <2>1, <2>2, <2>3, NothingToSplit
<1>17. CASE sample_window_energy
  <2> DEFINE total == nvml_window_energy_uj(call.mw, call.dt)
  <2>1. /\ call # NoCall /\ call.kind = "window" /\ Answered /\ UNCHANGED <<odd, refresh, atMost>>
    BY <1>17 DEF sample_window_energy, Answered
  <2>2. pc = "main" /\ call.mw \in Nat /\ call.dt \in Nat
    BY <1>0, <2>1, CallFields
  <2>3. total \in U64 /\ total \in Nat
    <3>1. call.mw * call.dt \in Nat
      BY <2>2
    <3>2. total \in U64
      BY <3>1, ClampBounds DEF nvml_window_energy_uj
    <3> HIDE DEF total
    <3> QED BY <3>2 DEF U64
  <2>4. CASE procs = <<>> \/ total = 0
    <3>1. UNCHANGED <<loopVars, last_pids, exact>>
      BY <1>17, <2>4 DEF sample_window_energy
    <3>2. pc' # "credit" /\ (last_pids \in Seq(Pids))'
      BY <1>0, <2>2, <3>1 DEF loopVars, BufferOK
    <3> QED BY <1>1, <1>5, <1>14, <2>1, <3>1, <3>2, NothingToSplit
  <2>5. CASE ~(procs = <<>> \/ total = 0)
    <3>1. Attribute(EqualShares(total, Len(procs))) /\ exact' = exact + total
      BY <1>17, <2>5 DEF sample_window_energy
    <3> HIDE DEF total
    <3>2. procs \in Seq(Pids) /\ Len(procs) \in Nat \ {0}
      BY <1>0, <2>5, ProcsAreListed
    <3>3. \A i \in 1 .. Len(procs) : EqualShares(total, Len(procs))[i] \in U64
      <4>1. \A i \in 1 .. Len(procs) :
              EqualShares(total, Len(procs))[i] \in Nat /\ EqualShares(total, Len(procs))[i] <= total
        BY <2>3, <3>2, EqualSharesAddUp
      <4>2. total <= MaxU
        BY <2>3 DEF U64
      <4> QED BY <2>3, <4>1, <4>2 DEF U64
    <3>4. LoopOK' /\ pc' = pc /\ last_pids' = procs
      BY <1>0, <3>1, <3>2, <3>3, AttributeStep
    <3>5. HistoryOK'
      BY <1>0, <2>1, <2>3, <3>1 DEF HistoryOK
    <3> QED BY <1>14, <2>1, <2>2, <3>2, <3>4, <3>5, NothingToSplit
  <2> QED BY <2>4, <2>5
<1>18. CASE attribute_window
  <2> DEFINE n == Len(procs)
             uj == deterministic_attribution_uj(call.uw, call.idle, call.dt \div n, call.dt)
             e == burst_energy_uj(call.uw, call.idle, call.dt)
  <2>1. /\ call # NoCall /\ call.kind = "model" /\ Answered /\ UNCHANGED <<odd, refresh, exact>>
    BY <1>18 DEF attribute_window, Answered
  <2>2. pc = "main" /\ call.uw \in Nat /\ call.idle \in Nat /\ call.dt \in Nat
    <3>1. PICK mw \in MilliWatts : call.uw = mw * THOUSAND
      BY <1>0, <2>1, CallFields
    <3>2. mw * THOUSAND \in Nat
      OBVIOUS
    <3> QED BY <1>0, <2>1, <3>1, <3>2, CallFields
  <2>3. CASE procs = <<>>
    <3>1. UNCHANGED <<loopVars, last_pids, atMost>>
      BY <1>18, <2>3 DEF attribute_window
    <3>2. pc' # "credit" /\ (last_pids \in Seq(Pids))'
      BY <1>0, <2>2, <3>1 DEF loopVars, BufferOK
    <3> QED BY <1>1, <1>5, <1>14, <2>1, <3>1, <3>2, NothingToSplit
  <2>4. CASE procs # <<>>
    <3>1. Attribute([i \in 1 .. n |-> uj]) /\ atMost' = atMost + e
      BY <1>18, <2>4 DEF attribute_window
    <3>2. procs \in Seq(Pids) /\ n \in Nat \ {0}
      BY <1>0, <2>4, ProcsAreListed
    <3>3. uj \in U64
      BY <2>2, <3>2, ModelShareIsU64
    <3>4. e \in Nat
      <4>1. e \in U64
        BY <2>2, BurstEnergyIsU64
      <4> HIDE DEF e
      <4> QED BY <4>1 DEF U64
    <3> HIDE DEF uj, e
    <3> DEFINE f == [i \in 1 .. n |-> uj]
    <3>5. \A i \in 1 .. n : f[i] \in U64
      BY <3>3
    <3> HIDE DEF f
    <3>6. LoopOK' /\ pc' = pc /\ last_pids' = procs
      BY <1>0, <3>1, <3>2, <3>5, AttributeStep DEF f
    <3>7. HistoryOK'
      BY <1>0, <2>1, <3>1, <3>4 DEF HistoryOK
    <3> QED BY <1>14, <2>1, <2>2, <3>2, <3>6, <3>7, NothingToSplit
  <2> QED BY <2>3, <2>4
<1>19. CASE Finish
  <2>1. UNCHANGED <<queueVars, last_pids, len, cap, call, gpu, calls, odd, history>>
    BY <1>19 DEF Finish, Idle
  <2>2. pc = "credit" /\ call = NoCall
    <3>1. pc = "credit"
      BY <1>19 DEF Finish, Credit, Heartbeat
    <3> QED BY <1>0, <3>1 DEF CallOK
  <2>3. LoopOK' /\ SplitIsFresh'
    <3>1. CASE Heartbeat
      BY <1>0, <3>1, HeartbeatStep, NothingToSplit
    <3>2. CASE Credit
      <4>1. LoopOK' /\ todo # <<>> /\ todo' = Tail(todo)
        BY <1>0, <3>2, CreditStep
      <4>2. refresh' = refresh
        BY <2>1 DEF history
      <4> DEFINE over == IF refresh.pids = <<>> THEN <<SystemPid>> ELSE refresh.pids
      <4>3. over \in Seq(Buckets)
        <5>1. refresh.pids \in Seq(Pids)
          BY <1>0 DEF HistoryOK
        <5> QED BY <5>1, SplitOverBuckets
      <4>4. Len(todo) \in Nat
        BY <1>0 DEF LoopOK, LoopTypeOK
      <4>5. refresh.ok => Len(todo) <= Len(over)
                          /\ todo = SubSeq(over, Len(over) - Len(todo) + 1, Len(over))
        BY <1>0, <2>2 DEF SplitIsFresh
      <4> HIDE DEF over
      <4>6. refresh.ok =>
              /\ Len(Tail(todo)) <= Len(over)
              /\ Tail(todo) = SubSeq(over, Len(over) - Len(Tail(todo)) + 1, Len(over))
        BY <4>1, <4>3, <4>4, <4>5, TailOfSuffix
      <4>7. SplitIsFresh'
        BY <4>1, <4>2, <4>6 DEF SplitIsFresh, over
      <4> QED BY <4>1, <4>7
    <3> QED BY <1>19, <3>1, <3>2 DEF Finish
  <2> QED BY <1>2, <1>3, <1>4, <1>5, <1>6, <2>1, <2>2, <2>3 DEF WinInv, gpu, history
<1>20. CASE Control
  <2>1. call = NoCall /\ UNCHANGED <<queueVars, last_pids, len, cap, call, gpu, calls, odd, history>>
    BY <1>20 DEF Control, Idle
  <2>2. LoopOK' /\ pc' # "credit"
    BY <1>0, <1>20, ControlStep DEF Control
  <2> QED BY <1>2, <1>3, <1>4, <1>5, <1>6, <2>1, <2>2, NothingToSplit DEF WinInv, gpu, history
<1>21. CASE Enqueue
  <2>1. /\ call = NoCall /\ pc = "main"
        /\ UNCHANGED <<loopVars, last_pids, len, cap, call, gpu, calls, odd, history>>
    BY <1>21 DEF Enqueue, enqueue_attribution, Idle
  <2>2. PICK p \in Pids : Push(p, 1)
    BY <1>21 DEF Enqueue, enqueue_attribution
  <2>3. p \in Buckets /\ 1 \in U64
    BY DEF Buckets, U64
  <2>4. QueueTypeOK'
    BY <1>0, <2>1, <2>2, <2>3, PushStep, NothingClaimed
  <2>5. pc' # "credit"
    BY <2>1 DEF loopVars
  <2> QED BY <1>1, <1>3, <1>4, <1>5, <1>6, <2>1, <2>4, <2>5, NothingToSplit DEF WinInv, gpu, history
<1>22. CASE Sync
  <2>1. /\ call = NoCall /\ sync_registry
        /\ UNCHANGED <<last_pids, len, cap, call, gpu, calls, odd, history>>
    BY <1>22 DEF Sync, Idle
  <2>2. LoopOK' /\ QueueTypeOK'
    BY <1>0, <2>1, SyncStep, NothingClaimed
  <2>3. pc' # "credit"
    BY <2>1 DEF sync_registry
  <2> QED BY <1>3, <1>4, <1>5, <1>6, <2>1, <2>2, <2>3, NothingToSplit DEF WinInv, gpu, history
<1>23. CASE UNCHANGED wvars
  <2>1. UNCHANGED <<loopVars, queueVars, last_pids, len, cap, call, gpu, calls, odd, history>>
    BY <1>23 DEF wvars
  <2>2. CallOK' /\ SplitIsFresh'
    BY <1>0, <2>1 DEF CallOK, SplitIsFresh, loopVars, history
  <2> QED BY <1>1, <1>2, <1>3, <1>4, <1>5, <2>1, <2>2 DEF WinInv, gpu, history
<1> QED BY <1>7, <1>9, <1>10, <1>11, <1>12, <1>13, <1>15, <1>16, <1>17, <1>18, <1>19, <1>20, <1>21,
           <1>22, <1>23 DEF Next, Question

(***************************************************************************)
(* The types, the calls and the split are as they should be, always.       *)
(***************************************************************************)
LEMMA WindowsInvariant == Spec => []WinInv
<1>1. Init => WinInv
  <2> SUFFICES ASSUME Init PROVE WinInv
    OBVIOUS
  <2> USE WindowsAssumption, MaxUAssumption
  <2>1. LoopOK /\ QueueTypeOK
    BY LoopStart, QueueStart DEF Init
  <2>2. 0 \in U64 /\ <<>> \in Seq(Pids) /\ CAPACITY \in Nat
    BY DEF U64
  <2>3. BufferOK /\ GpuOK /\ CallOK
    BY <2>2 DEF Init, BufferOK, GpuOK, CallOK
  <2>4. HistoryOK
    BY <2>2 DEF Init, HistoryOK
  <2>5. SplitIsFresh
    BY DEF Init, LoopInit, SplitIsFresh
  <2> QED BY <2>1, <2>3, <2>4, <2>5 DEF WinInv
<1> QED BY <1>1, WindowsStep, PTL DEF Spec

(***************************************************************************)
(* The scratch buffer is never longer than its capacity, whatever NVML's   *)
(* list does between two questions, and every number stays in its type.    *)
(***************************************************************************)
THEOREM WindowsIsTyped == Spec => []TypeOK
<1>1. WinInv => TypeOK
  BY CallFields DEF WinInv, TypeOK, LoopOK, BufferOK, GpuOK, HistoryOK
<1> QED BY <1>1, WindowsInvariant, PTL

(***************************************************************************)
(* A tick whose refresh succeeded credits the processes NVML listed in     *)
(* that tick, in order, and PID 0 only if there were none.                 *)
(***************************************************************************)
THEOREM WindowsSplitIsFresh == Spec => []SplitIsFresh
<1>1. WinInv => SplitIsFresh
  BY DEF WinInv
<1> QED BY <1>1, WindowsInvariant, PTL

-------------------------------------------------------------------------------
(* The windows add up *)

\* the registry and the queue hold what came in, up to the rounding of attribute_window
AddsUp == Within(exact, atMost, MaxU - 1)

\* no power reading saturates the product of a sub-second window (18 kW with u64)
ModestPower == \A mw \in MilliWatts : (mw * THOUSAND) * (NS - 1) <= MaxU

(***************************************************************************)
(* Shares worth between a and a + b add a for sure and b at most.          *)
(***************************************************************************)
LEMMA AttributeAdds ==
  ASSUME LoopOK, QueueTypeOK, NEW x \in Nat, NEW y \in Nat, NEW z \in Nat, z <= MaxU,
         Within(x, y, z), procs \in Seq(Pids), NEW a \in Nat, NEW b \in Nat,
         NEW uj, \A i \in 1 .. Len(procs) : uj[i] \in U64,
         a + b <= z => a <= SumOf(uj, 1 .. Len(procs)) /\ SumOf(uj, 1 .. Len(procs)) <= a + b,
         Attribute(uj), UNCHANGED queueVars
  PROVE  Within(x + a, y + b, z)'
<1> DEFINE held == SumOf(energy, Buckets)
           new == SumOf(energy', Buckets)
           wait == SumUj(pending)
           sum == SumOf(uj, 1 .. Len(procs))
<1>1. held \in Nat /\ wait \in Nat /\ handed \in Nat /\ enqueued \in Nat
  BY HeldType
<1>2. handed' = handed /\ sum \in Nat /\ (held + sum <= MaxU => new = held + sum)
  BY AttributeStep
<1>3. UNCHANGED <<pending, enqueued>>
  BY DEF queueVars
<1>4. handed + enqueued + x + y <= z =>
        handed + enqueued + x <= held + wait /\ held + wait <= handed + enqueued + x + y
  BY DEF Within
<1>5. a + b <= z => a <= sum /\ sum <= a + b
  OBVIOUS
<1> HIDE DEF held, new, wait, sum
<1>6. handed + enqueued + (x + a) + (y + b) <= z =>
        /\ handed + enqueued + (x + a) <= new + wait
        /\ new + wait <= handed + enqueued + (x + a) + (y + b)
  BY <1>1, <1>2, <1>4, <1>5, MaxUAssumption
<1> QED BY <1>2, <1>3, <1>6 DEF Within, new, wait

(***************************************************************************)
(* Every step keeps the sum.                                               *)
(***************************************************************************)
LEMMA AddUpStep ==
  ASSUME ModestPower PROVE WinInv /\ AddsUp /\ [Next]_wvars => AddsUp'
<1> SUFFICES ASSUME WinInv, AddsUp, [Next]_wvars PROVE AddsUp'
  OBVIOUS
<1> USE MaxUAssumption
<1>0. LoopOK /\ QueueTypeOK /\ CallOK /\ GpuOK /\ exact \in Nat /\ atMost \in Nat
  BY DEF WinInv, HistoryOK
<1>1. PICK x \in Nat, y \in Nat, z \in Nat : x = exact /\ y = atMost /\ z = MaxU - 1
  BY <1>0
<1>2. z <= MaxU /\ Within(x, y, z)
  BY <1>1 DEF AddsUp
<1>3. ASSUME Within(x, y, z)', UNCHANGED <<exact, atMost>> PROVE AddsUp'
  BY <1>1, <1>3 DEF AddsUp, Within
<1>4. ASSUME UNCHANGED <<energy, handed, queueVars, exact, atMost>> PROVE AddsUp'
  BY <1>0, <1>2, <1>3, <1>4, QueueKept
<1>5. CASE (\E t \in 0 .. MaxTime : Elapse(t)) \/ ProcsChange \/ BeginTick \/ BeginMain \/ AskAgain \/ list_compute_processes
            \/ UNCHANGED wvars
  <2>1. UNCHANGED <<loopVars, queueVars, exact, atMost>>
    BY <1>5 DEF Elapse, ProcsChange, BeginTick, BeginMain, Begin, AskAgain, list_compute_processes,
                Answered, history, wvars
  <2> QED BY <1>4, <2>1 DEF loopVars
<1>6. CASE PowerErr \/ Control \/ (Finish /\ Heartbeat)
  <2>1. /\ UNCHANGED <<queueVars, exact, atMost>>
        /\ TickErr \/ StartLoop \/ DropLoop \/ Heartbeat
    BY <1>6 DEF PowerErr, Control, Finish, Idle, history
  <2>2. UNCHANGED <<energy, handed>>
    BY <2>1 DEF TickErr, StartLoop, DropLoop, Heartbeat
  <2> QED BY <1>4, <2>1, <2>2
<1>7. CASE AskErr \/ sample_power_state
  <2>1. UNCHANGED <<queueVars, exact, atMost>>
    BY <1>7 DEF AskErr, sample_power_state, Answered
  <2>2. UNCHANGED <<energy, handed>>
    BY <1>7 DEF AskErr, sample_power_state, TickOk, loopVars
  <2> QED BY <1>4, <2>1, <2>2
<1>8. CASE Finish /\ Credit
  <2>1. Credit /\ UNCHANGED <<queueVars, exact, atMost>>
    BY <1>8 DEF Finish, Idle, history
  <2> QED BY <1>0, <1>2, <1>3, <2>1, CreditArrives
<1>9. CASE Enqueue
  <2>1. UNCHANGED <<loopVars, exact, atMost>>
    BY <1>9 DEF Enqueue, enqueue_attribution, Idle, history
  <2>2. PICK p \in Pids : Push(p, 1)
    BY <1>9 DEF Enqueue, enqueue_attribution
  <2>3. p \in Buckets /\ 1 \in U64
    BY DEF Buckets, U64
  <2> QED BY <1>0, <1>2, <1>3, <2>1, <2>2, <2>3, PushStep
<1>10. CASE Sync
  <2>1. sync_registry /\ UNCHANGED <<exact, atMost>>
    BY <1>10 DEF Sync, Idle, history
  <2> QED BY <1>0, <1>2, <1>3, <2>1, SyncStep
<1>11. ASSUME NEW a \in Nat, NEW b \in Nat, Within(x + a, y + b, z)',
              exact' = exact + a, atMost' = atMost + b
       PROVE  AddsUp'
  BY <1>1, <1>11 DEF AddsUp, Within
<1>12. CASE sample_window_energy
  <2> DEFINE t == nvml_window_energy_uj(call.mw, call.dt)
  <2>1. call # NoCall /\ call.kind = "window" /\ UNCHANGED <<queueVars, atMost>>
    BY <1>12 DEF sample_window_energy, Answered
  <2>2. CASE procs = <<>> \/ t = 0
    <3>1. UNCHANGED <<loopVars, exact>>
      BY <1>12, <2>2 DEF sample_window_energy
    <3> QED BY <1>4, <2>1, <3>1 DEF loopVars
  <2>3. CASE ~(procs = <<>> \/ t = 0)
    <3>1. Attribute(EqualShares(t, Len(procs))) /\ exact' = exact + t
      BY <1>12, <2>3 DEF sample_window_energy
    <3>2. PICK a \in U64 : a = t
      <4>1. call.mw * call.dt \in Nat
        BY <1>0, <2>1, CallFields
      <4> QED BY <4>1, ClampBounds DEF nvml_window_energy_uj
    <3> HIDE DEF t
    <3>3. a \in Nat /\ a <= MaxU
      BY <3>2 DEF U64
    <3>4. procs \in Seq(Pids) /\ Len(procs) \in Nat \ {0}
      BY <1>0, <2>3, ProcsAreListed
    <3>5. PICK n \in Nat \ {0} : n = Len(procs)
      BY <3>4
    <3>6. PICK f : f = EqualShares(a, n)
      OBVIOUS
    <3>7. /\ \A i \in 1 .. n : f[i] \in Nat /\ f[i] <= a
          /\ SumOf(f, 1 .. n) = a
      BY <3>3, <3>6, EqualSharesAddUp
    <3>8. \A i \in 1 .. Len(procs) : f[i] \in U64
      BY <3>3, <3>5, <3>7 DEF U64
    <3>9. PICK b \in Nat : b = 0
      OBVIOUS
    <3>10. a <= SumOf(f, 1 .. Len(procs)) /\ SumOf(f, 1 .. Len(procs)) <= a + b
      BY <3>3, <3>5, <3>7, <3>9
    <3>11. Attribute(f)
      BY <3>1, <3>2, <3>5, <3>6
    <3>12. Within(x + a, y + b, z)'
      BY <1>0, <1>2, <2>1, <3>3, <3>4, <3>8, <3>10, <3>11, AttributeAdds
    <3>13. exact' = exact + a /\ atMost' = atMost + b
      BY <1>0, <2>1, <3>1, <3>2, <3>9
    <3> QED BY <1>11, <3>3, <3>12, <3>13
  <2> QED BY <2>2, <2>3
<1>13. CASE attribute_window
  <2> DEFINE m == Len(procs)
             s == deterministic_attribution_uj(call.uw, call.idle, call.dt \div m, call.dt)
             t == burst_energy_uj(call.uw, call.idle, call.dt)
  <2>1. call # NoCall /\ call.kind = "model" /\ UNCHANGED <<queueVars, exact>>
    BY <1>13 DEF attribute_window, Answered
  <2>2. CASE procs = <<>>
    <3>1. UNCHANGED <<loopVars, atMost>>
      BY <1>13, <2>2 DEF attribute_window
    <3> QED BY <1>4, <2>1, <3>1 DEF loopVars
  <2>3. CASE procs # <<>>
    <3>1. Attribute([i \in 1 .. m |-> s]) /\ atMost' = atMost + t
      BY <1>13, <2>3 DEF attribute_window
    <3>2. PICK uw \in Nat, idle \in Nat, dt \in Nat :
            /\ uw = call.uw /\ idle = call.idle /\ dt = call.dt
            /\ uw * (NS - 1) <= MaxU
      <4>1. /\ call.idle \in Nat /\ call.dt \in Nat
            /\ \E mw \in MilliWatts : call.uw = mw * THOUSAND
        BY <1>0, <2>1, CallFields
      <4>2. PICK mw \in MilliWatts : call.uw = mw * THOUSAND
        BY <4>1
      <4>3. mw * THOUSAND \in Nat
        BY WindowsAssumption
      <4> QED BY <4>1, <4>2, <4>3 DEF ModestPower
    <3>3. procs \in Seq(Pids) /\ Len(procs) \in Nat \ {0}
      BY <1>0, <2>3, ProcsAreListed
    <3>4. PICK n \in Nat \ {0} : n = Len(procs)
      BY <3>3
    <3>5. PICK u \in U64 : u = deterministic_attribution_uj(uw, idle, dt \div n, dt)
      BY ModelShareIsU64
    <3>6. PICK b \in U64 : b = burst_energy_uj(uw, idle, dt)
      BY BurstEnergyIsU64
    <3>7. u \in Nat /\ b \in Nat
      BY DEF U64
    <3>8. s = u /\ t = b
      BY <3>2, <3>4, <3>5, <3>6
    <3> HIDE DEF s, t
    <3>9. PICK f : f = [i \in 1 .. n |-> u]
      OBVIOUS
    <3>10. IsFiniteSet(1 .. n) /\ Cardinality(1 .. n) = n
      BY FS_Interval
    <3>11. \A i \in 1 .. n : f[i] = u /\ f[i] \in U64
      BY <3>9
    <3>12. SumOf(f, 1 .. n) = u * n
      <4>1. \A i \in 1 .. n : f[i] = u
        BY <3>11
      <4>2. SumOf(f, 1 .. n) = u * Cardinality(1 .. n)
        BY ONLY <3>7, <3>10, <4>1, SumConst
      <4> QED BY <3>10, <4>2
    <3>13. PICK a \in Nat : a = 0
      OBVIOUS
    <3>14. a + b <= z => a <= SumOf(f, 1 .. Len(procs)) /\ SumOf(f, 1 .. Len(procs)) <= a + b
      <4> SUFFICES ASSUME a + b <= z
                   PROVE  a <= SumOf(f, 1 .. Len(procs)) /\ SumOf(f, 1 .. Len(procs)) <= a + b
        OBVIOUS
      <4>1. b < MaxU
        BY <1>1, <3>7, <3>13
      <4>2. u * n <= b
        BY <3>2, <3>5, <3>6, <4>1, ModelSharesAreCovered
      <4>3. u * n \in Nat
        BY <3>7
      <4> QED BY <3>4, <3>7, <3>12, <3>13, <4>2, <4>3
    <3>15. Attribute(f) /\ \A i \in 1 .. Len(procs) : f[i] \in U64
      BY <3>1, <3>4, <3>8, <3>9, <3>11
    <3>16. Within(x + a, y + b, z)'
      BY <1>0, <1>2, <2>1, <3>3, <3>7, <3>14, <3>15, AttributeAdds
    <3>17. exact' = exact + a /\ atMost' = atMost + b
      BY <1>0, <2>1, <3>1, <3>8, <3>13
    <3> QED BY <1>11, <3>7, <3>16, <3>17
  <2> QED BY <2>2, <2>3
<1> QED BY <1>5, <1>6, <1>7, <1>8, <1>9, <1>10, <1>12, <1>13 DEF Next, Question, Finish

(***************************************************************************)
(* Below 18 kW, the windows main attributes add up: the equal split of     *)
(* sample_window_energy loses nothing for any number of processes, also    *)
(* when NVML lists a PID twice, and attribute_window never gives more than *)
(* the burst energy of its window.                                         *)
(***************************************************************************)
THEOREM WindowsEnergyAddsUp == ModestPower => (Spec => []WindowsAddUp)
<1> SUFFICES ASSUME ModestPower PROVE Spec => []WindowsAddUp
  OBVIOUS
<1>1. Init => AddsUp
  BY QueueStart DEF Init, AddsUp
<1>2. WinInv /\ AddsUp /\ [Next]_wvars => AddsUp'
  BY AddUpStep
<1>3. WinInv /\ AddsUp => WindowsAddUp
  <2> SUFFICES ASSUME WinInv, AddsUp PROVE WindowsAddUp
    OBVIOUS
  <2> DEFINE held == SumOf(energy, Buckets)
             wait == SumUj(pending)
             sure == handed + enqueued + exact
  <2>1. LoopOK /\ QueueTypeOK /\ exact \in Nat /\ atMost \in Nat
    BY DEF WinInv, HistoryOK
  <2>2. held \in Nat /\ wait \in Nat /\ sure \in Nat
    BY <2>1, HeldType
  <2>3. sure + atMost <= MaxU - 1 => sure <= held + wait /\ held + wait <= sure + atMost
    BY DEF AddsUp, Within
  <2> HIDE DEF held, wait, sure
  <2>4. sure + atMost < MaxU => held + wait \in sure .. (sure + atMost)
    BY <2>1, <2>2, <2>3, MaxUAssumption
  <2> QED BY <2>4 DEF WindowsAddUp, SumOf, held, wait, sure
<1> QED BY <1>1, <1>2, <1>3, WindowsInvariant, PTL DEF Spec
===============================================================================
