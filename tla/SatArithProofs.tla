---------------------------- MODULE SatArithProofs ----------------------------
(***************************************************************************)
(* Lemmas on saturating arithmetic, division and sums over finite sets     *)
(* that the other proofs share.                                            *)
(***************************************************************************)
EXTENDS SatArith, FiniteSetsExt, FiniteSetTheorems, TLAPS

(***************************************************************************)
(* What was added to a counter.                                            *)
(***************************************************************************)
LEMMA AddDifference ==
  ASSUME NEW a \in Nat, NEW b \in Nat
  PROVE  a + (b - a) = b
  OBVIOUS

(***************************************************************************)
(* clamp, u64::try_from(..).unwrap_or(u64::MAX), yields a u64 and never    *)
(* raises its argument.                                                    *)
(***************************************************************************)
LEMMA ClampBounds == \A x \in Nat : clamp(x) \in U64 /\ clamp(x) <= x
  BY MaxUAssumption DEF clamp, U64

(***************************************************************************)
(* u64::saturating_add yields a u64 that is no less than its first         *)
(* argument.                                                               *)
(***************************************************************************)
LEMMA SaturatingAddGrows ==
  \A a, b \in U64 : saturating_add(a, b) \in U64 /\ saturating_add(a, b) >= a
  BY MaxUAssumption DEF saturating_add, clamp, U64

(***************************************************************************)
(* Saturating step by step and saturating once at the end agree: this is   *)
(* why a saturated cell still is the saturated sum of all its deltas.      *)
(***************************************************************************)
LEMMA ClampAdd == \A a, b \in Nat : clamp(clamp(a) + b) = clamp(a + b)
  BY MaxUAssumption DEF clamp

(***************************************************************************)
(* Integer division, as `delta_uj / num_pids` and its remainder use it.    *)
(***************************************************************************)
LEMMA DivisionBounds ==
  \A d \in Nat, n \in Nat \ {0} :
    /\ d \div n \in Nat
    /\ (d \div n) * n <= d
    /\ d - (d \div n) * n < n
  OBVIOUS

(***************************************************************************)
(* The quotient is the one number whose multiple is within one divisor     *)
(* below.                                                                  *)
(***************************************************************************)
LEMMA QuotientIsUnique ==
  ASSUME NEW x \in Nat, NEW n \in Nat \ {0}, NEW q \in Nat,
         q * n <= x, x < q * n + n
  PROVE  x \div n = q
<1> DEFINE d == x \div n
<1>1. d \in Nat /\ d * n <= x /\ x < d * n + n
  BY DivisionBounds
<1> HIDE DEF d
<1>2. ~(d < q)
  <2> SUFFICES ASSUME d < q PROVE FALSE
    OBVIOUS
  <2>1. (d + 1) * n <= q * n
    BY <1>1
  <2>2. (d + 1) * n = d * n + n
    BY <1>1
  <2> QED BY <1>1, <2>1, <2>2
<1>3. ~(q < d)
  <2> SUFFICES ASSUME q < d PROVE FALSE
    OBVIOUS
  <2>1. (q + 1) * n <= d * n
    BY <1>1
  <2>2. (q + 1) * n = q * n + n
    BY <1>1
  <2> QED BY <1>1, <2>1, <2>2
<1>4. d = q
  BY <1>1, <1>2, <1>3
<1> QED BY <1>4 DEF d

(***************************************************************************)
(* Division is monotone.                                                   *)
(***************************************************************************)
LEMMA QuotientGrows ==
  ASSUME NEW x \in Nat, NEW y \in Nat, NEW n \in Nat \ {0}, x <= y
  PROVE  x \div n <= y \div n
<1> DEFINE d == x \div n
           e == y \div n
<1>1. d \in Nat /\ d * n <= x /\ e \in Nat /\ y < e * n + n
  BY DivisionBounds
<1> HIDE DEF d, e
<1> SUFFICES ASSUME e < d PROVE FALSE
  BY <1>1 DEF d, e
<1>2. (e + 1) * n <= d * n
  BY <1>1
<1>3. (e + 1) * n = e * n + n
  BY <1>1
<1> QED BY <1>1, <1>2, <1>3

(***************************************************************************)
(* A product grows with its factor.                                        *)
(***************************************************************************)
LEMMA ProductGrows ==
  ASSUME NEW p \in Nat, NEW a \in Nat, NEW b \in Nat, a <= b
  PROVE  p * a \in Nat /\ p * b \in Nat /\ p * a <= p * b
<1>1. PICK d \in Nat : b = a + d
  <2>1. b - a \in Nat /\ b = a + (b - a)
    OBVIOUS
  <2> QED BY <2>1
<1>2. p * a \in Nat /\ p * d \in Nat /\ p * b = p * a + p * d
  BY <1>1
<1> QED BY <1>2

(***************************************************************************)
(* A multiple that does not exceed another: neither does its factor.       *)
(***************************************************************************)
LEMMA FactorIsBounded ==
  ASSUME NEW a \in Nat, NEW b \in Nat, NEW n \in Nat \ {0}, a * n <= b * n
  PROVE  a <= b
<1> SUFFICES ASSUME b < a PROVE FALSE
  OBVIOUS
<1>1. n * (b + 1) <= n * a
  BY ProductGrows
<1>2. n * (b + 1) = b * n + n /\ n * a = a * n /\ b * n \in Nat
  OBVIOUS
<1> QED BY <1>1, <1>2

-------------------------------------------------------------------------------
(* Sums over finite sets: what MapThenSumSet computes *)

\* the sum of f[x] for x in S, in the form the models use it
SumOf(f, S) == MapThenSumSet(LAMBDA x : f[x], S)

\* one step of the fold, and the equation of the function that computes it
AnyOf(s) == CHOOSE x \in s : TRUE
FoldStep(f, g, s) == IF s = {} THEN 0 ELSE f[AnyOf(s)] + g[s \ {AnyOf(s)}]
IsFold(f, g, T) == g = [s \in SUBSET T |-> FoldStep(f, g, s)]

(***************************************************************************)
(* Every collection of subsets of a finite set has a member none of whose  *)
(* proper subsets is in it.  Induction over finite sets is done with it,   *)
(* on the collection of the sets for which the claim fails.                *)
(***************************************************************************)
LEMMA LeastSet ==
  ASSUME NEW S, IsFiniteSet(S), NEW B, B \subseteq SUBSET S, B # {}
  PROVE  \E T \in B : \A U \in B : ~(U \subseteq T /\ U # T)
<1>1. IsWellFoundedOn(StrictSubsetOrdering(S), FiniteSubsetsOf(S))
  BY FS_StrictSubsetOrderingWellFounded
<1>2. FiniteSubsetsOf(S) = SUBSET S
  BY FS_FiniteSubsetsOfFinite
<1>3. \E x \in B : \A y \in B : ~ (<<y, x>> \in StrictSubsetOrdering(S))
  BY <1>1, <1>2, WFMin
<1> QED BY <1>3 DEF StrictSubsetOrdering

(***************************************************************************)
(* A sum is the value of the function its fold is defined by.              *)
(***************************************************************************)
LEMMA SumIsFold == ASSUME NEW f, NEW S PROVE SumOf(f, S) = (CHOOSE g : IsFold(f, g, S))[S]
  BY DEF SumOf, MapThenSumSet, MapThenFoldSet, IsFold, FoldStep, AnyOf

(***************************************************************************)
(* Two functions that satisfy the equation of the fold agree wherever both *)
(* are defined.                                                            *)
(***************************************************************************)
LEMMA FoldIsUnique ==
  ASSUME NEW f, NEW S, IsFiniteSet(S), NEW T \in SUBSET S, NEW U \in SUBSET S,
         NEW g, NEW h, IsFold(f, g, T), IsFold(f, h, U)
  PROVE  \A s \in (SUBSET T) \cap (SUBSET U) : g[s] = h[s]
<1> DEFINE B == {s \in (SUBSET T) \cap (SUBSET U) : g[s] # h[s]}
<1> SUFFICES ASSUME B # {} PROVE FALSE
  OBVIOUS
<1>1. B \subseteq SUBSET S
  OBVIOUS
<1>2. PICK s \in B : \A r \in B : ~(r \subseteq s /\ r # s)
  <2> HIDE DEF B
  <2> QED BY <1>1, LeastSet
<1>3. g[s] = FoldStep(f, g, s) /\ h[s] = FoldStep(f, h, s)
  BY DEF IsFold
<1>4. CASE s = {}
  BY <1>3, <1>4 DEF FoldStep
<1>5. CASE s # {}
  <2>1. AnyOf(s) \in s
    BY <1>5 DEF AnyOf
  <2> DEFINE r == s \ {AnyOf(s)}
  <2>2. r \in (SUBSET T) \cap (SUBSET U) /\ r \subseteq s /\ r # s
    BY <2>1
  <2>3. g[r] = h[r]
    BY <1>2, <2>2
  <2> QED BY <1>3, <1>5, <2>3 DEF FoldStep
<1> QED BY <1>4, <1>5

(***************************************************************************)
(* A function that satisfies the equation of the fold exists.              *)
(***************************************************************************)
LEMMA FoldExists ==
  ASSUME NEW f, NEW S, IsFiniteSet(S)
  PROVE  \E g : IsFold(f, g, S)
<1> DEFINE B == {T \in SUBSET S : ~ \E g : IsFold(f, g, T)}
<1> SUFFICES ASSUME B # {} PROVE FALSE
  OBVIOUS
<1>1. PICK T \in B : \A U \in B : ~(U \subseteq T /\ U # T)
  <2>1. B \subseteq SUBSET S
    OBVIOUS
  <2> HIDE DEF B
  <2> QED BY <2>1, LeastSet
<1> DEFINE Fold(U) == CHOOSE g : IsFold(f, g, U)
           low == [s \in SUBSET T |-> IF s = T THEN 0 ELSE Fold(s)[s]]
           g == [s \in SUBSET T |-> IF s = T THEN FoldStep(f, low, s) ELSE low[s]]
<1>2. ASSUME NEW U \in SUBSET T, U # T PROVE IsFold(f, Fold(U), U)
  <2>1. \E h : IsFold(f, h, U)
    BY <1>1, <1>2
  <2> QED BY <2>1
<1> HIDE DEF Fold
<1>3. ASSUME NEW U \in SUBSET T, U # T, NEW s \in SUBSET U
      PROVE  Fold(U)[s] = low[s]
  <2>1. s \in SUBSET T /\ s # T
    BY <1>3
  <2>2. IsFold(f, Fold(U), U) /\ IsFold(f, Fold(s), s)
    BY <1>2, <1>3, <2>1
  <2>3. U \in SUBSET S /\ s \in SUBSET S /\ s \in (SUBSET U) \cap (SUBSET s)
    BY <1>3
  <2> HIDE DEF low
  <2>4. \A r \in (SUBSET U) \cap (SUBSET s) : Fold(U)[r] = Fold(s)[r]
    BY <2>2, <2>3, FoldIsUnique
  <2> USE DEF low
  <2> QED BY <2>1, <2>3, <2>4
<1>4. ASSUME NEW s \in SUBSET T PROVE g[s] = FoldStep(f, g, s)
  <2>1. s # {} => AnyOf(s) \in s
    BY DEF AnyOf
  <2> DEFINE r == s \ {AnyOf(s)}
  <2>2. s # {} => (r \in SUBSET T /\ r # T /\ r \in SUBSET s /\ g[r] = low[r])
    BY <2>1
  <2>3. CASE s = T
    BY <2>2, <2>3 DEF FoldStep
  <2>4. CASE s # T
    <3>1. g[s] = low[s] /\ low[s] = Fold(s)[s]
      BY <2>4
    <3>2. Fold(s)[s] = FoldStep(f, Fold(s), s)
      BY <1>2, <2>4 DEF IsFold
    <3>3. s # {} => Fold(s)[r] = low[r]
      BY <1>3, <2>2, <2>4
    <3> QED BY <2>2, <3>1, <3>2, <3>3 DEF FoldStep
  <2> QED BY <2>3, <2>4
<1>5. IsFold(f, g, T)
  <2>1. g = [s \in SUBSET T |-> g[s]]
    OBVIOUS
  <2> HIDE DEF g
  <2> QED BY <1>4, <2>1 DEF IsFold
<1> QED BY <1>1, <1>5

(***************************************************************************)
(* So the sum is what its definition says: nothing for the empty set, and  *)
(* otherwise some element's value and the sum of the rest.                 *)
(***************************************************************************)
LEMMA SumUnfolds ==
  ASSUME NEW f, NEW S, IsFiniteSet(S)
  PROVE  /\ S = {} => SumOf(f, S) = 0
         /\ S # {} => /\ AnyOf(S) \in S
                      /\ SumOf(f, S) = f[AnyOf(S)] + SumOf(f, S \ {AnyOf(S)})
<1> DEFINE Fold(U) == CHOOSE g : IsFold(f, g, U)
<1>1. ASSUME NEW U \in SUBSET S PROVE IsFold(f, Fold(U), U) /\ SumOf(f, U) = Fold(U)[U]
  <2>1. IsFiniteSet(U)
    BY FS_Subset
  <2> QED BY <2>1, FoldExists, SumIsFold
<1> HIDE DEF Fold
<1>2. SumOf(f, S) = FoldStep(f, Fold(S), S)
  BY <1>1 DEF IsFold
<1>3. CASE S = {}
  BY <1>2, <1>3 DEF FoldStep
<1>4. CASE S # {}
  <2> DEFINE r == S \ {AnyOf(S)}
  <2>1. AnyOf(S) \in S
    BY <1>4 DEF AnyOf
  <2>2. r \in SUBSET S /\ S \in SUBSET S /\ r \in (SUBSET S) \cap (SUBSET r)
    OBVIOUS
  <2>3. Fold(S)[r] = Fold(r)[r]
    BY <1>1, <2>2, FoldIsUnique
  <2>4. SumOf(f, r) = Fold(r)[r]
    BY <1>1, <2>2
  <2> QED BY <1>2, <1>4, <2>1, <2>3, <2>4 DEF FoldStep
<1> QED BY <1>3, <1>4

(***************************************************************************)
(* Sums of naturals are naturals.                                          *)
(***************************************************************************)
LEMMA SumType ==
  ASSUME NEW f, NEW S, IsFiniteSet(S), \A x \in S : f[x] \in Nat
  PROVE  SumOf(f, S) \in Nat
<1> DEFINE B == {T \in SUBSET S : SumOf(f, T) \notin Nat}
<1> SUFFICES ASSUME B # {} PROVE FALSE
  OBVIOUS
<1>1. PICK T \in B : \A U \in B : ~(U \subseteq T /\ U # T)
  <2>1. B \subseteq SUBSET S
    OBVIOUS
  <2> HIDE DEF B
  <2> QED BY <2>1, LeastSet
<1>2. IsFiniteSet(T) /\ T \in SUBSET S
  BY FS_Subset
<1>3. T # {}
  <2> SUFFICES ASSUME T = {} PROVE FALSE
    OBVIOUS
  <2>1. SumOf(f, T) = 0
    BY <1>2, SumUnfolds
  <2> QED BY <1>1, <2>1
<1> DEFINE x == AnyOf(T)
<1>4. x \in T /\ SumOf(f, T) = f[x] + SumOf(f, T \ {x})
  BY <1>2, <1>3, SumUnfolds
<1> HIDE DEF x
<1>5. SumOf(f, T \ {x}) \in Nat
  BY <1>1, <1>2, <1>4
<1> QED BY <1>1, <1>2, <1>4, <1>5

(***************************************************************************)
(* Any element can be taken out of a sum, whatever order it is computed in. *)
(***************************************************************************)
LEMMA SumRemove ==
  ASSUME NEW f, NEW S, IsFiniteSet(S), \A x \in S : f[x] \in Nat, NEW a \in S
  PROVE  /\ SumOf(f, S) \in Nat /\ SumOf(f, S \ {a}) \in Nat
         /\ SumOf(f, S) = f[a] + SumOf(f, S \ {a})
<1> DEFINE B == {T \in SUBSET S : \E y \in T : SumOf(f, T) # f[y] + SumOf(f, T \ {y})}
<1>0. ASSUME NEW T \in SUBSET S PROVE IsFiniteSet(T) /\ SumOf(f, T) \in Nat
  <2>1. IsFiniteSet(T)
    BY FS_Subset
  <2> QED BY <2>1, SumType
<1> SUFFICES ASSUME B # {} PROVE FALSE
  BY <1>0
<1>1. PICK T \in B : \A U \in B : ~(U \subseteq T /\ U # T)
  <2>1. B \subseteq SUBSET S
    OBVIOUS
  <2> HIDE DEF B
  <2> QED BY <2>1, LeastSet
<1>2. PICK y \in T : SumOf(f, T) # f[y] + SumOf(f, T \ {y})
  BY <1>1
<1> DEFINE x == AnyOf(T)
<1>3. x \in T /\ SumOf(f, T) = f[x] + SumOf(f, T \ {x})
  BY <1>0, <1>2, SumUnfolds
<1> HIDE DEF x
<1>4. x # y
  BY <1>2, <1>3
<1>5. SumOf(f, T \ {x}) = f[y] + SumOf(f, (T \ {x}) \ {y})
  <2>1. T \ {x} \in SUBSET S /\ T \ {x} \subseteq T /\ T \ {x} # T /\ y \in T \ {x}
    BY <1>2, <1>3, <1>4
  <2>2. T \ {x} \notin B
    BY <1>1, <2>1
  <2> QED BY <2>1, <2>2
<1>6. SumOf(f, T \ {y}) = f[x] + SumOf(f, (T \ {y}) \ {x})
  <2>1. T \ {y} \in SUBSET S /\ T \ {y} \subseteq T /\ T \ {y} # T /\ x \in T \ {y}
    BY <1>2, <1>3, <1>4
  <2>2. T \ {y} \notin B
    BY <1>1, <2>1
  <2> QED BY <2>1, <2>2
<1>7. (T \ {x}) \ {y} = (T \ {y}) \ {x} /\ (T \ {x}) \ {y} \in SUBSET S
  OBVIOUS
<1>8. SumOf(f, (T \ {x}) \ {y}) \in Nat /\ f[x] \in Nat /\ f[y] \in Nat
  BY <1>0, <1>2, <1>3, <1>7
<1>9. SumOf(f, (T \ {y}) \ {x}) = SumOf(f, (T \ {x}) \ {y})
  BY <1>7
<1> HIDE DEF B
<1> DEFINE c == SumOf(f, (T \ {x}) \ {y})
           fx == f[x]
           fy == f[y]
<1>10. /\ SumOf(f, T) = fx + (fy + c)
       /\ SumOf(f, T) # fy + (fx + c)
       /\ c \in Nat /\ fx \in Nat /\ fy \in Nat
  BY <1>2, <1>3, <1>5, <1>6, <1>8, <1>9
<1> HIDE DEF c, fx, fy
<1> QED BY <1>10

(***************************************************************************)
(* No term exceeds the sum.                                                *)
(***************************************************************************)
LEMMA SumTerm ==
  ASSUME NEW f, NEW S, IsFiniteSet(S), \A x \in S : f[x] \in Nat, NEW a \in S
  PROVE  f[a] <= SumOf(f, S)
<1>1. SumOf(f, S) = f[a] + SumOf(f, S \ {a}) /\ SumOf(f, S \ {a}) \in Nat /\ f[a] \in Nat
  BY SumRemove
<1> QED BY <1>1

(***************************************************************************)
(* Sums grow with their terms.                                             *)
(***************************************************************************)
LEMMA SumMonotone ==
  ASSUME NEW f, NEW g, NEW S, IsFiniteSet(S),
         \A x \in S : f[x] \in Nat /\ g[x] \in Nat /\ f[x] <= g[x]
  PROVE  SumOf(f, S) <= SumOf(g, S)
<1> DEFINE B == {T \in SUBSET S : ~(SumOf(f, T) <= SumOf(g, T))}
<1> SUFFICES ASSUME B # {} PROVE FALSE
  OBVIOUS
<1>1. PICK T \in B : \A U \in B : ~(U \subseteq T /\ U # T)
  <2>1. B \subseteq SUBSET S
    OBVIOUS
  <2> HIDE DEF B
  <2> QED BY <2>1, LeastSet
<1>2. IsFiniteSet(T) /\ T \in SUBSET S
  BY FS_Subset
<1>3. T # {}
  <2> SUFFICES ASSUME T = {} PROVE FALSE
    OBVIOUS
  <2>1. SumOf(f, T) = 0 /\ SumOf(g, T) = 0
    BY <1>2, SumUnfolds
  <2> QED BY <1>1, <2>1
<1>4. PICK x \in T : TRUE
  BY <1>3
<1>5. SumOf(f, T \ {x}) <= SumOf(g, T \ {x})
  BY <1>1, <1>4
<1>6. /\ SumOf(f, T) = f[x] + SumOf(f, T \ {x}) /\ SumOf(f, T \ {x}) \in Nat
      /\ SumOf(g, T) = g[x] + SumOf(g, T \ {x}) /\ SumOf(g, T \ {x}) \in Nat
  BY <1>2, <1>4, SumRemove
<1>7. f[x] \in Nat /\ g[x] \in Nat /\ f[x] <= g[x]
  BY <1>2, <1>4
<1> QED BY <1>1, <1>5, <1>6, <1>7

(***************************************************************************)
(* Sums depend on their terms only.                                        *)
(***************************************************************************)
LEMMA SumSame ==
  ASSUME NEW f, NEW g, NEW S, IsFiniteSet(S), \A x \in S : f[x] \in Nat /\ g[x] = f[x]
  PROVE  SumOf(g, S) = SumOf(f, S)
<1>1. SumOf(f, S) <= SumOf(g, S) /\ SumOf(g, S) <= SumOf(f, S)
  BY SumMonotone
<1>2. SumOf(f, S) \in Nat /\ SumOf(g, S) \in Nat
  BY SumType
<1> QED BY <1>1, <1>2

(***************************************************************************)
(* Changing one term changes the sum by as much: the step of every ledger  *)
(* that adds a delta to one cell.                                          *)
(***************************************************************************)
LEMMA SumChange ==
  ASSUME NEW f, NEW g, NEW S, IsFiniteSet(S), NEW a \in S,
         \A x \in S : f[x] \in Nat /\ g[x] \in Nat,
         \A x \in S \ {a} : g[x] = f[x]
  PROVE  /\ SumOf(f, S) \in Nat /\ SumOf(g, S) \in Nat /\ f[a] <= SumOf(f, S)
         /\ SumOf(g, S) = (SumOf(f, S) - f[a]) + g[a]
<1>1. IsFiniteSet(S \ {a})
  BY FS_RemoveElement
<1>2. SumOf(g, S \ {a}) = SumOf(f, S \ {a})
  BY <1>1, SumSame
<1>3. /\ SumOf(f, S) = f[a] + SumOf(f, S \ {a}) /\ SumOf(f, S \ {a}) \in Nat
      /\ SumOf(g, S) = g[a] + SumOf(g, S \ {a}) /\ SumOf(f, S) \in Nat /\ SumOf(g, S) \in Nat
  BY SumRemove
<1> QED BY <1>2, <1>3

(***************************************************************************)
(* One more term.                                                          *)
(***************************************************************************)
LEMMA SumExtend ==
  ASSUME NEW f, NEW g, NEW S, IsFiniteSet(S), NEW a, a \notin S, g[a] \in Nat,
         \A x \in S : f[x] \in Nat /\ g[x] = f[x]
  PROVE  SumOf(g, S \cup {a}) = SumOf(f, S) + g[a]
<1> DEFINE T == S \cup {a}
<1>1. IsFiniteSet(T) /\ a \in T /\ T \ {a} = S
  BY FS_AddElement
<1>2. \A x \in T : g[x] \in Nat
  OBVIOUS
<1> HIDE DEF T
<1>3. SumOf(g, T) = g[a] + SumOf(g, T \ {a})
  BY <1>1, <1>2, SumRemove
<1>4. SumOf(g, T \ {a}) = SumOf(f, S) /\ SumOf(f, S) \in Nat
  BY <1>1, SumSame, SumType
<1>5. SumOf(g, T) = SumOf(f, S) + g[a]
  BY ONLY <1>3, <1>4, g[a] \in Nat
<1> QED BY <1>5 DEF T

(***************************************************************************)
(* Terms that are 0 add nothing.                                           *)
(***************************************************************************)
LEMMA SumZero ==
  ASSUME NEW f, NEW S, IsFiniteSet(S), \A x \in S : f[x] = 0
  PROVE  SumOf(f, S) = 0
<1> DEFINE B == {T \in SUBSET S : SumOf(f, T) # 0}
<1> SUFFICES ASSUME B # {} PROVE FALSE
  OBVIOUS
<1>1. PICK T \in B : \A U \in B : ~(U \subseteq T /\ U # T)
  <2>1. B \subseteq SUBSET S
    OBVIOUS
  <2> HIDE DEF B
  <2> QED BY <2>1, LeastSet
<1>2. IsFiniteSet(T)
  BY FS_Subset
<1>3. T # {}
  <2> SUFFICES ASSUME T = {} PROVE FALSE
    OBVIOUS
  <2>1. SumOf(f, T) = 0
    BY <1>2, SumUnfolds
  <2> QED BY <1>1, <2>1
<1> DEFINE x == AnyOf(T)
<1>4. x \in T /\ SumOf(f, T) = f[x] + SumOf(f, T \ {x})
  BY <1>2, <1>3, SumUnfolds
<1> HIDE DEF x
<1>5. SumOf(f, T \ {x}) = 0 /\ f[x] = 0
  BY <1>1, <1>4
<1> QED BY <1>1, <1>4, <1>5

(***************************************************************************)
(* So a sum may be taken over a larger set on which the new terms are 0.   *)
(***************************************************************************)
LEMMA SumSupport ==
  ASSUME NEW f, NEW S, IsFiniteSet(S), NEW T \in SUBSET S,
         \A x \in S : f[x] \in Nat, \A x \in S \ T : f[x] = 0
  PROVE  SumOf(f, S) = SumOf(f, T)
<1> DEFINE B == {U \in SUBSET S : T \subseteq U /\ SumOf(f, U) # SumOf(f, T)}
<1> SUFFICES ASSUME B # {} PROVE FALSE
  OBVIOUS
<1>1. PICK U \in B : \A V \in B : ~(V \subseteq U /\ V # U)
  <2>1. B \subseteq SUBSET S
    OBVIOUS
  <2> HIDE DEF B
  <2> QED BY <2>1, LeastSet
<1>2. IsFiniteSet(U) /\ T \subseteq U /\ U \in SUBSET S /\ SumOf(f, U) # SumOf(f, T)
  BY FS_Subset
<1>3. PICK x \in U \ T : TRUE
  BY <1>2
<1>4. SumOf(f, U \ {x}) = SumOf(f, T)
  BY <1>1, <1>2, <1>3
<1>5. SumOf(f, U) = f[x] + SumOf(f, U \ {x}) /\ SumOf(f, U \ {x}) \in Nat
  BY <1>2, <1>3, SumRemove
<1>6. f[x] = 0
  BY <1>2, <1>3
<1> QED BY <1>2, <1>4, <1>5, <1>6

(***************************************************************************)
(* The sum of two functions is the sum of their sums.                      *)
(***************************************************************************)
LEMMA SumPlus ==
  ASSUME NEW f, NEW g, NEW h, NEW S, IsFiniteSet(S),
         \A x \in S : f[x] \in Nat /\ g[x] \in Nat /\ h[x] = f[x] + g[x]
  PROVE  SumOf(h, S) = SumOf(f, S) + SumOf(g, S)
<1> DEFINE B == {T \in SUBSET S : SumOf(h, T) # SumOf(f, T) + SumOf(g, T)}
<1> SUFFICES ASSUME B # {} PROVE FALSE
  OBVIOUS
<1>1. PICK T \in B : \A U \in B : ~(U \subseteq T /\ U # T)
  <2>1. B \subseteq SUBSET S
    OBVIOUS
  <2> HIDE DEF B
  <2> QED BY <2>1, LeastSet
<1>2. IsFiniteSet(T) /\ T \in SUBSET S /\ SumOf(h, T) # SumOf(f, T) + SumOf(g, T)
  BY FS_Subset
<1>3. T # {}
  <2> SUFFICES ASSUME T = {} PROVE FALSE
    OBVIOUS
  <2>1. SumOf(f, T) = 0 /\ SumOf(g, T) = 0 /\ SumOf(h, T) = 0
    BY <1>2, SumUnfolds
  <2> QED BY <1>2, <2>1
<1>4. PICK x \in T : TRUE
  BY <1>3
<1>5. SumOf(h, T \ {x}) = SumOf(f, T \ {x}) + SumOf(g, T \ {x})
  BY <1>1, <1>2, <1>4
<1>6. \A y \in T : f[y] \in Nat /\ g[y] \in Nat /\ h[y] \in Nat /\ h[y] = f[y] + g[y]
  BY <1>2
<1>7. /\ SumOf(f, T) = f[x] + SumOf(f, T \ {x}) /\ SumOf(f, T \ {x}) \in Nat
      /\ SumOf(g, T) = g[x] + SumOf(g, T \ {x}) /\ SumOf(g, T \ {x}) \in Nat
      /\ SumOf(h, T) = h[x] + SumOf(h, T \ {x}) /\ SumOf(h, T \ {x}) \in Nat
  BY <1>2, <1>4, <1>6, SumRemove
<1>8. f[x] \in Nat /\ g[x] \in Nat /\ h[x] = f[x] + g[x]
  BY <1>4, <1>6
<1> HIDE DEF B
<1> QED BY <1>2, <1>5, <1>7, <1>8

(***************************************************************************)
(* Equal terms add up to their number times one of them.                   *)
(***************************************************************************)
LEMMA SumConst ==
  ASSUME NEW f, NEW c \in Nat, NEW S, IsFiniteSet(S), \A x \in S : f[x] = c
  PROVE  SumOf(f, S) = c * Cardinality(S)
<1> DEFINE B == {T \in SUBSET S : SumOf(f, T) # c * Cardinality(T)}
<1> SUFFICES ASSUME B # {} PROVE FALSE
  OBVIOUS
<1>1. PICK T \in B : \A U \in B : ~(U \subseteq T /\ U # T)
  <2>1. B \subseteq SUBSET S
    OBVIOUS
  <2> HIDE DEF B
  <2> QED BY <2>1, LeastSet
<1>2. IsFiniteSet(T) /\ T \in SUBSET S /\ SumOf(f, T) # c * Cardinality(T)
  BY FS_Subset
<1>3. T # {}
  <2> SUFFICES ASSUME T = {} PROVE FALSE
    OBVIOUS
  <2>1. SumOf(f, T) = 0 /\ Cardinality(T) = 0
    BY <1>2, SumUnfolds, FS_EmptySet
  <2> QED BY <1>2, <2>1
<1>4. PICK x \in T : TRUE
  BY <1>3
<1>5. SumOf(f, T \ {x}) = c * Cardinality(T \ {x})
  BY <1>1, <1>2, <1>4
<1>6. \A y \in T : f[y] \in Nat
  BY <1>2
<1>7. SumOf(f, T) = f[x] + SumOf(f, T \ {x}) /\ f[x] = c
  BY <1>2, <1>4, <1>6, SumRemove
<1>8. Cardinality(T \ {x}) = Cardinality(T) - 1 /\ Cardinality(T) \in Nat
  BY <1>2, <1>4, FS_RemoveElement, FS_CardinalityType
<1>9. c * (Cardinality(T) - 1) + c = c * Cardinality(T)
  BY <1>8
<1>10. c * (Cardinality(T) - 1) \in Int /\ c * Cardinality(T) \in Int
  BY <1>8
<1> HIDE DEF B
<1> QED BY <1>2, <1>5, <1>7, <1>8, <1>9, <1>10

(***************************************************************************)
(* A common factor can be taken out of a sum.                              *)
(***************************************************************************)
LEMMA SumScale ==
  ASSUME NEW f, NEW g, NEW c \in Nat, NEW S, IsFiniteSet(S),
         \A x \in S : f[x] \in Nat /\ g[x] = c * f[x]
  PROVE  SumOf(g, S) = c * SumOf(f, S)
<1> DEFINE B == {T \in SUBSET S : SumOf(g, T) # c * SumOf(f, T)}
<1> SUFFICES ASSUME B # {} PROVE FALSE
  OBVIOUS
<1>1. PICK T \in B : \A U \in B : ~(U \subseteq T /\ U # T)
  <2>1. B \subseteq SUBSET S
    OBVIOUS
  <2> HIDE DEF B
  <2> QED BY <2>1, LeastSet
<1>2. IsFiniteSet(T) /\ T \in SUBSET S /\ SumOf(g, T) # c * SumOf(f, T)
  BY FS_Subset
<1>3. T # {}
  <2> SUFFICES ASSUME T = {} PROVE FALSE
    OBVIOUS
  <2>1. SumOf(f, T) = 0 /\ SumOf(g, T) = 0
    BY <1>2, SumUnfolds
  <2>2. c * 0 = 0
    OBVIOUS
  <2> QED BY <1>2, <2>1, <2>2
<1>4. PICK x \in T : TRUE
  BY <1>3
<1>5. SumOf(g, T \ {x}) = c * SumOf(f, T \ {x})
  BY <1>1, <1>2, <1>4
<1>6. (\A y \in T : f[y] \in Nat) /\ \A y \in T : g[y] \in Nat
  BY <1>2
<1>7. SumOf(f, T) = f[x] + SumOf(f, T \ {x}) /\ SumOf(f, T \ {x}) \in Nat
  BY <1>2, <1>4, <1>6, SumRemove
<1>8. SumOf(g, T) = g[x] + SumOf(g, T \ {x})
  BY <1>2, <1>4, <1>6, SumRemove
<1> DEFINE a == f[x]
           b == SumOf(f, T \ {x})
<1>9. g[x] = c * a /\ a \in Nat /\ b \in Nat
  BY <1>2, <1>4, <1>7
<1>10. SumOf(g, T) = c * a + c * b /\ SumOf(f, T) = a + b
  BY <1>5, <1>7, <1>8, <1>9
<1> HIDE DEF a, b, B
<1>11. c * (a + b) = c * a + c * b
  BY <1>9
<1> QED BY <1>2, <1>10, <1>11

(***************************************************************************)
(* Summing each class of a partition apart and then the classes gives the  *)
(* sum of all.                                                             *)
(***************************************************************************)
LEMMA SumPartition ==
  ASSUME NEW f, NEW S, IsFiniteSet(S), \A x \in S : f[x] \in Nat,
         NEW K, IsFiniteSet(K), NEW key, \A x \in S : key[x] \in K
  PROVE  SumOf([k \in K |-> SumOf(f, {x \in S : key[x] = k})], K) = SumOf(f, S)
<1> DEFINE Class(T, k) == {x \in T : key[x] = k}
           Parts(T) == [k \in K |-> SumOf(f, Class(T, k))]
           B == {T \in SUBSET S : SumOf(Parts(T), K) # SumOf(f, T)}
<1> SUFFICES ASSUME B # {} PROVE FALSE
  OBVIOUS
<1>1. PICK T \in B : \A U \in B : ~(U \subseteq T /\ U # T)
  <2>1. B \subseteq SUBSET S
    OBVIOUS
  <2> HIDE DEF B
  <2> QED BY <2>1, LeastSet
<1>2. IsFiniteSet(T) /\ T \in SUBSET S /\ SumOf(Parts(T), K) # SumOf(f, T)
  BY FS_Subset
<1>3. T # {}
  <2> SUFFICES ASSUME T = {} PROVE FALSE
    OBVIOUS
  <2>1. SumOf(f, T) = 0
    BY <1>2, SumUnfolds
  <2>2. \A k \in K : Parts(T)[k] = 0
    <3>1. \A k \in K : Class(T, k) = T
      OBVIOUS
    <3> HIDE DEF Class
    <3> QED BY <2>1, <3>1
  <2> HIDE DEF Parts, B
  <2>3. SumOf(Parts(T), K) = 0
    BY <2>2, SumZero
  <2> QED BY <1>2, <2>1, <2>3
<1>4. PICK a \in T : TRUE
  BY <1>3
<1> DEFINE U == T \ {a}
           ka == key[a]
<1>5. SumOf(Parts(U), K) = SumOf(f, U)
  BY <1>1, <1>2, <1>4
<1>6. ka \in K
  BY <1>2, <1>4
<1>7. ASSUME NEW k \in K PROVE Parts(T)[k] \in Nat /\ Parts(U)[k] \in Nat
  <2>1. IsFiniteSet(Class(T, k)) /\ IsFiniteSet(Class(U, k))
    BY <1>2, FS_Subset
  <2>2. (\A x \in Class(T, k) : f[x] \in Nat) /\ (\A x \in Class(U, k) : f[x] \in Nat)
    BY <1>2
  <2> HIDE DEF Class, U
  <2>3. SumOf(f, Class(T, k)) \in Nat /\ SumOf(f, Class(U, k)) \in Nat
    BY <2>1, <2>2, SumType
  <2> QED BY <2>3
<1>8. \A k \in K \ {ka} : Parts(T)[k] = Parts(U)[k]
  <2>1. \A k \in K \ {ka} : Class(T, k) = Class(U, k)
    OBVIOUS
  <2> HIDE DEF Class
  <2> QED BY <2>1
<1>9. Parts(T)[ka] = f[a] + Parts(U)[ka]
  <2>1. /\ IsFiniteSet(Class(T, ka)) /\ a \in Class(T, ka)
        /\ Class(T, ka) \ {a} = Class(U, ka)
        /\ \A x \in Class(T, ka) : f[x] \in Nat
    BY <1>2, <1>4, FS_Subset
  <2> HIDE DEF Class, U
  <2>2. SumOf(f, Class(T, ka)) = f[a] + SumOf(f, Class(U, ka))
    <3>1. SumOf(f, Class(T, ka)) = f[a] + SumOf(f, Class(T, ka) \ {a})
      BY <2>1, SumRemove
    <3> QED BY <2>1, <3>1
  <2> QED BY <1>6, <2>2
<1> HIDE DEF Parts, B, U, ka
<1>10. SumOf(Parts(T), K) = (SumOf(Parts(U), K) - Parts(U)[ka]) + Parts(T)[ka]
       /\ SumOf(Parts(U), K) \in Nat
  BY <1>6, <1>7, <1>8, SumChange
<1>11. \A x \in T : f[x] \in Nat
  BY <1>2
<1>12. SumOf(f, T) = f[a] + SumOf(f, U) /\ SumOf(f, U) \in Nat /\ f[a] \in Nat
  BY <1>2, <1>4, <1>11, SumRemove DEF U
<1>13. Parts(U)[ka] \in Nat
  BY <1>6, <1>7
<1> DEFINE pu == Parts(U)[ka]
           su == SumOf(f, U)
           fa == f[a]
<1>14. /\ SumOf(Parts(T), K) = (su - pu) + (fa + pu)
       /\ SumOf(f, T) = fa + su /\ pu \in Nat /\ su \in Nat /\ fa \in Nat
  BY <1>5, <1>9, <1>10, <1>12, <1>13
<1> HIDE DEF pu, su, fa
<1> QED BY <1>2, <1>14
===============================================================================
