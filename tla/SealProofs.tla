------------------------------ MODULE SealProofs ------------------------------
(***************************************************************************)
(* What TLAPS proves of seals and manifests, for any number of hosts, keys *)
(* and documents and however the store mixes them up: what verifies was    *)
(* issued, by the host it names; fingerprints are stable; the order in     *)
(* which the caller lists the records does not show.                       *)
(***************************************************************************)
EXTENDS SealStore, FiniteSetTheorems, TLAPS

-------------------------------------------------------------------------------
(* The sort *)

\* a record the sort can compare
Keyed(a) == a.pid \in Nat /\ a.window_start_ns \in Nat /\ a.window_end_ns \in Nat

(***************************************************************************)
(* The comparison seal() sorts by is a strict weak order.                  *)
(***************************************************************************)
LEMMA LessIsOrder ==
  ASSUME NEW a, NEW b, NEW c, Keyed(a), Keyed(b), Keyed(c)
  PROVE  /\ ~Less(a, a)
         /\ (Less(a, b) /\ ~Less(c, b)) => Less(a, c)
         /\ (~Less(b, a) /\ Less(b, c)) => Less(a, c)
         /\ (~Less(b, a) /\ ~Less(c, b)) => ~Less(c, a)
         /\ (Less(a, b) => ~Less(b, a))
<1> DEFINE pa == a.pid  sa == a.window_start_ns  ea == a.window_end_ns
           pb == b.pid  sb == b.window_start_ns  eb == b.window_end_ns
           pc == c.pid  sc == c.window_start_ns  ec == c.window_end_ns
<1>1. /\ pa \in Nat /\ sa \in Nat /\ ea \in Nat
      /\ pb \in Nat /\ sb \in Nat /\ eb \in Nat
      /\ pc \in Nat /\ sc \in Nat /\ ec \in Nat
  BY DEF Keyed
<1>2. /\ Less(a, b) <=> pa < pb \/ (pa = pb /\ sa < sb) \/ (pa = pb /\ sa = sb /\ ea < eb)
      /\ Less(b, a) <=> pb < pa \/ (pb = pa /\ sb < sa) \/ (pb = pa /\ sb = sa /\ eb < ea)
      /\ Less(b, c) <=> pb < pc \/ (pb = pc /\ sb < sc) \/ (pb = pc /\ sb = sc /\ eb < ec)
      /\ Less(c, b) <=> pc < pb \/ (pc = pb /\ sc < sb) \/ (pc = pb /\ sc = sb /\ ec < eb)
      /\ Less(a, c) <=> pa < pc \/ (pa = pc /\ sa < sc) \/ (pa = pc /\ sa = sc /\ ea < ec)
      /\ Less(c, a) <=> pc < pa \/ (pc = pa /\ sc < sa) \/ (pc = pa /\ sc = sa /\ ec < ea)
      /\ Less(a, a) <=> pa < pa \/ (pa = pa /\ sa < sa) \/ (pa = pa /\ sa = sa /\ ea < ea)
  BY Zenon DEF Less
<1> HIDE DEF pa, sa, ea, pb, sb, eb, pc, sc, ec
<1> QED BY <1>1, <1>2

(***************************************************************************)
(* With the caller's order for ties it is a total order on the places of a *)
(* list: of two places one is ahead of the other, with all that is ahead   *)
(* of itself, and none is ahead of itself.                                 *)
(***************************************************************************)
LEMMA AheadIsOrder ==
  ASSUME NEW list, NEW n \in Nat, DOMAIN list = 1 .. n, \A i \in 1 .. n : Keyed(list[i])
  PROVE  /\ \A i \in 1 .. n : i \notin Ahead(list, i)
         /\ \A i, j \in 1 .. n : i # j =>
              \/ i \in Ahead(list, j) /\ Ahead(list, i) \subseteq Ahead(list, j)
              \/ j \in Ahead(list, i) /\ Ahead(list, j) \subseteq Ahead(list, i)
<1>1. \A i, j \in 1 .. n :
        j \in Ahead(list, i) <=> Less(list[j], list[i]) \/ (~Less(list[i], list[j]) /\ j < i)
  BY Zenon DEF Ahead
<1>2. ASSUME NEW i \in 1 .. n
      PROVE  i \notin Ahead(list, i)
  <2>1. ~(i < i) /\ Keyed(list[i])
    OBVIOUS
  <2>2. ~Less(list[i], list[i])
    BY <2>1, LessIsOrder
  <2> QED BY <1>1, <2>1, <2>2, Zenon
<1>3. ASSUME NEW a \in 1 .. n, NEW b \in 1 .. n, NEW c \in 1 .. n,
             a \in Ahead(list, b), b \in Ahead(list, c)
      PROVE  a \in Ahead(list, c)
  <2>1. /\ Less(list[a], list[b]) \/ (~Less(list[b], list[a]) /\ a < b)
        /\ Less(list[b], list[c]) \/ (~Less(list[c], list[b]) /\ b < c)
    BY <1>1, <1>3, Zenon
  <2>2. (a < b /\ b < c) => a < c
    OBVIOUS
  <2>3. Keyed(list[a]) /\ Keyed(list[b]) /\ Keyed(list[c])
    OBVIOUS
  <2>4. /\ (Less(list[a], list[b]) /\ ~Less(list[c], list[b])) => Less(list[a], list[c])
        /\ (~Less(list[b], list[a]) /\ Less(list[b], list[c])) => Less(list[a], list[c])
        /\ (~Less(list[b], list[a]) /\ ~Less(list[c], list[b])) => ~Less(list[c], list[a])
    BY <2>3, LessIsOrder
  <2>5. Less(list[b], list[c]) => ~Less(list[c], list[b])
    BY <2>3, LessIsOrder
  <2> QED BY <1>1, <2>1, <2>2, <2>4, <2>5, Zenon
<1>4. ASSUME NEW i \in 1 .. n, NEW j \in 1 .. n, i # j
      PROVE  i \in Ahead(list, j) \/ j \in Ahead(list, i)
  <2>1. i < j \/ j < i
    BY <1>4
  <2> QED BY <1>1, <2>1, Zenon
<1>5. \A i \in 1 .. n : Ahead(list, i) \subseteq 1 .. n
  BY DEF Ahead
<1> QED BY <1>2, <1>3, <1>4, <1>5

(***************************************************************************)
(* The places of a list have different ranks.                              *)
(***************************************************************************)
LEMMA RanksDiffer ==
  ASSUME NEW list, NEW n \in Nat, DOMAIN list = 1 .. n, \A i \in 1 .. n : Keyed(list[i]),
         NEW i \in 1 .. n, NEW j \in 1 .. n, i # j
  PROVE  Cardinality(Ahead(list, i)) # Cardinality(Ahead(list, j))
<1>1. \A k \in 1 .. n : IsFiniteSet(Ahead(list, k)) /\ k \notin Ahead(list, k)
  <2> TAKE k \in 1 .. n
  <2>1. IsFiniteSet(1 .. n)
    BY FS_Interval
  <2>2. Ahead(list, k) \in SUBSET (1 .. n)
    BY DEF Ahead
  <2> QED BY <2>1, <2>2, FS_Subset, AheadIsOrder
<1>2. ASSUME NEW k \in 1 .. n, NEW l \in 1 .. n,
             k \in Ahead(list, l), Ahead(list, k) \subseteq Ahead(list, l)
      PROVE  Cardinality(Ahead(list, k)) # Cardinality(Ahead(list, l))
  <2>1. Ahead(list, k) # Ahead(list, l)
    BY <1>1, <1>2
  <2>2. Ahead(list, k) \in SUBSET Ahead(list, l) /\ IsFiniteSet(Ahead(list, l))
    BY <1>1, <1>2
  <2> QED BY <2>1, <2>2, FS_Subset
<1> QED BY <1>2, AheadIsOrder

(***************************************************************************)
(* Every position of the sorted list is filled by exactly one place of the *)
(* caller's: attributions.sort_by permutes.                                *)
(***************************************************************************)
LEMMA EveryRankOnce ==
  ASSUME NEW list, NEW n \in Nat, DOMAIN list = 1 .. n, \A i \in 1 .. n : Keyed(list[i]),
         NEW k \in 1 .. n
  PROVE  \E i \in 1 .. n : Cardinality(Ahead(list, i)) = k - 1
<1> DEFINE rank == [i \in 1 .. n |-> Cardinality(Ahead(list, i))]
<1>1. IsFiniteSet(1 .. n) /\ Cardinality(1 .. n) = n
  BY FS_Interval
<1>2. IsFiniteSet(0 .. n - 1) /\ Cardinality(0 .. n - 1) = n
  BY FS_Interval
<1>3. \A i \in 1 .. n : IsFiniteSet(Ahead(list, i)) /\ i \notin Ahead(list, i)
  <2> TAKE i \in 1 .. n
  <2>1. Ahead(list, i) \in SUBSET (1 .. n)
    BY DEF Ahead
  <2>2. IsFiniteSet(Ahead(list, i))
    BY <1>1, <2>1, FS_Subset
  <2>3. i \notin Ahead(list, i)
    BY AheadIsOrder
  <2> QED BY <2>2, <2>3
<1>4. \A i \in 1 .. n : rank[i] \in 0 .. n - 1
  <2> TAKE i \in 1 .. n
  <2>1. IsFiniteSet((1 .. n) \ {i}) /\ Cardinality((1 .. n) \ {i}) = n - 1
    BY <1>1, FS_RemoveElement
  <2>2. Ahead(list, i) \in SUBSET ((1 .. n) \ {i})
    BY <1>3 DEF Ahead
  <2>3. Cardinality(Ahead(list, i)) <= n - 1
    BY <2>1, <2>2, FS_Subset
  <2>4. Cardinality(Ahead(list, i)) \in Nat
    BY <1>3, FS_CardinalityType
  <2> QED BY <2>3, <2>4
<1>5. \A i, j \in 1 .. n : i # j => rank[i] # rank[j]
  BY RanksDiffer
<1>6. rank \in Injection(1 .. n, 0 .. n - 1)
  BY <1>4, <1>5 DEF Injection, IsInjective
<1>7. rank \in Surjection(1 .. n, 0 .. n - 1)
  <2> HIDE DEF rank
  <2> QED BY <1>1, <1>2, <1>6, FS_Injection
<1>8. k - 1 \in 0 .. n - 1
  OBVIOUS
<1>9. \E i \in 1 .. n : rank[i] = k - 1
  <2> HIDE DEF rank
  <2> QED BY <1>7, <1>8 DEF Surjection
<1> QED BY <1>9

(***************************************************************************)
(* Hence sort_by loses and invents nothing: every record of the result is  *)
(* one of the caller's.                                                    *)
(***************************************************************************)
LEMMA SortKeepsRecords ==
  ASSUME NEW list, NEW n \in Nat, DOMAIN list = 1 .. n, \A i \in 1 .. n : Keyed(list[i])
  PROVE  /\ sort_by(list) = [k \in 1 .. n |-> sort_by(list)[k]]
         /\ \A k \in 1 .. n : \E i \in 1 .. n : sort_by(list)[k] = list[i]
<1>1. sort_by(list) = [k \in 1 .. n |->
        list[CHOOSE i \in 1 .. n : Cardinality(Ahead(list, i)) = k - 1]]
  BY DEF sort_by
<1>2. \A k \in 1 .. n : (CHOOSE i \in 1 .. n : Cardinality(Ahead(list, i)) = k - 1) \in 1 .. n
  <2> TAKE k \in 1 .. n
  <2>1. \E i \in 1 .. n : Cardinality(Ahead(list, i)) = k - 1
    BY EveryRankOnce
  <2> QED BY <2>1
<1> QED BY <1>1, <1>2

(***************************************************************************)
(* Of two records that differ in PID, start or end, one sorts first: the   *)
(* comparison leaves no key out.                                           *)
(***************************************************************************)
LEMMA KeysAreCompared ==
  ASSUME NEW list, NEW n \in Nat, DOMAIN list = 1 .. n, \A i \in 1 .. n : Keyed(list[i]),
         NoTies(list), NEW i \in 1 .. n, NEW j \in 1 .. n, i # j
  PROVE  Less(list[i], list[j]) \/ Less(list[j], list[i])
<1>1. /\ list[i].pid \in Nat /\ list[i].window_start_ns \in Nat /\ list[i].window_end_ns \in Nat
      /\ list[j].pid \in Nat /\ list[j].window_start_ns \in Nat /\ list[j].window_end_ns \in Nat
  BY DEF Keyed
<1>2. \/ list[i].pid # list[j].pid
      \/ list[i].window_start_ns # list[j].window_start_ns
      \/ list[i].window_end_ns # list[j].window_end_ns
  BY DEF NoTies
<1> QED BY <1>1, <1>2 DEF Less

(***************************************************************************)
(* In a list without ties a record is ahead of another only by its keys,   *)
(* never by where the caller put it.                                       *)
(***************************************************************************)
LEMMA AheadWithoutTies ==
  ASSUME NEW list, NEW n \in Nat, DOMAIN list = 1 .. n, \A i \in 1 .. n : Keyed(list[i]),
         NoTies(list), NEW i \in 1 .. n
  PROVE  Ahead(list, i) = {j \in 1 .. n : Less(list[j], list[i])}
<1>1. ASSUME NEW j \in 1 .. n, ~Less(list[i], list[j]), j < i
      PROVE  Less(list[j], list[i])
  <2>1. j # i
    BY <1>1
  <2> QED BY <1>1, <2>1, KeysAreCompared
<1> QED BY <1>1 DEF Ahead

\* where y has the records of x
Place(x, y, n) == [i \in 1 .. n |-> CHOOSE j \in DOMAIN y : y[j] = x[i]]

(***************************************************************************)
(* Two lists with the same records and no ties are permutations of each    *)
(* other.                                                                  *)
(***************************************************************************)
LEMMA PlaceIsBijection ==
  ASSUME NEW x, NEW n \in Nat, DOMAIN x = 1 .. n, \A i \in 1 .. n : Keyed(x[i]),
         NEW y, NEW m \in Nat, DOMAIN y = 1 .. m,
         NoTies(x), SameRecords(x, y)
  PROVE  /\ Place(x, y, n) \in Bijection(1 .. n, 1 .. m)
         /\ \A i \in 1 .. n : y[Place(x, y, n)[i]] = x[i]
         /\ n = m
<1> DEFINE g == Place(x, y, n)
           X(r) == {k \in 1 .. n : x[k] = r}
           Y(r) == {k \in 1 .. m : y[k] = r}
<1>1. \A i, j \in 1 .. n : i # j => x[i] # x[j]
  BY DEF NoTies
<1>2. IsFiniteSet(1 .. n) /\ IsFiniteSet(1 .. m) /\ Cardinality(1 .. n) = n /\ Cardinality(1 .. m) = m
  BY FS_Interval
<1>3. \A r : IsFiniteSet(X(r)) /\ IsFiniteSet(Y(r))
  <2> TAKE r
  <2>1. X(r) \in SUBSET (1 .. n) /\ Y(r) \in SUBSET (1 .. m)
    OBVIOUS
  <2> QED BY <1>2, <2>1, FS_Subset
<1>4. ASSUME NEW i \in 1 .. n PROVE \E j : Y(x[i]) = {j}
  <2>1. X(x[i]) = {i}
    BY <1>1
  <2>2. Cardinality(X(x[i])) = 1
    BY <2>1, FS_Singleton
  <2>3. Cardinality(Y(x[i])) = Cardinality(X(x[i]))
    BY DEF SameRecords
  <2> HIDE DEF X, Y
  <2> QED BY <1>3, <2>2, <2>3, FS_Singleton
<1>5. ASSUME NEW j \in 1 .. m PROVE \E i \in 1 .. n : x[i] = y[j]
  <2>1. Cardinality(Y(y[j])) = Cardinality(X(y[j]))
    BY DEF SameRecords
  <2>2. Y(y[j]) # {}
    OBVIOUS
  <2>3. X(y[j]) # {}
    <3> HIDE DEF X, Y
    <3> QED BY <1>3, <2>1, <2>2, FS_EmptySet
  <2> QED BY <2>3
<1>6. \A i \in 1 .. n : g[i] \in 1 .. m /\ y[g[i]] = x[i]
  <2> TAKE i \in 1 .. n
  <2>1. \E j \in 1 .. m : y[j] = x[i]
    BY <1>4
  <2> QED BY <2>1 DEF Place
<1>7. \A i, j \in 1 .. n : g[i] = g[j] => i = j
  BY <1>1, <1>6
<1>8. \A j \in 1 .. m : \E i \in 1 .. n : g[i] = j
  <2> TAKE j \in 1 .. m
  <2>1. PICK i \in 1 .. n : x[i] = y[j]
    BY <1>5
  <2>2. PICK k : Y(x[i]) = {k}
    BY <1>4
  <2>3. j \in Y(x[i]) /\ g[i] \in Y(x[i])
    BY <1>6, <2>1
  <2> QED BY <2>2, <2>3
<1>9. g \in [1 .. n -> 1 .. m]
  BY <1>6 DEF Place
<1> HIDE DEF g
<1>10. g \in Bijection(1 .. n, 1 .. m)
  BY <1>7, <1>8, <1>9 DEF Bijection, Injection, Surjection, IsInjective
<1>11. ExistsBijection(1 .. n, 1 .. m)
  BY <1>10 DEF ExistsBijection
<1>12. n = m
  BY <1>2, <1>11, FS_Bijection
<1> QED BY <1>6, <1>10, <1>12 DEF g

(***************************************************************************)
(* Hence sort_by forgets the caller's order when there are no ties.        *)
(***************************************************************************)
LEMMA SortIsCanonical ==
  ASSUME NEW x, NEW n \in Nat, DOMAIN x = 1 .. n, \A i \in 1 .. n : Keyed(x[i]),
         NEW y, NEW m \in Nat, DOMAIN y = 1 .. m, \A i \in 1 .. m : Keyed(y[i]),
         NoTies(x), SameRecords(x, y)
  PROVE  sort_by(x) = sort_by(y)
<1> DEFINE g == Place(x, y, n)
<1>1. g \in Bijection(1 .. n, 1 .. m) /\ n = m /\ \A i \in 1 .. n : y[g[i]] = x[i]
  BY PlaceIsBijection
<1> HIDE DEF g
<1>2. /\ g \in [1 .. n -> 1 .. m]
      /\ \A i, j \in 1 .. n : g[i] = g[j] => i = j
      /\ \A j \in 1 .. m : \E i \in 1 .. n : g[i] = j
  BY <1>1 DEF Bijection, Injection, Surjection, IsInjective
<1>3. NoTies(y)
  <2> SUFFICES ASSUME NEW k \in 1 .. m, NEW l \in 1 .. m, k # l
               PROVE  \/ y[k].pid # y[l].pid
                      \/ y[k].window_start_ns # y[l].window_start_ns
                      \/ y[k].window_end_ns # y[l].window_end_ns
    BY DEF NoTies
  <2>1. PICK i \in 1 .. n, j \in 1 .. n : g[i] = k /\ g[j] = l
    BY <1>2
  <2>2. y[k] = x[i] /\ y[l] = x[j] /\ i # j
    BY <1>1, <2>1
  <2> QED BY <2>2 DEF NoTies
<1>4. ASSUME NEW i \in 1 .. n
      PROVE  Cardinality(Ahead(y, g[i])) = Cardinality(Ahead(x, i))
  <2> DEFINE A == {j \in 1 .. n : Less(x[j], x[i])}
             B == {j \in 1 .. m : Less(y[j], y[g[i]])}
             h == [j \in A |-> g[j]]
  <2>1. A = Ahead(x, i) /\ B = Ahead(y, g[i])
    <3>1. A = Ahead(x, i)
      BY AheadWithoutTies
    <3>2. g[i] \in 1 .. m
      BY <1>2
    <3>3. B = Ahead(y, g[i])
      BY <1>3, <3>2, AheadWithoutTies
    <3> QED BY <3>1, <3>3
  <2>2. \A j \in 1 .. n : j \in A <=> g[j] \in B
    BY <1>1, <1>2
  <2>3. A \in SUBSET (1 .. n) /\ B \in SUBSET (1 .. m)
    OBVIOUS
  <2>4. IsFiniteSet(A)
    <3>1. IsFiniteSet(1 .. n)
      BY FS_Interval
    <3> QED BY <2>3, <3>1, FS_Subset
  <2> HIDE DEF A, B
  <2>5. h \in [A -> B] /\ (\A j \in A : h[j] = g[j])
    BY <2>2, <2>3
  <2>6. \A b \in B : \E a \in A : h[a] = b
    BY <1>2, <2>2, <2>3
  <2> HIDE DEF h
  <2>7. h \in Bijection(A, B)
    BY <1>2, <2>3, <2>5, <2>6 DEF Bijection, Injection, Surjection, IsInjective
  <2>8. ExistsBijection(A, B)
    BY <2>7 DEF ExistsBijection
  <2> QED BY <2>1, <2>4, <2>8, FS_Bijection
<1>5. ASSUME NEW k \in 1 .. n PROVE sort_by(x)[k] = sort_by(y)[k]
  <2> DEFINE i == CHOOSE i \in 1 .. n : Cardinality(Ahead(x, i)) = k - 1
             j == CHOOSE j \in 1 .. n : Cardinality(Ahead(y, j)) = k - 1
  <2>1. i \in 1 .. n /\ Cardinality(Ahead(x, i)) = k - 1
    <3>1. \E l \in 1 .. n : Cardinality(Ahead(x, l)) = k - 1
      BY EveryRankOnce
    <3> QED BY <3>1
  <2>2. j \in 1 .. m /\ Cardinality(Ahead(y, j)) = k - 1
    <3>1. \E l \in 1 .. n : Cardinality(Ahead(y, l)) = k - 1
      BY <1>1, EveryRankOnce
    <3> QED BY <1>1, <3>1
  <2>3. sort_by(x)[k] = x[i] /\ sort_by(y)[k] = y[j]
    BY <1>1 DEF sort_by
  <2> HIDE DEF i, j
  <2>4. g[i] = j
    <3> DEFINE l == g[i]
    <3>1. l \in 1 .. m /\ Cardinality(Ahead(y, l)) = Cardinality(Ahead(y, j))
      BY <1>2, <1>4, <2>1, <2>2
    <3> HIDE DEF l
    <3>2. l = j
      BY <2>2, <3>1, RanksDiffer
    <3> QED BY <3>2 DEF l
  <2> QED BY <1>1, <2>1, <2>3, <2>4
<1>6. sort_by(x) = [k \in 1 .. n |-> sort_by(x)[k]] /\ sort_by(y) = [k \in 1 .. n |-> sort_by(y)[k]]
  BY <1>1, SortKeepsRecords
<1> HIDE DEF g
<1> QED BY <1>5, <1>6

-------------------------------------------------------------------------------
(* The documents *)

IsAttribution(a) ==
  a = [pid |-> a.pid, window_start_ns |-> a.window_start_ns, window_end_ns |-> a.window_end_ns,
       burst_power_uw |-> a.burst_power_uw, attributed_energy_uj |-> a.attributed_energy_uj,
       hardware_signature |-> a.hardware_signature]

IsList(l) ==
  /\ l = [i \in DOMAIN l |-> l[i]]
  /\ \A i \in DOMAIN l : IsAttribution(l[i])

IsIdentity(id) == id = [fingerprint |-> id.fingerprint, source |-> id.source]

PayloadFields == {"manifest_version", "hardware_serial", "hardware_identity",
                  "sealed_at_unix_ns", "total_micro_joules", "attributions"}

IsPayload(p) ==
  /\ p = [f \in PayloadFields |-> p[f]]
  /\ IsList(p.attributions)
  /\ IsIdentity(p.hardware_identity)

IsSeal(s) ==
  /\ s = [payload |-> s.payload, signing_public_key |-> s.signing_public_key,
          signature |-> s.signature, canonical_payload |-> s.canonical_payload]
  /\ IsPayload(s.payload)

(***************************************************************************)
(* canonical_json keeps everything: two payloads with the same canonical   *)
(* bytes are the same payload.                                             *)
(***************************************************************************)
LEMMA CanonicalJsonIsInjective ==
  ASSUME NEW p, NEW q, IsPayload(p), IsPayload(q), canonical_json(p) = canonical_json(q)
  PROVE  p = q
<1> DEFINE l == p.attributions
           k == q.attributions
<1>1. /\ [i \in DOMAIN l |-> canonicalize_attribution(l[i])]
            = [i \in DOMAIN k |-> canonicalize_attribution(k[i])]
      /\ p.hardware_identity.fingerprint = q.hardware_identity.fingerprint
      /\ p.hardware_identity.source = q.hardware_identity.source
      /\ p.hardware_serial = q.hardware_serial
      /\ p.manifest_version = q.manifest_version
      /\ p.sealed_at_unix_ns = q.sealed_at_unix_ns
      /\ p.total_micro_joules = q.total_micro_joules
  BY DEF canonical_json
<1>2. DOMAIN l = DOMAIN k
  BY <1>1
<1>3. ASSUME NEW i \in DOMAIN l
      PROVE  l[i] = k[i]
  <2>1. canonicalize_attribution(l[i]) = canonicalize_attribution(k[i])
    BY <1>1, <1>2
  <2>2. /\ l[i].attributed_energy_uj = k[i].attributed_energy_uj
        /\ l[i].burst_power_uw = k[i].burst_power_uw
        /\ l[i].hardware_signature = k[i].hardware_signature
        /\ l[i].pid = k[i].pid
        /\ l[i].window_end_ns = k[i].window_end_ns
        /\ l[i].window_start_ns = k[i].window_start_ns
    BY <2>1 DEF canonicalize_attribution
  <2>3. IsAttribution(l[i]) /\ IsAttribution(k[i])
    BY <1>2 DEF IsPayload, IsList
  <2> QED BY <2>2, <2>3, Zenon DEF IsAttribution
<1>4. l = k
  <2>1. l = [i \in DOMAIN l |-> l[i]] /\ k = [i \in DOMAIN k |-> k[i]]
    BY DEF IsPayload, IsList
  <2> HIDE DEF l, k
  <2> QED BY <1>2, <1>3, <2>1
<1>5. p.hardware_identity = q.hardware_identity
  BY <1>1, Zenon DEF IsPayload, IsIdentity
<1>6. \A f \in PayloadFields : p[f] = q[f]
  BY <1>1, <1>4, <1>5 DEF PayloadFields
<1>7. p = [f \in PayloadFields |-> p[f]] /\ q = [f \in PayloadFields |-> q[f]]
  BY DEF IsPayload
<1> QED BY <1>6, <1>7

ManifestFields == {"manifest_version", "provider", "hardware_signature", "workload_pid",
                   "window_start_ns", "window_end_ns", "sampled_at_ns", "idle_power_uw",
                   "active_power_uw", "attributed_energy_uj"}

IsManifestPayload(p) == p = [f \in ManifestFields |-> p[f]]

IsManifest(m) ==
  /\ m = [payload |-> m.payload, signing_public_key |-> m.signing_public_key,
          signature |-> m.signature]
  /\ IsManifestPayload(m.payload)

(***************************************************************************)
(* So does the encoding of a manifest, which is not canonical but has the  *)
(* fields in the order of their declaration.                               *)
(***************************************************************************)
LEMMA ManifestJsonIsInjective ==
  ASSUME NEW p, NEW q, IsManifestPayload(p), IsManifestPayload(q),
         manifest_json(p) = manifest_json(q)
  PROVE  p = q
<1>1. /\ p.manifest_version = q.manifest_version
      /\ p.provider = q.provider
      /\ p.hardware_signature = q.hardware_signature
      /\ p.workload_pid = q.workload_pid
      /\ p.window_start_ns = q.window_start_ns
      /\ p.window_end_ns = q.window_end_ns
      /\ p.sampled_at_ns = q.sampled_at_ns
      /\ p.idle_power_uw = q.idle_power_uw
      /\ p.active_power_uw = q.active_power_uw
      /\ p.attributed_energy_uj = q.attributed_energy_uj
  BY DEF manifest_json
<1>2. \A f \in ManifestFields : p[f] = q[f]
  BY <1>1 DEF ManifestFields
<1> QED BY <1>2 DEF IsManifestPayload

(***************************************************************************)
(* A mixed-up seal still has the parts of a seal, and its signature is one *)
(* of the two it was mixed from.                                           *)
(***************************************************************************)
LEMMA MixedSeal ==
  ASSUME NEW a, NEW b, IsSeal(a), IsSeal(b), NEW c \in Mixed(a, b)
  PROVE  IsSeal(c) /\ c.signature \in {a.signature, b.signature}
<1>1. CASE c \in {[a EXCEPT ![f] = b[f]] : f \in DOMAIN a}
  <2>1. PICK f \in DOMAIN a : c = [a EXCEPT ![f] = b[f]]
    BY <1>1
  <2>2. f \in {"payload", "signing_public_key", "signature", "canonical_payload"}
    BY DEF IsSeal
  <2>3. CASE f = "payload"
    BY <2>1, <2>3 DEF IsSeal
  <2>4. CASE f = "signing_public_key"
    BY <2>1, <2>4 DEF IsSeal
  <2>5. CASE f = "signature"
    BY <2>1, <2>5 DEF IsSeal
  <2>6. CASE f = "canonical_payload"
    BY <2>1, <2>6 DEF IsSeal
  <2> QED BY <2>2, <2>3, <2>4, <2>5, <2>6
<1>2. CASE c \in {[a EXCEPT !.payload[f] = b.payload[f]] : f \in DOMAIN a.payload}
  <2>1. PICK f \in DOMAIN a.payload : c = [a EXCEPT !.payload[f] = b.payload[f]]
    BY <1>2
  <2> DEFINE p == a.payload
             q == b.payload
             r == [p EXCEPT ![f] = q[f]]
  <2>2. /\ c.payload = r
        /\ c.signature = a.signature
        /\ c = [payload |-> c.payload, signing_public_key |-> c.signing_public_key,
                signature |-> c.signature, canonical_payload |-> c.canonical_payload]
    BY <2>1 DEF IsSeal
  <2>3. IsPayload(p) /\ IsPayload(q)
    BY DEF IsSeal
  <2>4. f \in PayloadFields
    BY <2>3 DEF IsPayload
  <2>5. IsPayload(r)
    <3> HIDE DEF p, q
    <3>1. /\ r = [x \in PayloadFields |-> r[x]]
          /\ r.attributions \in {p.attributions, q.attributions}
          /\ r.hardware_identity \in {p.hardware_identity, q.hardware_identity}
      BY <2>3, <2>4 DEF IsPayload, PayloadFields
    <3> HIDE DEF r
    <3> QED BY <2>3, <3>1 DEF IsPayload
  <2> QED BY <2>2, <2>5 DEF IsSeal
<1> QED BY <1>1, <1>2 DEF Mixed

(***************************************************************************)
(* And so does a mixed-up manifest.                                        *)
(***************************************************************************)
LEMMA MixedManifest ==
  ASSUME NEW a, NEW b, IsManifest(a), IsManifest(b), NEW c \in Mixed(a, b)
  PROVE  IsManifest(c) /\ c.signature \in {a.signature, b.signature}
<1>1. CASE c \in {[a EXCEPT ![f] = b[f]] : f \in DOMAIN a}
  <2>1. PICK f \in DOMAIN a : c = [a EXCEPT ![f] = b[f]]
    BY <1>1
  <2>2. f \in {"payload", "signing_public_key", "signature"}
    BY DEF IsManifest
  <2> QED BY <2>1, <2>2 DEF IsManifest
<1>2. CASE c \in {[a EXCEPT !.payload[f] = b.payload[f]] : f \in DOMAIN a.payload}
  <2>1. PICK f \in DOMAIN a.payload : c = [a EXCEPT !.payload[f] = b.payload[f]]
    BY <1>2
  <2> DEFINE p == a.payload
             q == b.payload
             r == [p EXCEPT ![f] = q[f]]
  <2>2. /\ c.payload = r
        /\ c.signature = a.signature
        /\ c = [payload |-> c.payload, signing_public_key |-> c.signing_public_key,
                signature |-> c.signature]
    BY <2>1 DEF IsManifest
  <2>3. IsManifestPayload(p)
    BY DEF IsManifest
  <2>4. IsManifestPayload(r)
    <3> HIDE DEF p, q
    <3> QED BY <2>3 DEF IsManifestPayload
  <2> QED BY <2>2, <2>4 DEF IsManifest
<1> QED BY <1>1, <1>2 DEF Mixed

-------------------------------------------------------------------------------
(* The inductive invariant *)

\* an identity of host h, or one flagged as no host's
NamesHost(id, h) ==
  \/ id.source = "Synthetic"
  \/ /\ id.fingerprint[1] \in {"machine-id", "platform-serial", "nvml-serial", "nvml-uuid"}
     /\ id.fingerprint[2] = h
  \/ /\ id.fingerprint[1] = "gpu"
     /\ id.fingerprint[2][1] = h

IsProcess(p) ==
  /\ p = [up |-> p.up, key |-> p.key, version |-> p.version, pid |-> p.pid,
          nvml |-> p.nvml, identity |-> p.identity]
  /\ IsIdentity(p.identity)

DaemonsOK ==
  /\ os \in [Hosts -> Systems]
  /\ proc = [h \in Hosts |-> proc[h]]
  /\ \A h \in Hosts : proc[h].up =>
       /\ IsProcess(proc[h])
       /\ proc[h].identity = NoIdentity \/ NamesHost(proc[h].identity, h)

IssuedOK ==
  \A i \in issued :
    /\ i.kind = "seal" =>
         /\ IsSeal(i.doc)
         /\ i.doc.signature = Sign(i.doc.signing_public_key, canonical_json(i.doc.payload))
         /\ i.doc.payload.hardware_serial = i.by
         /\ NamesHost(i.doc.payload.hardware_identity, i.by)
    /\ i.kind = "manifest" =>
         /\ IsManifest(i.doc)
         /\ i.doc.signature = Sign(i.doc.signing_public_key, manifest_json(i.doc.payload))

\* the signature of a stored document is the signature of an issued one
SignatureIssued(kind, d) == \E i \in issued : i.kind = kind /\ i.doc.signature = d.signature

StoredOK ==
  /\ \A s \in seals : IsSeal(s) /\ SignatureIssued("seal", s)
  /\ \A m \in manifests : IsManifest(m) /\ SignatureIssued("manifest", m)

SealInv == DaemonsOK /\ IssuedOK /\ StoredOK

(***************************************************************************)
(* Every probe yields an identity, a synthetic one if nothing else, and it *)
(* is the probed host's unless it is flagged as no host's.                 *)
(***************************************************************************)
LEMMA ProbeYieldsIdentity ==
  ASSUME NEW o \in Systems, NEW h, NEW pid, NEW nvml, NEW can,
         NEW id \in probe(o, h, pid, nvml, can)
  PROVE  IsIdentity(id) /\ NamesHost(id, h)
<1>1. CASE id \in try_probe(o, h, nvml, can)
  <2>1. id \in linux_probe(h, can) => IsIdentity(id) /\ NamesHost(id, h)
    BY DEF linux_probe, Identity, IsIdentity, NamesHost
  <2>2. id \in macos_probe(h, can) => IsIdentity(id) /\ NamesHost(id, h)
    BY DEF macos_probe, Identity, IsIdentity, NamesHost
  <2>3. id \in windows_probe(h, can) => IsIdentity(id) /\ NamesHost(id, h)
    BY DEF windows_probe, Identity, IsIdentity, NamesHost
  <2>4. o = "linux" \/ o = "macos" \/ o = "windows"
    BY SealStoreAssumption
  <2> QED BY <1>1, <2>1, <2>2, <2>3, <2>4 DEF try_probe
<1>2. CASE id \in synthetic(pid, can)
  BY <1>2 DEF synthetic, Identity, IsIdentity, NamesHost
<1> QED BY <1>1, <1>2 DEF probe

(***************************************************************************)
(* An identity that is not flagged names one host.                         *)
(***************************************************************************)
LEMMA IdentityNamesOneHost ==
  ASSUME NEW id, NEW h, NEW g, NamesHost(id, h), NamesHost(id, g), id.source # "Synthetic"
  PROVE  h = g
  BY DEF NamesHost

(***************************************************************************)
(* What a daemon may seal is a list of attributions the sort can compare.  *)
(***************************************************************************)
LEMMA ListsAreKeyed ==
  ASSUME NEW h, NEW list \in Lists(h)
  PROVE  \E n \in Nat : DOMAIN list = 1 .. n
                        /\ \A i \in 1 .. n : Keyed(list[i]) /\ IsAttribution(list[i])
<1>1. PICK n \in Nat : list \in [1 .. n -> Attributions(h)]
  BY SealStoreAssumption DEF Lists
<1>2. \A i \in 1 .. n : Keyed(list[i]) /\ IsAttribution(list[i])
  <2> TAKE i \in 1 .. n
  <2>1. list[i] \in Attributions(h)
    BY <1>1
  <2>2. PICK key \in UNION KeySets, uj \in Energies :
          list[i] = [pid |-> key[1], window_start_ns |-> key[2], window_end_ns |-> key[3],
                     burst_power_uw |-> uj, attributed_energy_uj |-> uj,
                     hardware_signature |-> h]
    BY <2>1 DEF Attributions
  <2>3. key[1] \in Nat /\ key[2] \in Nat /\ key[3] \in Nat
    BY SealStoreAssumption
  <2> QED BY <2>2, <2>3 DEF Keyed, IsAttribution
<1> QED BY <1>1, <1>2

(***************************************************************************)
(* A daemon's seal has the parts of a seal and is signed as it stands.     *)
(***************************************************************************)
LEMMA SealIsSigned ==
  ASSUME NEW key, NEW version, NEW h, NEW list \in Lists(h), NEW total, NEW identity, NEW at,
         IsIdentity(identity)
  PROVE  LET s == seal(key, version, list, h, total, identity, at)
         IN  /\ IsSeal(s)
             /\ s.signature = Sign(s.signing_public_key, canonical_json(s.payload))
             /\ s.payload.hardware_serial = h
             /\ s.payload.hardware_identity = identity
<1> DEFINE sorted == sort_by(list)
<1>1. PICK n \in Nat : DOMAIN list = 1 .. n /\ \A i \in 1 .. n : Keyed(list[i]) /\ IsAttribution(list[i])
  BY ListsAreKeyed
<1>2. \A i \in 1 .. n : Keyed(list[i]) /\ IsAttribution(list[i])
  BY <1>1
<1>3. /\ sorted = [k \in 1 .. n |-> sorted[k]]
      /\ \A k \in 1 .. n : \E i \in 1 .. n : sorted[k] = list[i]
  <2>1. DOMAIN list = 1 .. n
    BY <1>1
  <2> QED BY <1>2, <2>1, SortKeepsRecords
<1>4. IsList(sorted)
  <2> HIDE DEF sorted
  <2>1. DOMAIN sorted = 1 .. n
    BY <1>3
  <2> QED BY <1>2, <1>3, <2>1 DEF IsList
<1> DEFINE payload == [manifest_version |-> version, hardware_serial |-> h,
                       hardware_identity |-> identity, sealed_at_unix_ns |-> at,
                       total_micro_joules |-> total, attributions |-> sorted]
           canonical == canonical_json(payload)
<1>5. IsPayload(payload)
  <2> HIDE DEF sorted
  <2> QED BY <1>4 DEF IsPayload, PayloadFields
<1>6. seal(key, version, list, h, total, identity, at)
        = [payload |-> payload, signing_public_key |-> key,
           signature |-> Sign(key, canonical), canonical_payload |-> canonical]
  BY DEF seal
<1>7. payload.hardware_serial = h /\ payload.hardware_identity = identity
  OBVIOUS
<1> HIDE DEF payload
<1> QED BY <1>5, <1>6, <1>7 DEF IsSeal

(***************************************************************************)
(* The store only grows and issued documents are never taken back, so what *)
(* a step adds is all there is to check.                                   *)
(***************************************************************************)
LEMMA InvariantStep == SealInv /\ [Next]_svars => SealInv'
<1> SUFFICES ASSUME SealInv, [Next]_svars
             PROVE  SealInv'
  OBVIOUS
<1> USE DEF SealInv
<1>1. ASSUME NEW h \in Hosts, NEW key \in Keys, NEW v \in Versions, NEW pid \in OsPids,
             Start(h, key, v, pid)
      PROVE  SealInv'
  <2>1. UNCHANGED <<os, seals, manifests, issued>>
    BY <1>1 DEF Start
  <2>2. IsIdentity(NoIdentity)
    BY DEF IsIdentity, NoIdentity, Identity
  <2>3. DaemonsOK'
    <3> HIDE DEF NoIdentity
    <3> QED BY <1>1, <2>2 DEF Start, DaemonsOK, IsProcess
  <2> QED BY <2>1, <2>3 DEF IssuedOK, StoredOK, SignatureIssued
<1>2. ASSUME NEW h \in Hosts, NEW can, Probe(h, can)
      PROVE  SealInv'
  <2>1. UNCHANGED <<os, seals, manifests, issued>>
    BY <1>2 DEF Probe
  <2> DEFINE nvml == nvml_init_result(os[h], proc[h].nvml, can)
  <2>2. PICK id \in probe(os[h], h, proc[h].pid, nvml, can) :
          proc' = [proc EXCEPT ![h].nvml = nvml, ![h].identity = id]
    BY <1>2 DEF Probe
  <2>3. os[h] \in Systems
    BY DEF DaemonsOK
  <2>4. IsIdentity(id) /\ NamesHost(id, h)
    BY <2>3, ProbeYieldsIdentity
  <2>5. proc[h].up /\ IsProcess(proc[h])
    BY <1>2 DEF Probe, DaemonsOK
  <2>6. DaemonsOK'
    <3> HIDE DEF nvml
    <3>1. proc' = [g \in Hosts |-> proc'[g]] /\ \A g \in Hosts \ {h} : proc'[g] = proc[g]
      BY <2>2 DEF DaemonsOK
    <3>2. proc'[h] = [proc[h] EXCEPT !.nvml = nvml, !.identity = id]
      BY <2>2 DEF DaemonsOK
    <3>3. IsProcess(proc[h])' /\ proc'[h].identity = id
      BY <2>4, <2>5, <3>2 DEF IsProcess
    <3> QED BY <2>1, <2>4, <3>1, <3>3 DEF DaemonsOK
  <2> QED BY <2>1, <2>6 DEF IssuedOK, StoredOK, SignatureIssued
<1>3. ASSUME NEW h \in Hosts, NEW list \in Lists(h), NEW total \in Totals, NEW at \in Times,
             SealNow(h, list, total, at)
      PROVE  SealInv'
  <2> DEFINE s == seal(proc[h].key, proc[h].version, list, h, total, proc[h].identity, at)
             new == [kind |-> "seal", doc |-> s, by |-> h, input |-> list]
  <2>1. /\ seals' = seals \cup {s} /\ issued' = issued \cup {new}
        /\ UNCHANGED <<os, proc, manifests>>
        /\ proc[h].up /\ proc[h].identity # NoIdentity
    BY <1>3 DEF SealNow, Issue
  <2>2. IsIdentity(proc[h].identity) /\ NamesHost(proc[h].identity, h)
    BY <2>1 DEF DaemonsOK, IsProcess
  <2>3. /\ IsSeal(s)
        /\ s.signature = Sign(s.signing_public_key, canonical_json(s.payload))
        /\ s.payload.hardware_serial = h
        /\ s.payload.hardware_identity = proc[h].identity
    BY <2>2, SealIsSigned
  <2> HIDE DEF s
  <2>4. new.kind = "seal" /\ new.doc = s /\ new.by = h
    OBVIOUS
  <2> HIDE DEF new
  <2>5. IssuedOK'
    BY <2>1, <2>2, <2>3, <2>4 DEF IssuedOK
  <2>6. StoredOK'
    BY <2>1, <2>3, <2>4 DEF StoredOK, SignatureIssued
  <2> QED BY <2>1, <2>5, <2>6 DEF DaemonsOK
<1>4. ASSUME NEW h \in Hosts, NEW a \in Attributions(h), NEW at \in Times,
             ManifestNow(h, a, at)
      PROVE  SealInv'
  <2> DEFINE payload == [manifest_version |-> proc[h].version, provider |-> os[h],
                         hardware_signature |-> h, workload_pid |-> a.pid,
                         window_start_ns |-> a.window_start_ns,
                         window_end_ns |-> a.window_end_ns,
                         sampled_at_ns |-> at, idle_power_uw |-> 0,
                         active_power_uw |-> a.burst_power_uw,
                         attributed_energy_uj |-> a.attributed_energy_uj]
             m == manifest_sign(payload, proc[h].key)
             new == [kind |-> "manifest", doc |-> m, by |-> h, input |-> <<a>>]
  <2>1. /\ manifests' = manifests \cup {m} /\ issued' = issued \cup {new}
        /\ UNCHANGED <<os, proc, seals>>
    BY <1>4 DEF ManifestNow, Issue
  <2>2. IsManifestPayload(payload)
    BY DEF IsManifestPayload, ManifestFields
  <2> HIDE DEF payload
  <2>3. IsManifest(m) /\ m.signature = Sign(m.signing_public_key, manifest_json(m.payload))
    BY <2>2 DEF manifest_sign, IsManifest
  <2> HIDE DEF m
  <2>4. new.kind = "manifest" /\ new.doc = m
    OBVIOUS
  <2> HIDE DEF new
  <2>5. IssuedOK'
    BY <2>1, <2>3, <2>4 DEF IssuedOK
  <2>6. StoredOK'
    BY <2>1, <2>3, <2>4 DEF StoredOK, SignatureIssued
  <2> QED BY <2>1, <2>5, <2>6 DEF DaemonsOK
<1>5. CASE Mixup
  <2>1. UNCHANGED <<os, proc, issued>>
    BY <1>5 DEF Mixup
  <2>2. ASSUME NEW a \in seals, NEW b \in seals, NEW c \in Mixed(a, b),
               seals' = seals \cup {c}, UNCHANGED manifests
        PROVE  StoredOK'
    <3>1. IsSeal(c) /\ c.signature \in {a.signature, b.signature}
      BY MixedSeal DEF StoredOK
    <3> QED BY <2>1, <2>2, <3>1 DEF StoredOK, SignatureIssued
  <2>3. ASSUME NEW a \in manifests, NEW b \in manifests, NEW c \in Mixed(a, b),
               manifests' = manifests \cup {c}, UNCHANGED seals
        PROVE  StoredOK'
    <3>1. IsManifest(c) /\ c.signature \in {a.signature, b.signature}
      BY MixedManifest DEF StoredOK
    <3> QED BY <2>1, <2>3, <3>1 DEF StoredOK, SignatureIssued
  <2>4. StoredOK'
    BY <1>5, <2>2, <2>3 DEF Mixup
  <2> QED BY <2>1, <2>4 DEF DaemonsOK, IssuedOK
<1>6. CASE UNCHANGED svars
  BY <1>6 DEF svars, DaemonsOK, IssuedOK, StoredOK, SignatureIssued
<1> QED BY <1>1, <1>2, <1>3, <1>4, <1>5, <1>6 DEF Next

(***************************************************************************)
(* A document that verifies carries a signature over its own payload, that *)
(* signature is an issued document's over its payload, and the encodings   *)
(* are injective: the two are the same.                                    *)
(***************************************************************************)
LEMMA InvariantImplies == SealInv => VerifiedSealWasSealed /\ VerifiedManifestWasSigned
<1> SUFFICES ASSUME SealInv
             PROVE  VerifiedSealWasSealed /\ VerifiedManifestWasSigned
  OBVIOUS
<1>1. ASSUME NEW s \in seals, verify(s)
      PROVE  WasIssued("seal", s)
  <2>1. PICK i \in issued : i.kind = "seal" /\ i.doc.signature = s.signature
    BY DEF SealInv, StoredOK, SignatureIssued
  <2>2. s.signature = Sign(s.signing_public_key, canonical_json(s.payload))
    BY <1>1 DEF verify
  <2>3. IsSeal(s) /\ IsSeal(i.doc)
    BY <2>1 DEF SealInv, StoredOK, IssuedOK
  <2>4. i.doc.signature = Sign(i.doc.signing_public_key, canonical_json(i.doc.payload))
    BY <2>1 DEF SealInv, IssuedOK
  <2>5. /\ i.doc.signing_public_key = s.signing_public_key
        /\ canonical_json(i.doc.payload) = canonical_json(s.payload)
    BY <2>1, <2>2, <2>4 DEF Sign
  <2>6. i.doc.payload = s.payload
    BY <2>3, <2>5, CanonicalJsonIsInjective DEF IsSeal
  <2> QED BY <2>1, <2>5, <2>6 DEF WasIssued
<1>2. ASSUME NEW m \in manifests, manifest_verify(m)
      PROVE  WasIssued("manifest", m)
  <2>1. PICK i \in issued : i.kind = "manifest" /\ i.doc.signature = m.signature
    BY DEF SealInv, StoredOK, SignatureIssued
  <2>2. m.signature = Sign(m.signing_public_key, manifest_json(m.payload))
    BY <1>2 DEF manifest_verify
  <2>3. IsManifest(m) /\ IsManifest(i.doc)
    BY <2>1 DEF SealInv, StoredOK, IssuedOK
  <2>4. i.doc.signature = Sign(i.doc.signing_public_key, manifest_json(i.doc.payload))
    BY <2>1 DEF SealInv, IssuedOK
  <2>5. /\ i.doc.signing_public_key = m.signing_public_key
        /\ manifest_json(i.doc.payload) = manifest_json(m.payload)
    BY <2>1, <2>2, <2>4 DEF Sign
  <2>6. i.doc.payload = m.payload
    BY <2>3, <2>5, ManifestJsonIsInjective DEF IsManifest
  <2> QED BY <2>1, <2>5, <2>6 DEF WasIssued
<1> QED BY <1>1, <1>2 DEF VerifiedSealWasSealed, VerifiedManifestWasSigned

(***************************************************************************)
(* However many daemons seal under however many keys, and whatever parts   *)
(* of seals the store mixes up, AmalgafySeal::verify accepts only what a   *)
(* holder of the key sealed.                                               *)
(***************************************************************************)
THEOREM SealsAreAuthentic == Spec => []VerifiedSealWasSealed
<1>1. Init => SealInv
  BY DEF Init, SealInv, DaemonsOK, IssuedOK, StoredOK, Down
<1> QED BY <1>1, InvariantStep, InvariantImplies, PTL DEF Spec

(***************************************************************************)
(* The identity in a seal that verifies is one of the host that sealed it, *)
(* or flagged Synthetic: daemons that share a key, a host name and a PID   *)
(* cannot pass for each other under an identity from a real source.        *)
(***************************************************************************)
THEOREM SealsNameTheirHost == Spec => []IdentityBindsHost
<1>1. Init => SealInv
  BY DEF Init, SealInv, DaemonsOK, IssuedOK, StoredOK, Down
<1>2. SealInv => IdentityBindsHost
  <2> SUFFICES ASSUME SealInv, NEW s \in seals, verify(s), NEW i \in issued, i.kind = "seal",
                      i.doc.payload.hardware_identity = s.payload.hardware_identity,
                      s.payload.hardware_identity.source # "Synthetic"
               PROVE  i.by = s.payload.hardware_serial
    BY DEF IdentityBindsHost
  <2>1. PICK j \in issued : j.kind = "seal" /\ j.doc.payload = s.payload
    BY InvariantImplies DEF VerifiedSealWasSealed, WasIssued
  <2>2. /\ s.payload.hardware_serial = j.by
        /\ NamesHost(s.payload.hardware_identity, j.by)
        /\ NamesHost(s.payload.hardware_identity, i.by)
    BY <2>1 DEF SealInv, IssuedOK
  <2> QED BY <2>2, IdentityNamesOneHost
<1> QED BY <1>1, <1>2, InvariantStep, PTL DEF Spec

(***************************************************************************)
(* EnergyManifest::verify, too, accepts only what a holder of the key      *)
(* signed.                                                                 *)
(***************************************************************************)
THEOREM ManifestsAreAuthentic == Spec => []VerifiedManifestWasSigned
<1>1. Init => SealInv
  BY DEF Init, SealInv, DaemonsOK, IssuedOK, StoredOK, Down
<1> QED BY <1>1, InvariantStep, InvariantImplies, PTL DEF Spec

-------------------------------------------------------------------------------
(* What a seal says of its host and its input *)

\* the fingerprint that goes with each source of host h
ReadFrom(id, h) ==
  \/ id = Identity("machine-id", h, "LinuxMachineId")
  \/ \E g \in Gpus : id = Identity("gpu", <<h, g>>, "LinuxGpuUuid")
  \/ id = Identity("platform-serial", h, "MacosIoKitSerial")
  \/ id = Identity("nvml-serial", h, "WindowsNvmlSerial")
  \/ id = Identity("nvml-uuid", h, "WindowsNvmlUuid")
  \/ id.source = "Synthetic"

ProcOK(h) ==
  \/ proc[h] = Down
  \/ /\ IsProcess(proc[h]) /\ proc[h].up = TRUE
     /\ proc[h].key \in Keys /\ proc[h].version \in Versions /\ proc[h].pid \in OsPids
     /\ proc[h].nvml \in {"unset", "ok", "failed"}
     /\ \/ proc[h].identity = NoIdentity
        \/ /\ ReadFrom(proc[h].identity, h)
           /\ os[h] = "windows" => proc[h].nvml # "unset"

\* the seal is what seal() makes of its input and of what it says itself
SealedFrom(s, list) ==
  s = seal(s.signing_public_key, s.payload.manifest_version, list, s.payload.hardware_serial,
           s.payload.total_micro_joules, s.payload.hardware_identity,
           s.payload.sealed_at_unix_ns)

IssuedFrom(i) ==
  \/ /\ i.kind = "seal" /\ i.doc \in seals
     /\ ReadFrom(i.doc.payload.hardware_identity, i.by)
     /\ SealedFrom(i.doc, i.input)
     /\ i.input \in Lists(i.by)
  \/ i.kind = "manifest" /\ i.doc \in manifests

StoreInv ==
  /\ os \in [Hosts -> Systems]
  /\ proc = [h \in Hosts |-> proc[h]]
  /\ \A h \in Hosts : ProcOK(h)
  /\ starts \in Nat /\ probes \in Nat /\ mixups \in Nat
  /\ \A i \in issued : IssuedFrom(i)

(***************************************************************************)
(* What a probe returns tells the source it was read from.                 *)
(***************************************************************************)
LEMMA ProbeTellsSource ==
  ASSUME NEW o \in Systems, NEW h, NEW pid, NEW nvml, NEW can,
         NEW id \in probe(o, h, pid, nvml, can)
  PROVE  ReadFrom(id, h)
<1>1. CASE id \in try_probe(o, h, nvml, can)
  <2>1. id \in linux_probe(h, can) => ReadFrom(id, h)
    BY DEF linux_probe, ReadFrom
  <2>2. id \in macos_probe(h, can) => ReadFrom(id, h)
    BY DEF macos_probe, ReadFrom
  <2>3. id \in windows_probe(h, can) => ReadFrom(id, h)
    BY DEF windows_probe, Identity, ReadFrom
  <2>4. o = "linux" \/ o = "macos" \/ o = "windows"
    BY SealStoreAssumption
  <2> QED BY <1>1, <2>1, <2>2, <2>3, <2>4 DEF try_probe
<1>2. CASE id \in synthetic(pid, can)
  BY <1>2 DEF synthetic, Identity, ReadFrom
<1> QED BY <1>1, <1>2 DEF probe

(***************************************************************************)
(* After a probe of a Windows host the result of nvmlInit is stored.       *)
(***************************************************************************)
LEMMA NvmlIsDecided ==
  ASSUME NEW o, NEW nvml \in {"unset", "ok", "failed"}, NEW can
  PROVE  /\ nvml_init_result(o, nvml, can) \in {"unset", "ok", "failed"}
         /\ o = "windows" => nvml_init_result(o, nvml, can) # "unset"
  BY DEF nvml_init_result

(***************************************************************************)
(* An issued document is never lost from the store, so only the step that  *)
(* issues one has to be looked at.                                         *)
(***************************************************************************)
LEMMA IssuedStays ==
  ASSUME \A i \in issued : IssuedFrom(i), seals \subseteq seals', manifests \subseteq manifests'
  PROVE  \A i \in issued : IssuedFrom(i)'
  BY DEF IssuedFrom

(***************************************************************************)
(* Every step keeps the processes and what is known of the documents.      *)
(***************************************************************************)
LEMMA StoreStep == StoreInv /\ [Next]_svars => StoreInv'
<1> SUFFICES ASSUME StoreInv, [Next]_svars PROVE StoreInv'
  OBVIOUS
<1>0. /\ os \in [Hosts -> Systems] /\ proc = [h \in Hosts |-> proc[h]]
      /\ \A h \in Hosts : ProcOK(h)
      /\ starts \in Nat /\ probes \in Nat /\ mixups \in Nat
      /\ \A i \in issued : IssuedFrom(i)
  BY DEF StoreInv
<1>1. ASSUME UNCHANGED <<seals, manifests, issued>>
      PROVE  \A i \in issued' : IssuedFrom(i)'
  <2>1. seals \subseteq seals' /\ manifests \subseteq manifests' /\ issued' = issued
    BY <1>1
  <2>2. \A i \in issued : IssuedFrom(i)'
    BY <1>0, <2>1, IssuedStays
  <2> QED BY <2>1, <2>2
<1>2. ASSUME NEW h \in Hosts, NEW key \in Keys, NEW v \in Versions, NEW pid \in OsPids,
             Start(h, key, v, pid)
      PROVE  StoreInv'
  <2> DEFINE new == [up |-> TRUE, key |-> key, version |-> v, pid |-> pid,
                     nvml |-> "unset", identity |-> NoIdentity]
  <2>1. proc' = [proc EXCEPT ![h] = new] /\ starts' = starts + 1
        /\ UNCHANGED <<os, probes, mixups, seals, manifests, issued>>
    BY <1>2 DEF Start
  <2>2. IsIdentity(NoIdentity)
    BY DEF IsIdentity, NoIdentity, Identity
  <2>3. /\ IsProcess(new) /\ new.up = TRUE /\ new.key \in Keys /\ new.version \in Versions
        /\ new.pid \in OsPids /\ new.nvml = "unset" /\ new.identity = NoIdentity
    <3> HIDE DEF NoIdentity
    <3> QED BY <2>2 DEF IsProcess
  <2> HIDE DEF new
  <2>4. proc' = [g \in Hosts |-> proc'[g]] /\ proc'[h] = new
        /\ \A g \in Hosts \ {h} : proc'[g] = proc[g]
    BY <1>0, <2>1
  <2>5. \A g \in Hosts : ProcOK(g)'
    <3> TAKE g \in Hosts
    <3>1. CASE g = h
      BY <2>3, <2>4, <3>1 DEF ProcOK
    <3>2. CASE g # h
      BY <1>0, <2>1, <2>4, <3>2 DEF ProcOK
    <3> QED BY <3>1, <3>2
  <2> QED BY <1>0, <1>1, <2>1, <2>4, <2>5 DEF StoreInv
<1>3. ASSUME NEW h \in Hosts, NEW can, Probe(h, can)
      PROVE  StoreInv'
  <2> DEFINE nvml == nvml_init_result(os[h], proc[h].nvml, can)
  <2>1. PICK id \in probe(os[h], h, proc[h].pid, nvml, can) :
          proc' = [proc EXCEPT ![h].nvml = nvml, ![h].identity = id]
    BY <1>3 DEF Probe
  <2>2. /\ proc[h].up /\ probes' = probes + 1
        /\ UNCHANGED <<os, starts, mixups, seals, manifests, issued>>
    BY <1>3 DEF Probe
  <2>3. os[h] \in Systems /\ proc[h] # Down
    <3>1. Down.up = FALSE
      BY DEF Down
    <3> QED BY <1>0, <2>2, <3>1
  <2>4. IsIdentity(id) /\ ReadFrom(id, h)
    BY <2>3, ProbeYieldsIdentity, ProbeTellsSource
  <2>5. nvml \in {"unset", "ok", "failed"} /\ (os[h] = "windows" => nvml # "unset")
    BY <1>0, <2>3, NvmlIsDecided DEF ProcOK
  <2> HIDE DEF nvml
  <2>6. proc' = [g \in Hosts |-> proc'[g]] /\ \A g \in Hosts \ {h} : proc'[g] = proc[g]
    BY <1>0, <2>1
  <2>7. proc'[h] = [proc[h] EXCEPT !.nvml = nvml, !.identity = id]
    BY <1>0, <2>1
  <2>8. ProcOK(h)'
    <3> DEFINE old == proc[h]
               new == [old EXCEPT !.nvml = nvml, !.identity = id]
    <3>1. /\ IsProcess(old) /\ old.up = TRUE
          /\ old.key \in Keys /\ old.version \in Versions /\ old.pid \in OsPids
      BY <1>0, <2>3 DEF ProcOK
    <3> HIDE DEF old
    <3>2. /\ IsProcess(new) /\ new.up = TRUE /\ new.nvml = nvml /\ new.identity = id
          /\ new.key \in Keys /\ new.version \in Versions /\ new.pid \in OsPids
      <4>1. PICK o : o = old /\ IsProcess(o)
        BY <3>1
      <4>2. PICK r : r = [o EXCEPT !.nvml = nvml, !.identity = id]
        OBVIOUS
      <4>3. IsProcess(r) /\ r.nvml = nvml /\ r.identity = id
        BY <2>4, <4>1, <4>2 DEF IsProcess
      <4>4. r.up = o.up /\ r.key = o.key /\ r.version = o.version /\ r.pid = o.pid
        BY <4>1, <4>2 DEF IsProcess
      <4> QED BY <3>1, <4>1, <4>2, <4>3, <4>4
    <3>3. proc'[h] = new /\ os' = os
      BY <2>2, <2>7 DEF old
    <3> HIDE DEF new
    <3> QED BY <2>4, <2>5, <3>2, <3>3 DEF ProcOK
  <2>9. \A g \in Hosts : ProcOK(g)'
    <3> TAKE g \in Hosts
    <3>2. CASE g # h
      BY <1>0, <2>2, <2>6, <3>2 DEF ProcOK
    <3> QED BY <2>8, <3>2
  <2> QED BY <1>0, <1>1, <2>2, <2>6, <2>9 DEF StoreInv
<1>4. ASSUME NEW h \in Hosts, NEW list \in Lists(h), NEW total \in Totals, NEW at \in Times,
             SealNow(h, list, total, at)
      PROVE  StoreInv'
  <2>1. /\ UNCHANGED <<os, proc, starts, probes, mixups, manifests>>
        /\ proc[h].up /\ proc[h].identity # NoIdentity
    BY <1>4 DEF SealNow, Issue
  <2>2. PICK key, version, id : key = proc[h].key /\ version = proc[h].version
                                /\ id = proc[h].identity
    OBVIOUS
  <2> DEFINE s == seal(key, version, list, h, total, id, at)
             new == [kind |-> "seal", doc |-> s, by |-> h, input |-> list]
  <2>3. seals' = seals \cup {s} /\ issued' = issued \cup {new}
    BY <1>4, <2>2 DEF SealNow, Issue
  <2>4. ReadFrom(id, h)
    <3>1. Down.up = FALSE
      BY DEF Down
    <3> QED BY <1>0, <2>1, <2>2, <3>1 DEF ProcOK
  <2>5. SealedFrom(s, list) /\ s.payload.hardware_identity = id
    BY DEF SealedFrom, seal
  <2>6. new.kind = "seal" /\ new.doc = s /\ new.by = h /\ new.input = list
    OBVIOUS
  <2> HIDE DEF s, new
  <2>7. IssuedFrom(new)'
    BY <2>3, <2>4, <2>5, <2>6 DEF IssuedFrom
  <2>8. \A i \in issued : IssuedFrom(i)'
    <3>1. seals \subseteq seals' /\ manifests \subseteq manifests'
      BY <2>1, <2>3
    <3> QED BY <1>0, <3>1, IssuedStays
  <2> QED BY <1>0, <2>1, <2>3, <2>7, <2>8 DEF StoreInv, ProcOK
<1>5. ASSUME NEW h \in Hosts, NEW a \in Attributions(h), NEW at \in Times,
             ManifestNow(h, a, at)
      PROVE  StoreInv'
  <2>1. PICK m : /\ manifests' = manifests \cup {m}
                 /\ issued' = issued \cup {[kind |-> "manifest", doc |-> m, by |-> h, input |-> <<a>>]}
                 /\ UNCHANGED <<os, proc, starts, probes, mixups, seals>>
    BY <1>5 DEF ManifestNow, Issue
  <2> DEFINE new == [kind |-> "manifest", doc |-> m, by |-> h, input |-> <<a>>]
  <2>2. new.kind = "manifest" /\ new.doc = m
    OBVIOUS
  <2> HIDE DEF new
  <2>3. IssuedFrom(new)'
    BY <2>1, <2>2 DEF IssuedFrom
  <2>4. \A i \in issued : IssuedFrom(i)'
    <3>1. seals \subseteq seals' /\ manifests \subseteq manifests'
      BY <2>1
    <3> QED BY <1>0, <3>1, IssuedStays
  <2>5. issued' = issued \cup {new}
    BY <2>1 DEF new
  <2> QED BY <1>0, <2>1, <2>3, <2>4, <2>5 DEF StoreInv, ProcOK
<1>6. CASE Mixup
  <2>1. UNCHANGED <<os, proc, starts, probes, issued>> /\ mixups' = mixups + 1
    BY <1>6 DEF Mixup
  <2>2. seals \subseteq seals' /\ manifests \subseteq manifests'
    BY <1>6 DEF Mixup
  <2>3. \A i \in issued : IssuedFrom(i)'
    BY <1>0, <2>2, IssuedStays
  <2> QED BY <1>0, <2>1, <2>3 DEF StoreInv, ProcOK
<1>7. CASE UNCHANGED svars
  <2>1. \A i \in issued' : IssuedFrom(i)'
    BY <1>1, <1>7 DEF svars
  <2> QED BY <1>0, <1>7, <2>1 DEF svars, StoreInv, ProcOK
<1> QED BY <1>2, <1>3, <1>4, <1>5, <1>6, <1>7 DEF Next

(***************************************************************************)
(* The invariant of the processes and the documents holds always.          *)
(***************************************************************************)
LEMMA StoreInvariant == Spec => []StoreInv
<1>1. Init => StoreInv
  BY DEF Init, StoreInv, ProcOK
<1> QED BY <1>1, StoreStep, PTL DEF Spec

(***************************************************************************)
(* The store never loses an issued document, a process has the key, the    *)
(* version and the PID it was started with, and on Windows it has the      *)
(* result of nvmlInit before it has an identity.                           *)
(***************************************************************************)
THEOREM StoreIsTyped == Spec => []StoreTypeOK
<1>1. StoreInv => StoreTypeOK
  BY DEF StoreInv, StoreTypeOK, ProcOK, IssuedFrom
<1> QED BY <1>1, StoreInvariant, PTL

(***************************************************************************)
(* Two seals of one host whose identities come from the same real source   *)
(* carry the same fingerprint, across restarts and whatever could be read. *)
(***************************************************************************)
THEOREM FingerprintsAreStable == Spec => []FingerprintIsStable
<1>1. StoreInv => FingerprintIsStable
  <2> SUFFICES ASSUME StoreInv, NEW i \in issued, NEW j \in issued,
                      i.kind = "seal", j.kind = "seal", i.by = j.by,
                      i.doc.payload.hardware_identity.source = j.doc.payload.hardware_identity.source,
                      i.doc.payload.hardware_identity.source # "Synthetic",
                      i.doc.payload.hardware_identity.source = "LinuxGpuUuid" => Cardinality(Gpus) = 1
               PROVE  i.doc.payload.hardware_identity.fingerprint
                        = j.doc.payload.hardware_identity.fingerprint
    BY DEF FingerprintIsStable
  <2> DEFINE a == i.doc.payload.hardware_identity
             b == j.doc.payload.hardware_identity
             h == i.by
  <2>1. ReadFrom(a, h) /\ ReadFrom(b, h)
    BY DEF StoreInv, IssuedFrom
  <2>2. a.source = "LinuxGpuUuid" => \E g : Gpus = {g}
    BY GpusAssumption, FS_Singleton
  <2>3. a.source = b.source /\ a.source # "Synthetic"
    OBVIOUS
  <2> HIDE DEF a, b, h
  <2>4. ASSUME NEW x, ReadFrom(x, h), x.source # "Synthetic"
        PROVE  \/ x.source = "LinuxMachineId" /\ x.fingerprint = <<"machine-id", h>>
               \/ x.source = "LinuxGpuUuid" /\ \E g \in Gpus : x.fingerprint = <<"gpu", <<h, g>>>>
               \/ x.source = "MacosIoKitSerial" /\ x.fingerprint = <<"platform-serial", h>>
               \/ x.source = "WindowsNvmlSerial" /\ x.fingerprint = <<"nvml-serial", h>>
               \/ x.source = "WindowsNvmlUuid" /\ x.fingerprint = <<"nvml-uuid", h>>
    BY <2>4 DEF ReadFrom, Identity
  <2>5. b.source # "Synthetic"
    BY <2>3
  <2>6. CASE a.source = "LinuxGpuUuid"
    <3>1. PICK g : Gpus = {g}
      BY <2>2, <2>6
    <3>2. a.fingerprint = <<"gpu", <<h, g>>>>
      BY <2>1, <2>3, <2>4, <2>6, <3>1
    <3>3. b.fingerprint = <<"gpu", <<h, g>>>>
      BY <2>1, <2>3, <2>4, <2>6, <3>1
    <3> QED BY <3>2, <3>3 DEF a, b
  <2>7. CASE a.source # "LinuxGpuUuid"
    <3>1. a.fingerprint = b.fingerprint
      BY <2>1, <2>3, <2>4, <2>5, <2>7
    <3> QED BY <3>1 DEF a, b
  <2> QED BY <2>6, <2>7
<1> QED BY <1>1, StoreInvariant, PTL

(***************************************************************************)
(* Two seals of the same state are the same document, whatever the order   *)
(* in which the caller listed the records, if no two of them agree in PID  *)
(* and window.                                                             *)
(***************************************************************************)
THEOREM SealsForgetOrder == Spec => []SealIgnoresOrderOfKeys
<1>1. StoreInv => SealIgnoresOrderOfKeys
  <2> SUFFICES ASSUME StoreInv, NEW i \in issued, NEW j \in issued,
                      SameState(i, j), NoTies(i.input)
               PROVE  i.doc = j.doc
    BY DEF SealIgnoresOrderOfKeys
  <2> DEFINE p == i.doc.payload
             q == j.doc.payload
  <2>1. /\ i.kind = "seal" /\ j.kind = "seal" /\ SameRecords(i.input, j.input)
        /\ i.doc.signing_public_key = j.doc.signing_public_key
        /\ \A f \in DOMAIN p \ {"attributions"} : p[f] = q[f]
    BY DEF SameState
  <2>2. /\ SealedFrom(i.doc, i.input) /\ SealedFrom(j.doc, j.input)
        /\ i.input \in Lists(i.by) /\ j.input \in Lists(j.by)
    BY <2>1 DEF StoreInv, IssuedFrom
  <2>3. sort_by(i.input) = sort_by(j.input)
    <3>1. PICK n \in Nat : DOMAIN i.input = 1 .. n /\ \A k \in 1 .. n : Keyed(i.input[k])
      BY <2>2, ListsAreKeyed
    <3>2. PICK m \in Nat : DOMAIN j.input = 1 .. m /\ \A k \in 1 .. m : Keyed(j.input[k])
      BY <2>2, ListsAreKeyed
    <3> QED BY <2>1, <3>1, <3>2, SortIsCanonical
  <2>4. DOMAIN p = PayloadFields
    BY <2>2 DEF SealedFrom, seal, PayloadFields
  <2>5. /\ p.manifest_version = q.manifest_version /\ p.hardware_serial = q.hardware_serial
        /\ p.total_micro_joules = q.total_micro_joules
        /\ p.hardware_identity = q.hardware_identity
        /\ p.sealed_at_unix_ns = q.sealed_at_unix_ns
    <3> HIDE DEF p, q
    <3> QED BY <2>1, <2>4 DEF PayloadFields
  <2> QED BY <2>1, <2>2, <2>3, <2>5 DEF SealedFrom, seal
<1> QED BY <1>1, StoreInvariant, PTL
===============================================================================
