------------------------------- MODULE SatArith -------------------------------
(***************************************************************************)
(* Unsigned machine arithmetic as the crate uses it.  Every energy (uJ),   *)
(* power (uW) and time (ns) of MJAE is a Rust u64 and almost every         *)
(* operation on it saturates.  MaxU stands for u64::MAX; the models give   *)
(* it a small value so that saturation is reached, the theorems hold for   *)
(* every value.                                                            *)
(***************************************************************************)
EXTENDS Integers

CONSTANT MaxU
ASSUME MaxUAssumption == MaxU \in Nat \ {0}

U64 == 0 .. MaxU

\* u64::try_from(x).unwrap_or(u64::MAX) for a wider non-negative x
clamp(x) == IF x > MaxU THEN MaxU ELSE x

saturating_add(a, b) == clamp(a + b)

saturating_sub(a, b) == IF a < b THEN 0 ELSE a - b

saturating_mul(a, b) == clamp(a * b)

(***************************************************************************)
(* Wrapping addition: what a release build does for the plain + operator.  *)
(* Only mutants use it, in place of a saturating operation.                *)
(***************************************************************************)
wrapping_add(a, b) == (a + b) % (MaxU + 1)
===============================================================================
