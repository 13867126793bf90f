------------------------------ MODULE MCRegistry ------------------------------
(***************************************************************************)
(* RegistryLedger for TLC, with the properties that sum over PIDs or over  *)
(* threads.                                                                *)
(***************************************************************************)
EXTENDS RegistryLedger, FiniteSetsExt

SumOver(f) == MapThenSumSet(LAMBDA p : f[p], Pids)

(***************************************************************************)
(* total_micro_joules: "the resulting total is a [...] lower bound on the  *)
(* real cumulative energy spent so far", whatever writers and removers do  *)
(* during the walk.                                                        *)
(***************************************************************************)
TotalIsLowerBound == \A a \in Auditors : total[a] <= SumOver(credited)

(***************************************************************************)
(* Without remove, the total of a walk is no less than what the registry   *)
(* held when the walk began (saturated at u64::MAX).                       *)
(***************************************************************************)
TotalMissesNothing ==
  \A a \in Auditors : apc[a] = "idle" => total[a] >= clamp(SumOver(base[a]))

\* micro-joules of p unlinked by a remove that has not read them yet
BeingRemoved(p) ==
  MapThenSumSet(LAMBDA r : value[p][rent[r]],
                {r \in Reapers : rpc[r] = "load" /\ rpid[r] = p})

(***************************************************************************)
(* With remove: a delta can go missing only if a remove unlinked the PID   *)
(* while a writer held its entry.  If that never happened, what is in the  *)
(* table and what remove handed back add up to what was added, across any  *)
(* number of removals and re-insertions of the PID.                        *)
(***************************************************************************)
LostOnlyInRace ==
  \A p \in Pids :
    (~raced[p] /\ credited[p] <= MaxU) =>
      Live(p) + returned[p] + BeingRemoved(p) = credited[p]

(***************************************************************************)
(* Race or no race, no delta is counted twice: what is in the table and    *)
(* what remove handed back never exceed what was added.                    *)
(***************************************************************************)
NothingCountedTwice ==
  \A p \in Pids : Live(p) + returned[p] + BeingRemoved(p) <= credited[p]
===============================================================================
