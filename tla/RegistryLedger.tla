---------------------------- MODULE RegistryLedger ----------------------------
(***************************************************************************)
(* Registry with history variables: what was added, what remove handed     *)
(* back, and whether a remove ever raced an add.  They record the          *)
(* behaviour of the code and constrain nothing; only Call is bounded, by   *)
(* MaxCalls, to keep the sums finite.                                      *)
(***************************************************************************)
EXTENDS Registry

CONSTANT MaxCalls   \* bound: add_micro_joules calls in a behaviour
ASSUME MaxCallsAssumption == MaxCalls \in Nat

VARIABLES
  calls,      \* add_micro_joules calls so far
  credited,   \* PID -> sum of the deltas of the adds that have finished
  returned,   \* PID -> sum of what remove handed back
  raced,      \* PID -> has a remove unlinked it while a writer held its entry
  base        \* auditor -> credited when its walk began

ledger == <<calls, credited, returned, raced, base>>
lvars == <<vars, ledger>>

LInit ==
  /\ Init
  /\ calls = 0
  /\ credited = [p \in Pids |-> 0]
  /\ returned = [p \in Pids |-> 0]
  /\ raced = [p \in Pids |-> FALSE]
  /\ base = [a \in Auditors |-> [p \in Pids |-> 0]]

\* some writer holds the Entry of p's cell and has not swapped yet
Held(p) == \E w \in Writers : pc[w] \in {"load", "cas"} /\ job[w].pid = p

LCall(w, j) ==
  /\ calls < MaxCalls
  /\ Call(w, j)
  /\ calls' = calls + 1
  /\ UNCHANGED <<credited, returned, raced, base>>

LCasOk(w) ==
  /\ CasOk(w)
  /\ credited' = [credited EXCEPT ![job[w].pid] = @ + job[w].uj]
  /\ UNCHANGED <<calls, returned, raced, base>>

LStartWalk(a) ==
  /\ StartWalk(a)
  /\ base' = [base EXCEPT ![a] = credited]
  /\ UNCHANGED <<calls, credited, returned, raced>>

LUnlink(r, p) ==
  /\ Unlink(r, p)
  /\ raced' = [raced EXCEPT ![p] = @ \/ (p \in table /\ Held(p))]
  /\ UNCHANGED <<calls, credited, returned, base>>

LFinalLoad(r) ==
  /\ FinalLoad(r)
  /\ returned' = [returned EXCEPT ![rpid[r]] = @ + rret'[r]]
  /\ UNCHANGED <<calls, credited, raced, base>>

LWriterStep(w) ==
  \/ LCasOk(w)
  \/ /\ TableGet(w) \/ ColdPath(w) \/ Load(w) \/ CasFail(w)
     /\ UNCHANGED ledger

LWalkStep(a) == WalkStep(a) /\ UNCHANGED ledger

LNext ==
  \/ \E w \in Writers : LWriterStep(w) \/ \E j \in Jobs : LCall(w, j)
  \/ \E a \in Auditors : LStartWalk(a) \/ LWalkStep(a)
  \/ \E r \in Reapers : LFinalLoad(r) \/ \E p \in Pids : LUnlink(r, p)

LSpec == LInit /\ [][LNext]_lvars

(***************************************************************************)
(* A thread inside a call is scheduled again.  Weak fairness of a writer   *)
(* says in addition that compare_exchange_weak does not fail spuriously    *)
(* for ever on a cell nobody else writes.  Nobody has to start a call.     *)
(***************************************************************************)
LFairSpec ==
  /\ LSpec
  /\ \A w \in Writers : WF_lvars(LWriterStep(w))
  /\ \A a \in Auditors : WF_lvars(LWalkStep(a))

LTypeOK ==
  /\ TypeOK
  /\ calls \in Nat
  /\ credited \in [Pids -> Nat]
  /\ returned \in [Pids -> Nat]
  /\ raced \in [Pids -> BOOLEAN]
  /\ base \in [Auditors -> [Pids -> Nat]]

(***************************************************************************)
(* Without remove no delta is ever lost or counted twice: the one cell of  *)
(* a PID holds the (saturated) sum of every add that has returned, however *)
(* many writers raced on the PID's first insertion ("every delta is        *)
(* accumulated and none is dropped").                                      *)
(***************************************************************************)
NoDeltaLost == \A p \in Pids : Live(p) = clamp(credited[p])

\* What a finished walk has for p, a PID it did not meet counting as 0.
Reported(a, p) == IF seen[a][p] = NotSeen THEN 0 ELSE seen[a][p]

(***************************************************************************)
(* Without remove a snapshot is never behind the registry as it was when   *)
(* the walk began nor ahead of what has been added when it ends, PID by    *)
(* PID, although writers insert and add all along.                         *)
(***************************************************************************)
SnapshotBetweenStartAndEnd ==
  \A a \in Auditors : apc[a] = "idle" =>
    \A p \in Pids : /\ clamp(base[a][p]) <= Reported(a, p)
                     /\ Reported(a, p) <= credited[p]

(***************************************************************************)
(* add_micro_joules is lock-free: when no new call comes in, every call    *)
(* under way returns, because a failed compare-and-swap means that some    *)
(* other call returned and the retry starts from what the cell holds now.  *)
(***************************************************************************)
EveryAddReturns == \A w \in Writers : pc[w] # "idle" ~> pc[w] = "idle"

(***************************************************************************)
(* "The walk is wait-free": snapshot and total_micro_joules return while   *)
(* writers keep inserting and adding.                                      *)
(***************************************************************************)
EveryWalkReturns == \A a \in Auditors : apc[a] # "idle" ~> apc[a] = "idle"
===============================================================================
