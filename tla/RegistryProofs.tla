---------------------------- MODULE RegistryProofs ----------------------------
(***************************************************************************)
(* What TLAPS proves of the registry and of the ledger of its calls, for   *)
(* any number of PIDs, writers, auditors and reapers, any deltas, any      *)
(* u64::MAX and any MaxGen.                                                *)
(***************************************************************************)
EXTENDS MCRegistry, SatArithProofs

USE DEF Gens, NotSeen, BeforeFirst, None

-------------------------------------------------------------------------------
(* Types *)

(***************************************************************************)
(* A writer about to load or to swap holds the Entry of a cell that        *)
(* exists, so `entry.value()` is a u64.                                    *)
(***************************************************************************)
LEMMA WriterCell ==
  ASSUME IndInv, NEW w \in Writers, pc[w] \in {"load", "cas"}
  PROVE  /\ job[w].pid \in Pids
         /\ ent[w] \in Gens
         /\ value[job[w].pid][ent[w]] \in U64
<1>1. job[w].pid \in Pids
  BY DEF IndInv, TypeOK, Jobs
<1>2. gen[job[w].pid] \in 0 .. MaxGen /\ ent[w] \in 1 .. gen[job[w].pid]
  BY <1>1 DEF IndInv, TypeOK, EntriesExist
<1>3. ent[w] \in Gens
  BY <1>2, RegistryAssumption
<1>4. value \in [Pids -> [Gens -> U64]]
  BY DEF IndInv, TypeOK
<1> QED BY <1>1, <1>3, <1>4

(***************************************************************************)
(* So does an auditor about to load the entry its iterator yielded ...     *)
(***************************************************************************)
LEMMA AuditorCell ==
  ASSUME IndInv, NEW a \in Auditors, apc[a] = "load"
  PROVE  /\ at[a] \in Pids
         /\ aent[a] \in Gens
         /\ value[at[a]][aent[a]] \in U64
<1>1. at[a] \in Pids /\ aent[a] \in 1 .. gen[at[a]]
  BY DEF IndInv, EntriesExist
<1>2. gen[at[a]] \in 0 .. MaxGen
  BY <1>1 DEF IndInv, TypeOK
<1>3. aent[a] \in Gens
  BY <1>1, <1>2, RegistryAssumption
<1>4. value \in [Pids -> [Gens -> U64]]
  BY DEF IndInv, TypeOK
<1> QED BY <1>1, <1>3, <1>4

(***************************************************************************)
(* ... and a reaper about to load the entry it unlinked.                   *)
(***************************************************************************)
LEMMA ReaperCell ==
  ASSUME IndInv, NEW r \in Reapers, rpc[r] = "load"
  PROVE  /\ rpid[r] \in Pids
         /\ rent[r] \in Gens
         /\ value[rpid[r]][rent[r]] \in U64
<1>1. rpid[r] \in Pids /\ rent[r] \in 1 .. gen[rpid[r]]
  BY DEF IndInv, TypeOK, EntriesExist
<1>2. gen[rpid[r]] \in 0 .. MaxGen
  BY <1>1 DEF IndInv, TypeOK
<1>3. rent[r] \in Gens
  BY <1>1, <1>2, RegistryAssumption
<1>4. value \in [Pids -> [Gens -> U64]]
  BY DEF IndInv, TypeOK
<1> QED BY <1>1, <1>3, <1>4

(***************************************************************************)
(* Every step of add_micro_joules, snapshot, total_micro_joules and remove *)
(* keeps the types; in particular no cell ever leaves the range of a u64.  *)
(***************************************************************************)
LEMMA TypeStep == IndInv /\ [Next]_vars => TypeOK'
<1> SUFFICES ASSUME IndInv, [Next]_vars PROVE TypeOK'
    OBVIOUS
<1> USE RegistryAssumption, MaxUAssumption
<1>0. 0 \in U64
  BY DEF U64
<1>1. ASSUME NEW w \in Writers, NEW j \in Jobs, Call(w, j) PROVE TypeOK'
  BY <1>1 DEF IndInv, TypeOK, Call, tableVars, auditorVars, reaperVars
<1>2. ASSUME NEW w \in Writers, TableGet(w) PROVE TypeOK'
  <2>1. job[w].pid \in Pids
    BY DEF IndInv, TypeOK, Jobs
  <2>2. CASE job[w].pid \in table
    <3>1. gen[job[w].pid] \in 0 .. MaxGen
      BY <2>1 DEF IndInv, TypeOK
    <3>2. /\ pc' = [pc EXCEPT ![w] = "load"]
          /\ ent' = [ent EXCEPT ![w] = gen[job[w].pid]]
      BY <1>2, <2>2 DEF TableGet
    <3>3. /\ pc \in [Writers -> {"idle", "get", "insert", "load", "cas"}]
          /\ ent \in [Writers -> 0 .. MaxGen]
      BY DEF IndInv, TypeOK
    <3>4. /\ pc' \in [Writers -> {"idle", "get", "insert", "load", "cas"}]
          /\ ent' \in [Writers -> 0 .. MaxGen]
      BY <3>1, <3>2, <3>3
    <3> QED BY <1>2, <3>4
            DEF IndInv, TypeOK, TableGet, tableVars, auditorVars, reaperVars
  <2>3. CASE job[w].pid \notin table
    BY <1>2, <2>3 DEF IndInv, TypeOK, TableGet, tableVars, auditorVars, reaperVars
  <2> QED BY <2>2, <2>3
<1>3. ASSUME NEW w \in Writers, ColdPath(w) PROVE TypeOK'
  <2> DEFINE p == job[w].pid
  <2>1. p \in Pids
    BY DEF IndInv, TypeOK, Jobs
  <2>2. /\ gen' \in [Pids -> 0 .. MaxGen]
        /\ table' \subseteq Pids
        /\ value' \in [Pids -> [Gens -> U64]]
    <3>1. CASE p \in table
      BY <1>3, <3>1 DEF IndInv, TypeOK, ColdPath, GetOrInsert, tableVars
    <3>2. CASE p \notin table
      <4>1. gen[p] + 1 \in 0 .. MaxGen
        <5>1. gen[p] \in 0 .. MaxGen
          BY <2>1 DEF IndInv, TypeOK
        <5>2. gen[p] < MaxGen
          BY <1>3, <3>2 DEF ColdPath, GetOrInsert
        <5> QED BY <5>1, <5>2
      <4>2. [value[p] EXCEPT ![gen[p] + 1] = 0] \in [Gens -> U64]
        BY <2>1, <4>1, <1>0 DEF IndInv, TypeOK
      <4>3. /\ gen' = [gen EXCEPT ![p] = gen[p] + 1]
            /\ table' = table \cup {p}
            /\ value' = [value EXCEPT ![p] = [value[p] EXCEPT ![gen[p] + 1] = 0]]
        BY <1>3, <3>2 DEF ColdPath, GetOrInsert
      <4> QED BY <2>1, <4>1, <4>2, <4>3 DEF IndInv, TypeOK
    <3> QED BY <3>1, <3>2
  <2>4. ent' \in [Writers -> 0 .. MaxGen]
    BY <1>3, <2>1, <2>2 DEF IndInv, TypeOK, ColdPath
  <2> QED BY <1>3, <2>2, <2>4 DEF IndInv, TypeOK, ColdPath, auditorVars, reaperVars
<1>4. ASSUME NEW w \in Writers, Load(w) PROVE TypeOK'
  <2>1. value[job[w].pid][ent[w]] \in U64
    BY <1>4, WriterCell DEF Load
  <2> QED BY <1>4, <2>1 DEF IndInv, TypeOK, Load, tableVars, auditorVars, reaperVars
<1>5. ASSUME NEW w \in Writers, CasOk(w) PROVE TypeOK'
  <2>1. job[w].pid \in Pids /\ job[w].uj \in U64 /\ cur[w] \in U64
    BY DEF IndInv, TypeOK, Jobs
  <2>2. next_total(w) \in U64
    BY <2>1, SaturatingAddGrows DEF next_total
  <2>3. value' \in [Pids -> [Gens -> U64]]
    BY <1>5, <2>1, <2>2 DEF IndInv, TypeOK, CasOk
  <2> QED BY <1>5, <2>2, <2>3 DEF IndInv, TypeOK, CasOk, auditorVars, reaperVars
<1>6. ASSUME NEW w \in Writers, CasFail(w) PROVE TypeOK'
  <2>1. value[job[w].pid][ent[w]] \in U64
    BY <1>6, WriterCell DEF CasFail
  <2> QED BY <1>6, <2>1 DEF IndInv, TypeOK, CasFail, tableVars, auditorVars, reaperVars
<1>7. ASSUME NEW a \in Auditors, StartWalk(a) PROVE TypeOK'
  <2> DEFINE none == [p \in Pids |-> NotSeen]
  <2>1. none \in [Pids -> U64 \cup {NotSeen}]
    OBVIOUS
  <2>2. seen' = [seen EXCEPT ![a] = none]
    BY <1>7 DEF StartWalk
  <2> HIDE DEF none
  <2>3. seen' \in [Auditors -> [Pids -> U64 \cup {NotSeen}]]
    BY <2>1, <2>2 DEF IndInv, TypeOK
  <2> QED
    BY <1>0, <1>7, <2>3 DEF IndInv, TypeOK, StartWalk, tableVars, writerVars, reaperVars
<1>8. ASSUME NEW a \in Auditors, NextEntry(a) PROVE TypeOK'
  BY <1>8 DEF IndInv, TypeOK, NextEntry, Ahead, tableVars, writerVars, reaperVars
<1>9. ASSUME NEW a \in Auditors, ReadEntry(a) PROVE TypeOK'
  <2>1. at[a] \in Pids /\ value[at[a]][aent[a]] \in U64
    BY <1>9, AuditorCell DEF ReadEntry
  <2>2. saturating_add(total[a], value[at[a]][aent[a]]) \in U64
    BY <2>1, SaturatingAddGrows DEF IndInv, TypeOK
  <2> QED BY <1>9, <2>1, <2>2 DEF IndInv, TypeOK, ReadEntry, tableVars, writerVars, reaperVars
<1>10. ASSUME NEW a \in Auditors, EndWalk(a) PROVE TypeOK'
  BY <1>10 DEF IndInv, TypeOK, EndWalk, tableVars, writerVars, reaperVars
<1>11. ASSUME NEW r \in Reapers, NEW p \in Pids, Unlink(r, p) PROVE TypeOK'
  <2>1. CASE p \in table
    <3>1. gen[p] \in 0 .. MaxGen /\ table \ {p} \subseteq Pids
      BY DEF IndInv, TypeOK
    <3> QED BY <1>11, <2>1, <3>1 DEF IndInv, TypeOK, Unlink, writerVars, auditorVars
  <2>2. CASE p \notin table
    BY <1>11, <2>2 DEF IndInv, TypeOK, Unlink, writerVars, auditorVars
  <2> QED BY <2>1, <2>2
<1>12. ASSUME NEW r \in Reapers, FinalLoad(r) PROVE TypeOK'
  <2>1. value[rpid[r]][rent[r]] \in U64
    BY <1>12, ReaperCell DEF FinalLoad
  <2> QED BY <1>12, <2>1 DEF IndInv, TypeOK, FinalLoad, tableVars, writerVars, auditorVars
<1>13. CASE UNCHANGED vars
  BY <1>13 DEF IndInv, TypeOK, vars
<1> QED
  BY <1>1, <1>2, <1>3, <1>4, <1>5, <1>6, <1>7, <1>8, <1>9, <1>10, <1>11, <1>12, <1>13
     DEF Next, WriterStep, WalkStep

(***************************************************************************)
(* No step leaves anybody with an Entry of a cell that does not exist: the *)
(* newest generation of a PID only grows, and only get_or_insert moves it. *)
(***************************************************************************)
LEMMA EntriesStep == IndInv /\ TypeOK' /\ [Next]_vars => EntriesExist'
<1> SUFFICES ASSUME IndInv, TypeOK', [Next]_vars PROVE EntriesExist'
    OBVIOUS
<1> USE RegistryAssumption
<1>0. /\ gen \in [Pids -> 0 .. MaxGen] /\ table \subseteq Pids
      /\ \A w \in Writers : job[w].pid \in Pids
      /\ \A r \in Reapers : rpid[r] \in Pids
  BY DEF IndInv, TypeOK, Jobs
<1>1. ASSUME NEW w \in Writers, NEW j \in Jobs, Call(w, j) PROVE EntriesExist'
  BY <1>1 DEF IndInv, TypeOK, EntriesExist, Call, tableVars, auditorVars, reaperVars
<1>2. ASSUME NEW w \in Writers, TableGet(w) PROVE EntriesExist'
  <2>1. CASE job[w].pid \in table
    <3>1. gen[job[w].pid] \in 0 .. MaxGen /\ gen[job[w].pid] > 0
      BY <1>0, <2>1 DEF IndInv, EntriesExist
    <3>2. gen[job[w].pid] \in 1 .. gen[job[w].pid]
      BY <3>1
    <3>3. /\ pc' = [pc EXCEPT ![w] = "load"]
          /\ ent' = [ent EXCEPT ![w] = gen[job[w].pid]]
          /\ UNCHANGED <<gen, table, job, apc, at, aent, rpc, rpid, rent>>
      BY <1>2, <2>1 DEF TableGet, tableVars, auditorVars, reaperVars
    <3>4. \A v \in Writers : pc'[v] \in {"load", "cas"} => ent'[v] \in 1 .. gen'[job'[v].pid]
      BY <3>2, <3>3 DEF IndInv, TypeOK, EntriesExist
    <3> QED BY <3>3, <3>4 DEF IndInv, EntriesExist
  <2>2. CASE job[w].pid \notin table
    BY <1>2, <2>2
       DEF IndInv, TypeOK, EntriesExist, TableGet, tableVars, auditorVars, reaperVars
  <2> QED BY <2>1, <2>2
<1>3. ASSUME NEW w \in Writers, ColdPath(w) PROVE EntriesExist'
  <2> DEFINE p == job[w].pid
  <2>1. p \in Pids /\ gen[p] \in 0 .. MaxGen
    BY <1>0
  <2>2. CASE p \in table
    <3>1. gen[p] > 0
      BY <2>2 DEF IndInv, EntriesExist
    <3> QED BY <1>3, <2>1, <2>2, <3>1
            DEF IndInv, TypeOK, EntriesExist, ColdPath, GetOrInsert, tableVars, auditorVars,
                reaperVars
  <2>3. CASE p \notin table
    <3>1. gen' = [gen EXCEPT ![p] = gen[p] + 1] /\ table' = table \cup {p}
      BY <1>3, <2>3 DEF ColdPath, GetOrInsert
    <3>2. /\ gen'[p] = gen[p] + 1
          /\ \A q \in Pids : gen[q] \in Nat /\ gen'[q] \in Nat /\ gen'[q] >= gen[q]
      <4>1. gen \in [Pids -> 0 .. MaxGen]
        BY DEF IndInv, TypeOK
      <4>2. gen'[p] = gen[p] + 1
        BY <2>1, <3>1, <4>1
      <4>3. ASSUME NEW q \in Pids PROVE gen[q] \in Nat /\ gen'[q] \in Nat /\ gen'[q] >= gen[q]
        <5>1. gen[q] \in Nat
          BY <4>1, RegistryAssumption DEF RegistryAssumption
        <5>2. gen'[q] = gen[q] \/ gen'[q] = gen[q] + 1
          BY <3>1, <4>1
        <5> QED BY <5>1, <5>2
      <4> QED BY <4>2, <4>3
    <3>2a. ASSUME NEW q \in Pids, NEW g, g \in 1 .. gen[q] PROVE g \in 1 .. gen'[q]
      <4>1. gen[q] \in Nat /\ gen'[q] \in Nat /\ gen'[q] >= gen[q]
        BY <3>2
      <4> QED BY <3>2a, <4>1
    <3>3. \A q \in table' : gen'[q] > 0
      BY <1>0, <2>1, <3>1, <3>2 DEF IndInv, EntriesExist
    <3>4. \A v \in Writers : pc'[v] \in {"load", "cas"} => ent'[v] \in 1 .. gen'[job'[v].pid]
      <4>1. SUFFICES ASSUME NEW v \in Writers, pc'[v] \in {"load", "cas"}
                     PROVE  ent'[v] \in 1 .. gen'[job[v].pid]
        BY <1>3 DEF ColdPath
      <4>2. CASE v = w
        <5>1. ent'[w] = gen'[p]
          BY <1>3 DEF IndInv, TypeOK, ColdPath
        <5> QED BY <2>1, <3>2, <4>2, <5>1
      <4>3. CASE v # w
        <5>1. ent'[v] = ent[v] /\ ent[v] \in 1 .. gen[job[v].pid]
          BY <1>3, <4>1, <4>3 DEF IndInv, TypeOK, EntriesExist, ColdPath
        <5> QED BY <1>0, <3>2a, <5>1
      <4> QED BY <4>2, <4>3
    <3>5. \A a \in Auditors : apc'[a] = "load" => /\ at'[a] \in Pids
                                                 /\ aent'[a] \in 1 .. gen'[at'[a]]
      <4>1. UNCHANGED <<apc, at, aent>>
        BY <1>3 DEF ColdPath, auditorVars
      <4>2. SUFFICES ASSUME NEW a \in Auditors, apc[a] = "load"
                     PROVE  at[a] \in Pids /\ aent[a] \in 1 .. gen'[at[a]]
        BY <4>1
      <4>3. at[a] \in Pids /\ aent[a] \in 1 .. gen[at[a]]
        BY <4>2 DEF IndInv, EntriesExist
      <4> QED BY <3>2a, <4>3
    <3>6. \A r \in Reapers : rpc'[r] = "load" => rent'[r] \in 1 .. gen'[rpid'[r]]
      <4>1. UNCHANGED <<rpc, rpid, rent>>
        BY <1>3 DEF ColdPath, reaperVars
      <4>2. SUFFICES ASSUME NEW r \in Reapers, rpc[r] = "load"
                     PROVE  rent[r] \in 1 .. gen'[rpid[r]]
        BY <4>1
      <4>3. rpid[r] \in Pids /\ rent[r] \in 1 .. gen[rpid[r]]
        BY <1>0, <4>2 DEF IndInv, EntriesExist
      <4> QED BY <3>2a, <4>3
    <3> QED BY <3>3, <3>4, <3>5, <3>6 DEF EntriesExist
  <2> QED BY <2>2, <2>3
<1>4. ASSUME NEW w \in Writers, Load(w) PROVE EntriesExist'
  BY <1>4 DEF IndInv, TypeOK, EntriesExist, Load, tableVars, auditorVars, reaperVars
<1>5. ASSUME NEW w \in Writers, CasOk(w) PROVE EntriesExist'
  BY <1>5 DEF IndInv, TypeOK, EntriesExist, CasOk, auditorVars, reaperVars
<1>6. ASSUME NEW w \in Writers, CasFail(w) PROVE EntriesExist'
  BY <1>6 DEF IndInv, TypeOK, EntriesExist, CasFail, tableVars, auditorVars, reaperVars
<1>7. ASSUME NEW a \in Auditors, StartWalk(a) PROVE EntriesExist'
  BY <1>7 DEF IndInv, TypeOK, EntriesExist, StartWalk, tableVars, writerVars, reaperVars
<1>8. ASSUME NEW a \in Auditors, NextEntry(a) PROVE EntriesExist'
  <2>1. PICK p \in Ahead(a) : /\ at' = [at EXCEPT ![a] = p]
                              /\ aent' = [aent EXCEPT ![a] = gen[p]]
    BY <1>8 DEF NextEntry
  <2>2. p \in Pids /\ gen[p] \in 1 .. gen[p]
    BY <1>0, <2>1 DEF IndInv, EntriesExist, Ahead
  <2> QED BY <1>8, <2>1, <2>2
          DEF IndInv, TypeOK, EntriesExist, NextEntry, tableVars, writerVars, reaperVars
<1>9. ASSUME NEW a \in Auditors, ReadEntry(a) PROVE EntriesExist'
  BY <1>9 DEF IndInv, TypeOK, EntriesExist, ReadEntry, tableVars, writerVars, reaperVars
<1>10. ASSUME NEW a \in Auditors, EndWalk(a) PROVE EntriesExist'
  BY <1>10 DEF IndInv, TypeOK, EntriesExist, EndWalk, tableVars, writerVars, reaperVars
<1>11. ASSUME NEW r \in Reapers, NEW p \in Pids, Unlink(r, p) PROVE EntriesExist'
  <2>1. CASE p \in table
    <3>1. gen[p] \in 1 .. gen[p]
      <4>1. gen[p] > 0 /\ gen[p] \in 0 .. MaxGen
        BY <1>0, <2>1 DEF IndInv, EntriesExist
      <4> QED BY <4>1
    <3> QED BY <1>11, <2>1, <3>1
            DEF IndInv, TypeOK, EntriesExist, Unlink, writerVars, auditorVars
  <2>2. CASE p \notin table
    BY <1>11, <2>2 DEF IndInv, TypeOK, EntriesExist, Unlink, writerVars, auditorVars
  <2> QED BY <2>1, <2>2
<1>12. ASSUME NEW r \in Reapers, FinalLoad(r) PROVE EntriesExist'
  BY <1>12 DEF IndInv, TypeOK, EntriesExist, FinalLoad, tableVars, writerVars, auditorVars
<1>13. CASE UNCHANGED vars
  BY <1>13 DEF IndInv, EntriesExist, vars
<1> QED
  BY <1>1, <1>2, <1>3, <1>4, <1>5, <1>6, <1>7, <1>8, <1>9, <1>10, <1>11, <1>12, <1>13
     DEF Next, WriterStep, WalkStep

(***************************************************************************)
(* A cell is 0 until get_or_insert creates it, and creating it changes no  *)
(* other cell: only a compare-and-swap does, on a cell that exists.        *)
(***************************************************************************)
LEMMA FreshStep == IndInv /\ [Next]_vars => FreshCellsAreZero'
<1> SUFFICES ASSUME IndInv, [Next]_vars PROVE FreshCellsAreZero'
    OBVIOUS
<1> USE RegistryAssumption
<1>1. ASSUME NEW w \in Writers, ColdPath(w) PROVE FreshCellsAreZero'
  <2> DEFINE p == job[w].pid
  <2>1. p \in Pids /\ gen[p] \in 0 .. MaxGen
    BY DEF IndInv, TypeOK, Jobs
  <2>2. CASE p \in table
    BY <1>1, <2>2 DEF IndInv, FreshCellsAreZero, ColdPath, GetOrInsert, tableVars
  <2>3. CASE p \notin table
    <3>1. /\ gen' = [gen EXCEPT ![p] = gen[p] + 1]
          /\ value' = [value EXCEPT ![p] = [value[p] EXCEPT ![gen[p] + 1] = 0]]
      BY <1>1, <2>3 DEF ColdPath, GetOrInsert
    <3>2. SUFFICES ASSUME NEW q \in Pids, NEW g \in Gens, g > gen'[q] PROVE value'[q][g] = 0
      BY DEF FreshCellsAreZero
    <3>3. CASE q = p
      BY <2>1, <3>1, <3>2, <3>3 DEF IndInv, TypeOK, FreshCellsAreZero
    <3>4. CASE q # p
      BY <2>1, <3>1, <3>2, <3>4 DEF IndInv, TypeOK, FreshCellsAreZero
    <3> QED BY <3>3, <3>4
  <2> QED BY <2>2, <2>3
<1>2. ASSUME NEW w \in Writers, CasOk(w) PROVE FreshCellsAreZero'
  <2>1. job[w].pid \in Pids /\ ent[w] \in Gens /\ ~(ent[w] > gen[job[w].pid])
    <3>1. job[w].pid \in Pids /\ gen[job[w].pid] \in 0 .. MaxGen
      BY DEF IndInv, TypeOK, Jobs
    <3>2. ent[w] \in 1 .. gen[job[w].pid]
      BY <1>2 DEF IndInv, EntriesExist, CasOk
    <3> QED BY <3>1, <3>2
  <2>2. gen' = gen /\ value' = [value EXCEPT ![job[w].pid] =
                                  [value[job[w].pid] EXCEPT ![ent[w]] = next_total(w)]]
    BY <1>2 DEF CasOk
  <2> HIDE DEF next_total
  <2>3. SUFFICES ASSUME NEW q \in Pids, NEW g \in Gens, g > gen[q] PROVE value'[q][g] = 0
    BY <2>2 DEF FreshCellsAreZero
  <2> QED BY <2>1, <2>2, <2>3 DEF IndInv, TypeOK, FreshCellsAreZero
<1>3. ASSUME UNCHANGED <<gen, value>> PROVE FreshCellsAreZero'
  BY <1>3 DEF IndInv, FreshCellsAreZero
<1>4. ASSUME NEW w \in Writers, (\E j \in Jobs : Call(w, j)) \/ TableGet(w) \/ Load(w) \/ CasFail(w)
      PROVE  UNCHANGED <<gen, value>>
  BY <1>4 DEF Call, TableGet, Load, CasFail, tableVars
<1>5. ASSUME NEW a \in Auditors, StartWalk(a) \/ WalkStep(a) PROVE UNCHANGED <<gen, value>>
  BY <1>5 DEF StartWalk, WalkStep, NextEntry, ReadEntry, EndWalk, tableVars
<1>6. ASSUME NEW r \in Reapers, FinalLoad(r) \/ \E p \in Pids : Unlink(r, p)
      PROVE  UNCHANGED <<gen, value>>
  BY <1>6 DEF FinalLoad, Unlink, tableVars
<1>7. CASE UNCHANGED vars
  BY <1>3, <1>7 DEF vars
<1> QED BY <1>1, <1>2, <1>3, <1>4, <1>5, <1>6, <1>7 DEF Next, WriterStep

(***************************************************************************)
(* The empty registry of AmalgafyRegistry::new satisfies the invariant.    *)
(***************************************************************************)
LEMMA InitIndInv == Init => IndInv
<1> SUFFICES ASSUME Init PROVE IndInv
    OBVIOUS
<1> USE RegistryAssumption, MaxUAssumption
<1>1. 0 \in U64 /\ (CHOOSE p \in Pids : TRUE) \in Pids
  BY DEF U64
<1>2. (CHOOSE j \in Jobs : TRUE) \in Jobs
  <2>1. PICK p \in Pids, d \in Deltas : TRUE
    OBVIOUS
  <2>2. [pid |-> p, uj |-> d] \in Jobs
    BY DEF Jobs
  <2> QED BY <2>2
<1>3. TypeOK
  BY <1>1, <1>2 DEF Init, TypeOK
<1>4. EntriesExist /\ FreshCellsAreZero
  BY DEF Init, EntriesExist, FreshCellsAreZero
<1> QED BY <1>3, <1>4 DEF IndInv

(***************************************************************************)
(* The inductive invariant holds throughout, for every mix of threads that *)
(* add, walk and remove.                                                   *)
(***************************************************************************)
THEOREM RegistryInvariant == Spec => []IndInv
<1>1. IndInv /\ [Next]_vars => IndInv'
  BY TypeStep, EntriesStep, FreshStep DEF IndInv
<1> QED BY InitIndInv, <1>1, PTL DEF Spec

(***************************************************************************)
(* Type correctness: no cell, no returned total and no walk's sum ever     *)
(* leaves the range of a u64.                                              *)
(***************************************************************************)
THEOREM TypeCorrect == Spec => []TypeOK
<1>1. IndInv => TypeOK
  BY DEF IndInv
<1> QED BY RegistryInvariant, <1>1, PTL

(***************************************************************************)
(* A cell never decreases: not by a compare-and-swap that saturates, not   *)
(* by one whose `current` is stale, not by get_or_insert storing the zero  *)
(* of a new cell.                                                          *)
(***************************************************************************)
THEOREM CellsOnlyGrow == Spec => CellsNeverDecrease
<1> DEFINE Grow == \A p \in Pids, g \in Gens : value'[p][g] >= value[p][g]
<1>1. ASSUME IndInv, [Next]_vars PROVE Grow
  <2>0. \A p \in Pids, g \in Gens : value[p][g] \in U64
    BY <1>1 DEF IndInv, TypeOK
  <2>1. ASSUME UNCHANGED value PROVE Grow
    BY <2>0, <2>1 DEF U64
  <2>2. ASSUME NEW w \in Writers, ColdPath(w) PROVE Grow
    <3> DEFINE p == job[w].pid
    <3>1. p \in Pids /\ gen[p] \in 0 .. MaxGen
      BY <1>1 DEF IndInv, TypeOK, Jobs
    <3>2. CASE p \in table
      BY <2>1, <2>2, <3>2 DEF ColdPath, GetOrInsert, tableVars
    <3>3. CASE p \notin table
      <4>1. value' = [value EXCEPT ![p] = [value[p] EXCEPT ![gen[p] + 1] = 0]]
        BY <2>2, <3>3 DEF ColdPath, GetOrInsert
      <4>2. SUFFICES ASSUME NEW q \in Pids, NEW g \in Gens PROVE value'[q][g] >= value[q][g]
        OBVIOUS
      <4>3. CASE q = p /\ g = gen[p] + 1
        <5>1. value[q][g] = 0
          BY <1>1, <3>1, <4>3 DEF IndInv, FreshCellsAreZero
        <5>2. value'[q][g] = 0
          BY <1>1, <3>1, <4>1, <4>3 DEF IndInv, TypeOK
        <5> QED BY <5>1, <5>2
      <4>4. CASE ~(q = p /\ g = gen[p] + 1)
        <5>1. value'[q][g] = value[q][g]
          BY <1>1, <3>1, <4>1, <4>4 DEF IndInv, TypeOK
        <5> QED BY <2>0, <5>1 DEF U64
      <4> QED BY <4>3, <4>4
    <3> QED BY <3>2, <3>3
  <2>3. ASSUME NEW w \in Writers, CasOk(w) PROVE Grow
    <3>1. /\ job[w].pid \in Pids /\ ent[w] \in Gens
          /\ cur[w] \in U64 /\ job[w].uj \in U64
      BY <1>1, <2>3, WriterCell, RegistryAssumption DEF IndInv, TypeOK, CasOk, Jobs
    <3>2. next_total(w) \in U64 /\ next_total(w) >= cur[w]
      BY <3>1, SaturatingAddGrows DEF next_total
    <3>3. /\ value[job[w].pid][ent[w]] = cur[w]
          /\ value' = [value EXCEPT ![job[w].pid] =
                         [value[job[w].pid] EXCEPT ![ent[w]] = next_total(w)]]
      BY <2>3 DEF CasOk
    <3>4. SUFFICES ASSUME NEW q \in Pids, NEW g \in Gens PROVE value'[q][g] >= value[q][g]
      OBVIOUS
    <3>5. CASE q = job[w].pid /\ g = ent[w]
      <4>1. value'[q][g] = next_total(w)
        BY <1>1, <3>1, <3>3, <3>5 DEF IndInv, TypeOK
      <4> QED BY <3>2, <3>3, <3>5, <4>1
    <3>6. CASE ~(q = job[w].pid /\ g = ent[w])
      <4>1. value'[q][g] = value[q][g]
        BY <1>1, <3>1, <3>3, <3>6 DEF IndInv, TypeOK
      <4> QED BY <2>0, <4>1 DEF U64
    <3> QED BY <3>5, <3>6
  <2>4. CASE UNCHANGED vars
    BY <2>1, <2>4 DEF vars
  <2> HIDE DEF Grow
  <2> QED
    BY <1>1, <2>1, <2>2, <2>3, <2>4
       DEF Next, WriterStep, WalkStep, Call, TableGet, Load, CasFail, StartWalk, NextEntry,
           ReadEntry, EndWalk, FinalLoad, Unlink, tableVars
<1>2. IndInv /\ [Next]_vars => [Grow]_vars
  BY <1>1
<1> QED BY RegistryInvariant, <1>2, PTL DEF Spec, CellsNeverDecrease

-------------------------------------------------------------------------------
(* Registries nobody removes from *)

(***************************************************************************)
(* Without remove, get_or_insert keeps a PID on one canonical cell.        *)
(***************************************************************************)
LEMMA CanonicalStep ==
  ASSUME Reapers = {}, IndInv, OneCanonicalCell, [Next]_vars
  PROVE  OneCanonicalCell'
<1>0. /\ gen \in [Pids -> 0 .. MaxGen] /\ table \subseteq Pids
      /\ \A w \in Writers : job[w].pid \in Pids
  BY DEF IndInv, TypeOK, Jobs
<1>1. ASSUME NEW w \in Writers, NEW j \in Jobs, Call(w, j) PROVE OneCanonicalCell'
  BY <1>1 DEF IndInv, TypeOK, OneCanonicalCell, Call, tableVars
<1>2. ASSUME NEW w \in Writers, TableGet(w) PROVE OneCanonicalCell'
  BY <1>2 DEF IndInv, TypeOK, OneCanonicalCell, TableGet, tableVars
<1>3. ASSUME NEW w \in Writers, ColdPath(w) PROVE OneCanonicalCell'
  <2> DEFINE p == job[w].pid
  <2>1. CASE p \in table
    BY <1>3, <2>1 DEF IndInv, TypeOK, OneCanonicalCell, ColdPath, GetOrInsert, tableVars
  <2>2. CASE p \notin table
    <3>1. gen' = [gen EXCEPT ![p] = gen[p] + 1] /\ table' = table \cup {p}
      BY <1>3, <2>2 DEF ColdPath, GetOrInsert
    <3>2. \A q \in Pids \ table' : gen'[q] = 0
      BY <1>0, <3>1 DEF OneCanonicalCell
    <3>3. ASSUME NEW v \in Writers, pc'[v] \in {"load", "cas"}
          PROVE  job[v].pid \in table' /\ ent'[v] = gen'[job[v].pid]
      <4>1. CASE v = w
        BY <1>3, <3>1, <4>1 DEF IndInv, TypeOK, ColdPath
      <4>2. CASE v # w
        BY <1>0, <1>3, <2>2, <3>1, <3>3, <4>2 DEF IndInv, TypeOK, OneCanonicalCell, ColdPath
      <4> QED BY <4>1, <4>2
    <3>4. job' = job
      BY <1>3 DEF ColdPath
    <3> QED BY <3>2, <3>3, <3>4 DEF OneCanonicalCell
  <2> QED BY <2>1, <2>2
<1>4. ASSUME NEW w \in Writers, Load(w) PROVE OneCanonicalCell'
  BY <1>4 DEF IndInv, TypeOK, OneCanonicalCell, Load, tableVars
<1>5. ASSUME NEW w \in Writers, CasOk(w) PROVE OneCanonicalCell'
  BY <1>5 DEF IndInv, TypeOK, OneCanonicalCell, CasOk
<1>6. ASSUME NEW w \in Writers, CasFail(w) PROVE OneCanonicalCell'
  BY <1>6 DEF OneCanonicalCell, CasFail, tableVars
<1>7. ASSUME NEW a \in Auditors, StartWalk(a) \/ WalkStep(a) PROVE OneCanonicalCell'
  BY <1>7 DEF OneCanonicalCell, StartWalk, WalkStep, NextEntry, ReadEntry, EndWalk, tableVars,
              writerVars
<1>8. CASE UNCHANGED vars
  BY <1>8 DEF OneCanonicalCell, vars
<1> QED
  BY <1>1, <1>2, <1>3, <1>4, <1>5, <1>6, <1>7, <1>8 DEF Next, WriterStep

(***************************************************************************)
(* Without remove, every caller of add_micro_joules swaps on the same      *)
(* canonical slot of its PID, for any number of racing writers.            *)
(***************************************************************************)
THEOREM CanonicalSlot == ASSUME Reapers = {} PROVE Spec => []OneCanonicalCell
<1>1. Init => OneCanonicalCell
  BY DEF Init, OneCanonicalCell
<1>2. IndInv /\ OneCanonicalCell /\ [Next]_vars => OneCanonicalCell'
  BY CanonicalStep
<1> QED BY RegistryInvariant, <1>1, <1>2, PTL DEF Spec

(***************************************************************************)
(* What a step does to what get returns: a successful compare-and-swap     *)
(* adds its delta to its PID and leaves the others alone.                  *)
(***************************************************************************)
LEMMA LiveCasOk ==
  ASSUME IndInv, OneCanonicalCell, NEW w \in Writers, CasOk(w)
  PROVE  /\ job[w].pid \in Pids /\ Live(job[w].pid) = cur[w]
         /\ \A p \in Pids :
              Live(p)' = IF p = job[w].pid THEN saturating_add(Live(p), job[w].uj) ELSE Live(p)
<1> DEFINE p == job[w].pid
<1>1. p \in Pids /\ ent[w] \in Gens /\ p \in table /\ ent[w] = gen[p]
  BY WriterCell DEF OneCanonicalCell, CasOk
<1>2. /\ UNCHANGED <<gen, table>>
      /\ value[p][ent[w]] = cur[w]
      /\ value' = [value EXCEPT ![p] = [value[p] EXCEPT ![ent[w]] = next_total(w)]]
  BY DEF CasOk
<1>3. value \in [Pids -> [Gens -> U64]]
  BY DEF IndInv, TypeOK
<1>4. Live(p) = cur[w]
  BY <1>1, <1>2 DEF Live
<1>5. ASSUME NEW q \in Pids
      PROVE  Live(q)' = IF q = p THEN saturating_add(Live(q), job[w].uj) ELSE Live(q)
  <2>1. CASE q = p
    <3>1. value'[q][gen[q]] = next_total(w)
      BY <1>1, <1>2, <1>3, <2>1
    <3> QED BY <1>1, <1>2, <1>4, <2>1, <3>1 DEF Live, next_total
  <2>2. CASE q # p
    <3>1. value'[q] = value[q]
      BY <1>1, <1>2, <1>3, <2>2
    <3> QED BY <1>2, <2>2, <3>1 DEF Live
  <2> QED BY <2>1, <2>2
<1> QED BY <1>1, <1>4, <1>5

(***************************************************************************)
(* get_or_insert changes no total: the cell it creates holds 0, which is   *)
(* what a PID without a cell counts as.                                    *)
(***************************************************************************)
LEMMA LiveColdPath ==
  ASSUME IndInv, NEW w \in Writers, ColdPath(w), NEW p \in Pids
  PROVE  Live(p)' = Live(p)
<1> DEFINE q == job[w].pid
<1>1. q \in Pids /\ gen \in [Pids -> 0 .. MaxGen] /\ value \in [Pids -> [Gens -> U64]]
  BY DEF IndInv, TypeOK, Jobs
<1>2. CASE q \in table
  BY <1>2 DEF ColdPath, GetOrInsert, tableVars, Live
<1>3. CASE q \notin table
  <2>1. /\ gen' = [gen EXCEPT ![q] = gen[q] + 1] /\ table' = table \cup {q}
        /\ value' = [value EXCEPT ![q] = [value[q] EXCEPT ![gen[q] + 1] = 0]]
        /\ gen[q] < MaxGen
    BY <1>3 DEF ColdPath, GetOrInsert
  <2>2. CASE p = q
    <3>1. gen'[q] = gen[q] + 1 /\ gen[q] + 1 \in Gens
      BY <1>1, <2>1, RegistryAssumption
    <3>2. value'[q][gen[q] + 1] = 0
      BY <1>1, <2>1, <3>1
    <3> QED BY <1>3, <2>1, <2>2, <3>1, <3>2 DEF Live
  <2>3. CASE p # q
    <3>1. value'[p] = value[p] /\ gen'[p] = gen[p]
      BY <1>1, <2>1, <2>3
    <3> QED BY <2>1, <2>3, <3>1 DEF Live
  <2> QED BY <2>2, <2>3
<1> QED BY <1>2, <1>3

(***************************************************************************)
(* The ledger only watches: its steps are steps of the registry.           *)
(***************************************************************************)
LEMMA LedgerWatches == LSpec => Spec
<1>1. LInit => Init
  BY DEF LInit
<1>2. [LNext]_lvars => [Next]_vars
  BY DEF LNext, LWriterStep, LCasOk, LCall, LStartWalk, LWalkStep, LFinalLoad, LUnlink, Next,
         WriterStep, lvars
<1> QED BY <1>1, <1>2, PTL DEF LSpec, Spec

(***************************************************************************)
(* No delta is lost and none counted twice: without remove, whatever the   *)
(* interleaving of any number of writers, a PID's total is the saturated   *)
(* sum of the deltas of all the adds that have finished.                   *)
(***************************************************************************)
THEOREM NothingLost == ASSUME Reapers = {} PROVE LSpec => []NoDeltaLost
<1> DEFINE Sums == credited \in [Pids -> Nat] /\ NoDeltaLost
<1>1. LInit => Sums
  BY MaxUAssumption DEF LInit, Init, NoDeltaLost, Live, clamp
<1>2. ASSUME IndInv, OneCanonicalCell, Sums, [LNext]_lvars PROVE Sums'
  <2>1. ASSUME NEW w \in Writers, LCasOk(w) PROVE Sums'
    <3>1. CasOk(w) /\ credited' = [credited EXCEPT ![job[w].pid] = credited[job[w].pid] + job[w].uj]
      BY <2>1 DEF LCasOk
    <3>2. job[w].pid \in Pids /\ job[w].uj \in Nat
      <4>1. job[w].pid \in Pids /\ job[w].uj \in Deltas
        BY <1>2 DEF IndInv, TypeOK, Jobs
      <4>2. job[w].uj \in U64
        BY <4>1, RegistryAssumption
      <4> QED BY <4>1, <4>2, MaxUAssumption DEF U64
    <3>3. credited' \in [Pids -> Nat]
      BY <1>2, <3>1, <3>2
    <3>4. ASSUME NEW p \in Pids PROVE Live(p)' = clamp(credited'[p])
      <4>1. Live(p) = clamp(credited[p]) /\ credited[p] \in Nat
        BY <1>2 DEF NoDeltaLost
      <4>2. CASE p = job[w].pid
        <5>1. Live(p)' = clamp(clamp(credited[p]) + job[w].uj)
          BY <1>2, <3>1, <4>1, <4>2, LiveCasOk DEF saturating_add
        <5>2. credited'[p] = credited[p] + job[w].uj
          BY <1>2, <3>1, <3>2, <4>2
        <5> QED BY <3>2, <4>1, <5>1, <5>2, ClampAdd
      <4>3. CASE p # job[w].pid
        <5>1. Live(p)' = Live(p)
          BY <1>2, <3>1, <4>3, LiveCasOk
        <5>2. credited'[p] = credited[p]
          BY <1>2, <3>1, <3>2, <4>3
        <5> QED BY <4>1, <5>1, <5>2
      <4> QED BY <4>2, <4>3
    <3> QED BY <3>3, <3>4 DEF NoDeltaLost
  <2>2. ASSUME NEW w \in Writers, ColdPath(w), UNCHANGED ledger PROVE Sums'
    <3>1. \A p \in Pids : Live(p)' = Live(p)
      BY <1>2, <2>2, LiveColdPath
    <3>2. credited' = credited
      BY <2>2 DEF ledger
    <3> QED BY <1>2, <3>1, <3>2 DEF NoDeltaLost
  <2>3. ASSUME UNCHANGED <<gen, table, value, credited>> PROVE Sums'
    BY <1>2, <2>3 DEF NoDeltaLost, Live
  <2>4. ASSUME NEW w \in Writers, NEW j \in Jobs, LCall(w, j)
        PROVE  UNCHANGED <<gen, table, value, credited>>
    BY <2>4 DEF LCall, Call, tableVars
  <2>5. ASSUME NEW w \in Writers, TableGet(w) \/ Load(w) \/ CasFail(w), UNCHANGED ledger
        PROVE  UNCHANGED <<gen, table, value, credited>>
    BY <2>5 DEF TableGet, Load, CasFail, tableVars, ledger
  <2>6. ASSUME NEW a \in Auditors, LStartWalk(a) \/ LWalkStep(a)
        PROVE  UNCHANGED <<gen, table, value, credited>>
    BY <2>6 DEF LStartWalk, LWalkStep, StartWalk, WalkStep, NextEntry, ReadEntry, EndWalk,
                tableVars, ledger
  <2>7. CASE UNCHANGED lvars
    BY <2>3, <2>7 DEF lvars, vars, ledger
  <2> HIDE DEF Sums
  <2> QED
    BY <1>2, <2>1, <2>2, <2>3, <2>4, <2>5, <2>6, <2>7 DEF LNext, LWriterStep
<1>3. IndInv /\ OneCanonicalCell /\ Sums /\ [LNext]_lvars => Sums'
  BY <1>2
<1>4. Sums => NoDeltaLost
  OBVIOUS
<1> HIDE DEF Sums
<1> QED BY LedgerWatches, RegistryInvariant, CanonicalSlot, <1>1, <1>3, <1>4, PTL DEF LSpec

(***************************************************************************)
(* The lock-free registry implements the atomic one: for any number of     *)
(* writers, the get, get_or_insert and compare-and-swap steps of an add    *)
(* amount to one atomic addition, at the successful compare-and-swap.      *)
(***************************************************************************)
THEOREM Refinement == ASSUME Reapers = {} PROVE Spec => ImplementsAtomic
<1> DEFINE absEnergy == [p \in Pids |-> Live(p)]
           absBusy == [w \in Writers |-> pc[w] # "idle"]
<1>1. Init => Atomic!Init
  <2> SUFFICES ASSUME Init PROVE Atomic!Init
    OBVIOUS
  <2>1. job \in [Writers -> Jobs]
    BY InitIndInv DEF IndInv, TypeOK
  <2> QED BY <2>1 DEF Init, Atomic!Init, Live, Jobs, Atomic!Jobs
<1>2. ASSUME IndInv, OneCanonicalCell, [Next]_vars
      PROVE  [Atomic!Next]_(Atomic!absVars)
  <2>0. pc \in [Writers -> {"idle", "get", "insert", "load", "cas"}]
    BY <1>2 DEF IndInv, TypeOK
  <2>1. ASSUME NEW w \in Writers, NEW j \in Jobs, Call(w, j) PROVE Atomic!Invoke(w, j)
    <3>1. absBusy' = [absBusy EXCEPT ![w] = TRUE]
      BY <2>0, <2>1 DEF Call
    <3>2. absEnergy' = absEnergy
      BY <2>1 DEF Call, tableVars, Live
    <3> QED BY <2>1, <3>1, <3>2 DEF Call, Atomic!Invoke
  <2>2. ASSUME NEW w \in Writers, CasOk(w) PROVE Atomic!Apply(w)
    <3>1. absBusy' = [absBusy EXCEPT ![w] = FALSE]
      BY <2>0, <2>2 DEF CasOk
    <3>2. /\ job[w].pid \in Pids
          /\ next_total(w) = saturating_add(absEnergy[job[w].pid], job[w].uj)
      BY <1>2, <2>2, LiveCasOk DEF next_total
    <3>3. absEnergy' = [absEnergy EXCEPT ![job[w].pid] = next_total(w)]
      BY <1>2, <2>2, <3>2, LiveCasOk
    <3> QED
      BY <2>2, <3>1, <3>2, <3>3
         DEF CasOk, Atomic!Apply, Atomic!saturating_add, Atomic!clamp, saturating_add, clamp
  <2>3. ASSUME absEnergy' = absEnergy, absBusy' = absBusy, UNCHANGED <<job, ret>>
        PROVE  UNCHANGED Atomic!absVars
    BY <2>3 DEF Atomic!absVars
  <2>4. ASSUME NEW w \in Writers, ColdPath(w)
        PROVE  absEnergy' = absEnergy /\ absBusy' = absBusy /\ UNCHANGED <<job, ret>>
    <3>1. absBusy' = absBusy
      BY <2>0, <2>4 DEF ColdPath
    <3>2. absEnergy' = absEnergy
      BY <1>2, <2>4, LiveColdPath
    <3> QED BY <2>4, <3>1, <3>2 DEF ColdPath
  <2>5. ASSUME NEW w \in Writers, TableGet(w) \/ Load(w) \/ CasFail(w)
        PROVE  absEnergy' = absEnergy /\ absBusy' = absBusy /\ UNCHANGED <<job, ret>>
    <3>1. absBusy' = absBusy
      BY <2>0, <2>5 DEF TableGet, Load, CasFail
    <3>2. absEnergy' = absEnergy
      BY <2>5 DEF TableGet, Load, CasFail, tableVars, Live
    <3> QED BY <2>5, <3>1, <3>2 DEF TableGet, Load, CasFail
  <2>6. ASSUME NEW a \in Auditors, StartWalk(a) \/ WalkStep(a)
        PROVE  absEnergy' = absEnergy /\ absBusy' = absBusy /\ UNCHANGED <<job, ret>>
    BY <2>6 DEF StartWalk, WalkStep, NextEntry, ReadEntry, EndWalk, tableVars, writerVars, Live
  <2>7. CASE UNCHANGED vars
    <3>1. absEnergy' = absEnergy /\ absBusy' = absBusy /\ UNCHANGED <<job, ret>>
      BY <2>7 DEF vars, Live
    <3> QED BY <2>3, <3>1
  <2>8. \A w \in Writers : (Atomic!Apply(w) \/ \E j \in Jobs : Atomic!Invoke(w, j)) => Atomic!Next
    BY DEF Atomic!Next, Atomic!Jobs, Jobs
  <2> HIDE DEF absEnergy, absBusy
  <2> QED
    BY <1>2, <2>1, <2>2, <2>3, <2>4, <2>5, <2>6, <2>7, <2>8 DEF Next, WriterStep
<1>3. IndInv /\ OneCanonicalCell /\ [Next]_vars => [Atomic!Next]_(Atomic!absVars)
  BY <1>2
<1> QED
  BY RegistryInvariant, CanonicalSlot, <1>1, <1>3, PTL DEF Spec, ImplementsAtomic, Atomic!Spec

-------------------------------------------------------------------------------
(* What the ledger records *)

(***************************************************************************)
(* A step of the ledger is a step of the registry.                         *)
(***************************************************************************)
LEMMA LedgerStep == [LNext]_lvars => [Next]_vars
  BY DEF LNext, LWriterStep, LCasOk, LCall, LStartWalk, LWalkStep, LFinalLoad, LUnlink, Next,
         WriterStep, lvars

\* the history variables have the types they are used with
LedgerOK ==
  /\ calls \in Nat
  /\ credited \in [Pids -> Nat]
  /\ returned \in [Pids -> Nat]
  /\ raced \in [Pids -> BOOLEAN]
  /\ base \in [Auditors -> [Pids -> Nat]]

(***************************************************************************)
(* A writer's delta is a u64 and its PID is one of the PIDs.               *)
(***************************************************************************)
LEMMA WriterJob ==
  ASSUME IndInv, NEW w \in Writers
  PROVE  job[w].pid \in Pids /\ job[w].uj \in U64 /\ job[w].uj \in Nat
<1>1. job[w].pid \in Pids /\ job[w].uj \in Deltas
  BY DEF IndInv, TypeOK, Jobs
<1>2. job[w].uj \in U64
  BY <1>1, RegistryAssumption
<1> QED BY <1>1, <1>2, MaxUAssumption DEF U64

(***************************************************************************)
(* Every step keeps the ledger well typed.                                 *)
(***************************************************************************)
LEMMA LedgerTypeStep == IndInv /\ LedgerOK /\ [LNext]_lvars => LedgerOK'
<1> SUFFICES ASSUME IndInv, LedgerOK, [LNext]_lvars PROVE LedgerOK'
  OBVIOUS
<1>1. ASSUME NEW w \in Writers, LCasOk(w) PROVE LedgerOK'
  <2>1. job[w].pid \in Pids /\ job[w].uj \in Nat
    BY WriterJob
  <2> QED BY <1>1, <2>1 DEF LedgerOK, LCasOk
<1>2. ASSUME NEW w \in Writers, NEW j \in Jobs, LCall(w, j) PROVE LedgerOK'
  BY <1>2 DEF LedgerOK, LCall
<1>3. ASSUME NEW a \in Auditors, LStartWalk(a) PROVE LedgerOK'
  BY <1>3 DEF LedgerOK, LStartWalk
<1>4. ASSUME NEW r \in Reapers, LFinalLoad(r) PROVE LedgerOK'
  <2>1. /\ rpid[r] \in Pids /\ value[rpid[r]][rent[r]] \in U64
        /\ rret' = [rret EXCEPT ![r] = value[rpid[r]][rent[r]]]
    BY <1>4, ReaperCell DEF LFinalLoad, FinalLoad
  <2>2. rret'[r] \in Nat
    BY <2>1 DEF IndInv, TypeOK, U64
  <2> QED BY <1>4, <2>1, <2>2 DEF LedgerOK, LFinalLoad
<1>5. ASSUME NEW r \in Reapers, NEW p \in Pids, LUnlink(r, p) PROVE LedgerOK'
  <2>1. (raced[p] \/ (p \in table /\ Held(p))) \in BOOLEAN
    BY DEF LedgerOK
  <2> QED BY <1>5, <2>1 DEF LedgerOK, LUnlink
<1>6. CASE UNCHANGED ledger
  BY <1>6 DEF LedgerOK, ledger
<1> QED BY <1>1, <1>2, <1>3, <1>4, <1>5, <1>6 DEF LNext, LWriterStep, LWalkStep, lvars

(***************************************************************************)
(* The ledger always has its types.                                        *)
(***************************************************************************)
THEOREM LedgerTypes == LSpec => [](IndInv /\ LedgerOK)
<1>1. LInit => LedgerOK
  BY DEF LInit, LedgerOK
<1>2. Spec => []IndInv
  BY RegistryInvariant
<1> QED BY LedgerWatches, <1>1, <1>2, LedgerTypeStep, PTL DEF LSpec

(***************************************************************************)
(* The registry and its ledger keep the types of the checked invariant.    *)
(***************************************************************************)
THEOREM LedgerTypeCorrect == LSpec => []LTypeOK
<1>1. IndInv /\ LedgerOK => LTypeOK
  BY DEF IndInv, LedgerOK, LTypeOK
<1> QED BY LedgerTypes, <1>1, PTL

-------------------------------------------------------------------------------
(* What a step does to the cells *)

(***************************************************************************)
(* get_or_insert writes 0 to a cell that holds 0 already: to the cells it  *)
(* does nothing.                                                           *)
(***************************************************************************)
LEMMA ColdPathCells ==
  ASSUME IndInv, NEW w \in Writers, ColdPath(w)
  PROVE  value' = value
<1> DEFINE p == job[w].pid
<1>1. CASE p \in table
  BY <1>1 DEF ColdPath, GetOrInsert, tableVars
<1>2. CASE p \notin table
  <2>1. /\ gen[p] < MaxGen
        /\ value' = [value EXCEPT ![p] = [value[p] EXCEPT ![gen[p] + 1] = 0]]
    BY <1>2 DEF ColdPath, GetOrInsert
  <2>2. p \in Pids /\ gen[p] \in 0 .. MaxGen /\ value \in [Pids -> [Gens -> U64]]
    BY WriterJob DEF IndInv, TypeOK
  <2>3. gen[p] + 1 \in Gens /\ gen[p] + 1 > gen[p]
    BY <2>1, <2>2, RegistryAssumption
  <2>4. value[p][gen[p] + 1] = 0
    BY <2>2, <2>3 DEF IndInv, FreshCellsAreZero
  <2> HIDE DEF p
  <2>5. [value[p] EXCEPT ![gen[p] + 1] = 0] = value[p]
    BY <2>2, <2>3, <2>4
  <2> QED BY <2>1, <2>2, <2>5
<1> QED BY <1>1, <1>2

(***************************************************************************)
(* A successful compare-and-swap raises its own cell by its delta, or to   *)
(* u64::MAX, and credits the delta to its PID.                             *)
(***************************************************************************)
LEMMA CasOkCells ==
  ASSUME IndInv, LedgerOK, NEW w \in Writers, LCasOk(w)
  PROVE  /\ job[w].pid \in Pids /\ ent[w] \in Gens /\ job[w].uj \in Nat
         /\ value[job[w].pid][ent[w]] \in Nat
         /\ value'[job[w].pid][ent[w]] = clamp(value[job[w].pid][ent[w]] + job[w].uj)
         /\ \A q \in Pids, g \in Gens :
              ~(q = job[w].pid /\ g = ent[w]) => value'[q][g] = value[q][g]
         /\ credited'[job[w].pid] = credited[job[w].pid] + job[w].uj
         /\ \A q \in Pids : q # job[w].pid => credited'[q] = credited[q]
<1> DEFINE p == job[w].pid
           g == ent[w]
           next == next_total(w)
<1>1. /\ CasOk(w) /\ value[p][g] = cur[w]
      /\ value' = [value EXCEPT ![p] = [value[p] EXCEPT ![g] = next]]
      /\ credited' = [credited EXCEPT ![p] = credited[p] + job[w].uj]
  BY DEF LCasOk, CasOk
<1>2. p \in Pids /\ g \in Gens /\ job[w].uj \in Nat /\ value[p][g] \in U64
  BY <1>1, WriterCell, WriterJob DEF CasOk
<1>3. next = clamp(value[p][g] + job[w].uj)
  BY <1>1 DEF next_total, saturating_add
<1>4. value \in [Pids -> [Gens -> U64]] /\ credited \in [Pids -> Nat]
  BY DEF IndInv, TypeOK, LedgerOK
<1>5. value[p][g] \in Nat
  BY <1>2, MaxUAssumption DEF U64
<1> HIDE DEF p, g, next
<1>6. /\ value'[p][g] = next
      /\ \A q \in Pids, h \in Gens : ~(q = p /\ h = g) => value'[q][h] = value[q][h]
  BY <1>1, <1>2, <1>4
<1>7. credited'[p] = credited[p] + job[w].uj /\ \A q \in Pids : q # p => credited'[q] = credited[q]
  BY <1>1, <1>2, <1>4
<1> QED BY <1>2, <1>3, <1>5, <1>6, <1>7 DEF p, g

(***************************************************************************)
(* Nothing but a successful compare-and-swap changes a cell or credits a   *)
(* PID.                                                                    *)
(***************************************************************************)
LEMMA OnlyCasWrites ==
  ASSUME IndInv, [LNext]_lvars, ~ \E w \in Writers : LCasOk(w)
  PROVE  value' = value /\ credited' = credited
<1>1. ASSUME NEW w \in Writers, ColdPath(w), UNCHANGED ledger PROVE value' = value /\ credited' = credited
  BY <1>1, ColdPathCells DEF ledger
<1> QED
  BY <1>1 DEF LNext, LWriterStep, LCall, Call, TableGet, Load, CasFail, LStartWalk, StartWalk,
       LWalkStep, WalkStep, NextEntry, ReadEntry, EndWalk, LFinalLoad, FinalLoad, LUnlink, Unlink,
       tableVars, ledger, lvars, vars

(***************************************************************************)
(* Credits and cells only grow.                                            *)
(***************************************************************************)
LEMMA CreditsGrow ==
  ASSUME IndInv, LedgerOK, [LNext]_lvars, NEW p \in Pids
  PROVE  credited[p] \in Nat /\ credited'[p] \in Nat /\ credited[p] <= credited'[p]
<1>1. credited[p] \in Nat
  BY DEF LedgerOK
<1>2. ASSUME NEW w \in Writers, LCasOk(w) PROVE credited'[p] \in Nat /\ credited[p] <= credited'[p]
  <2>1. CASE p = job[w].pid
    BY <1>1, <1>2, <2>1, CasOkCells
  <2>2. CASE p # job[w].pid
    BY <1>1, <1>2, <2>2, CasOkCells
  <2> QED BY <2>1, <2>2
<1> QED BY <1>1, <1>2, OnlyCasWrites

-------------------------------------------------------------------------------
(* Walks *)

\* what the walk of a has collected, PID by PID
Collected(a) == [p \in Pids |-> Reported(a, p)]

\* no cell holds more than was credited to its PID
CellsAreCredited == \A p \in Pids, g \in Gens : value[p][g] <= credited[p]

\* an iterator that moves by ascending key has nothing ahead of it yet
NothingAhead(a) ==
  /\ \A p \in Pids : p > at[a] => seen[a][p] = NotSeen
  /\ apc[a] = "load" => seen[a][at[a]] = NotSeen

(***************************************************************************)
(* Why a walk reads each PID once, and what its running sum is: the keys   *)
(* ahead of the iterator have not been collected, and the total is the     *)
(* saturated sum of what has.                                              *)
(***************************************************************************)
WalkInv ==
  /\ CellsAreCredited
  /\ \A a \in Auditors :
       /\ \A p \in Pids : Reported(a, p) <= credited[p]
       /\ total[a] = clamp(SumOver(Collected(a)))
       /\ apc[a] # "idle" => NothingAhead(a)

(***************************************************************************)
(* What has been collected is a natural number per PID.                    *)
(***************************************************************************)
LEMMA CollectedType ==
  ASSUME IndInv, NEW a \in Auditors
  PROVE  Collected(a) \in [Pids -> Nat] /\ SumOver(Collected(a)) \in Nat
<1>1. ASSUME NEW p \in Pids PROVE Reported(a, p) \in Nat
  <2>1. seen[a][p] \in U64 \cup {NotSeen}
    BY DEF IndInv, TypeOK
  <2> QED BY <2>1, MaxUAssumption DEF Reported, U64
<1>2. Collected(a) \in [Pids -> Nat]
  BY <1>1 DEF Collected
<1>3. SumOf(Collected(a), Pids) \in Nat
  BY <1>2, SumType, FiniteAssumption
<1> QED BY <1>2, <1>3 DEF SumOver, SumOf

(***************************************************************************)
(* Reading an entry adds its energy to the sum once: the PID had not been  *)
(* collected.                                                              *)
(***************************************************************************)
LEMMA ReadEntryAdds ==
  ASSUME IndInv, WalkInv, NEW a \in Auditors, ReadEntry(a)
  PROVE  /\ at[a] \in Pids /\ value[at[a]][aent[a]] \in Nat
         /\ seen'[a][at[a]] = value[at[a]][aent[a]]
         /\ \A p \in Pids : p # at[a] => seen'[a][p] = seen[a][p]
         /\ total'[a] = clamp(SumOver(Collected(a)'))
<1> DEFINE uj == value[at[a]][aent[a]]
           f == Collected(a)
           g == Collected(a)'
<1>1. at[a] \in Pids /\ aent[a] \in Gens /\ uj \in U64
  BY AuditorCell DEF ReadEntry
<1>2. uj \in Nat
  BY <1>1, MaxUAssumption DEF U64
<1>3. /\ seen' = [seen EXCEPT ![a] = [seen[a] EXCEPT ![at[a]] = uj]]
      /\ total' = [total EXCEPT ![a] = clamp(total[a] + uj)]
  BY DEF ReadEntry, saturating_add
<1>4. seen \in [Auditors -> [Pids -> U64 \cup {NotSeen}]] /\ total \in [Auditors -> U64]
  BY DEF IndInv, TypeOK
<1> HIDE DEF uj
<1>5. seen'[a][at[a]] = uj /\ \A p \in Pids : p # at[a] => seen'[a][p] = seen[a][p]
  BY <1>1, <1>3, <1>4
<1>6. seen[a][at[a]] = NotSeen
  BY DEF WalkInv, NothingAhead, ReadEntry
<1>7. /\ \A p \in Pids : f[p] \in Nat /\ g[p] \in Nat
      /\ f[at[a]] = 0 /\ g[at[a]] = uj
      /\ \A p \in Pids \ {at[a]} : g[p] = f[p]
  <2>1. \A p \in Pids : f[p] \in Nat
    BY CollectedType
  <2>2. f[at[a]] = 0 /\ g[at[a]] = uj
    BY <1>1, <1>2, <1>5, <1>6 DEF Collected, Reported
  <2>3. \A p \in Pids \ {at[a]} : g[p] = f[p]
    BY <1>5 DEF Collected, Reported
  <2> QED BY <1>2, <2>1, <2>2, <2>3
<1> HIDE DEF f, g
<1>8. SumOf(f, Pids) \in Nat /\ SumOf(g, Pids) = (SumOf(f, Pids) - f[at[a]]) + g[at[a]]
  BY <1>1, <1>7, SumChange, FiniteAssumption
<1>9. SumOf(f, Pids) \in Nat /\ SumOf(g, Pids) = SumOf(f, Pids) + uj
  BY <1>2, <1>7, <1>8
<1>10. total[a] = clamp(SumOf(f, Pids))
  BY DEF WalkInv, SumOver, SumOf, f
<1>11. total'[a] = clamp(clamp(SumOf(f, Pids)) + uj)
  BY <1>3, <1>4, <1>10
<1>12. total'[a] = clamp(SumOf(g, Pids))
  BY <1>2, <1>9, <1>11, ClampAdd
<1> QED BY <1>1, <1>2, <1>5, <1>12 DEF SumOver, SumOf, g, uj

(***************************************************************************)
(* A step in which a neither starts nor reads leaves what it collected.    *)
(***************************************************************************)
LEMMA WalkInvStep ==
  ASSUME IndInv, LedgerOK, WalkInv, [LNext]_lvars
  PROVE  WalkInv'
<1>0. \A p \in Pids, g \in Gens : value[p][g] \in Nat
  <2>1. value \in [Pids -> [Gens -> U64]] /\ U64 \subseteq Nat
    BY MaxUAssumption DEF IndInv, TypeOK, U64
  <2> QED BY <2>1
<1>1. CellsAreCredited'
  <2>1. ASSUME NEW w \in Writers, LCasOk(w), NEW p \in Pids, NEW g \in Gens
        PROVE  value'[p][g] <= credited'[p]
    <3>1. value[p][g] <= credited[p] /\ credited[p] \in Nat /\ value[p][g] \in Nat
      BY <1>0 DEF WalkInv, CellsAreCredited, LedgerOK
    <3>2. CASE p = job[w].pid /\ g = ent[w]
      <4>1. /\ value'[p][g] = clamp(value[p][g] + job[w].uj) /\ job[w].uj \in Nat
            /\ credited'[p] = credited[p] + job[w].uj
        BY <2>1, <3>2, CasOkCells
      <4>2. clamp(value[p][g] + job[w].uj) <= value[p][g] + job[w].uj
        BY <3>1, <4>1, MaxUAssumption DEF clamp
      <4>3. clamp(value[p][g] + job[w].uj) \in Nat
        BY <3>1, <4>1, MaxUAssumption DEF clamp
      <4> QED BY <3>1, <4>1, <4>2, <4>3
    <3>3. CASE ~(p = job[w].pid /\ g = ent[w])
      <4>1. value'[p][g] = value[p][g]
        BY <2>1, <3>3, CasOkCells
      <4> QED BY <3>1, <4>1, CreditsGrow
    <3> QED BY <3>2, <3>3
  <2>2. CASE ~ \E w \in Writers : LCasOk(w)
    BY <2>2, OnlyCasWrites DEF WalkInv, CellsAreCredited
  <2> QED BY <2>1, <2>2 DEF CellsAreCredited
<1>2. ASSUME NEW a \in Auditors
      PROVE  /\ \A p \in Pids : Reported(a, p)' <= credited'[p]
             /\ total'[a] = clamp(SumOver(Collected(a)'))
             /\ apc'[a] # "idle" => NothingAhead(a)'
  <2>0. /\ \A p \in Pids : Reported(a, p) <= credited[p] /\ Reported(a, p) \in Nat
        /\ total[a] = clamp(SumOver(Collected(a)))
        /\ apc[a] # "idle" => NothingAhead(a)
    BY CollectedType DEF WalkInv, Collected
  <2>1. CASE LStartWalk(a)
    <3>1. /\ seen'[a] = [p \in Pids |-> NotSeen] /\ total'[a] = 0
          /\ credited' = credited /\ apc'[a] = "next"
      BY <2>1 DEF LStartWalk, StartWalk, IndInv, TypeOK
    <3>2. \A p \in Pids : Reported(a, p)' = 0
      BY <3>1 DEF Reported
    <3>3. \A p \in Pids : Collected(a)'[p] = 0
      BY <3>2 DEF Collected
    <3>4. SumOf(Collected(a)', Pids) = 0
      BY <3>3, SumZero, FiniteAssumption
    <3>5. SumOver(Collected(a)') = 0
      BY <3>4 DEF SumOver, SumOf
    <3>6. clamp(0) = 0
      BY MaxUAssumption DEF clamp
    <3>7. NothingAhead(a)'
      BY <3>1 DEF NothingAhead
    <3>8. \A p \in Pids : 0 <= credited'[p]
      BY <3>1 DEF LedgerOK
    <3> QED BY <3>1, <3>2, <3>5, <3>6, <3>7, <3>8
  <2>2. CASE LWalkStep(a) /\ ReadEntry(a)
    <3>1. /\ at[a] \in Pids /\ value[at[a]][aent[a]] \in Nat
          /\ seen'[a][at[a]] = value[at[a]][aent[a]]
          /\ \A p \in Pids : p # at[a] => seen'[a][p] = seen[a][p]
          /\ total'[a] = clamp(SumOver(Collected(a)'))
      BY <2>2, ReadEntryAdds
    <3>2. credited' = credited /\ at' = at /\ apc'[a] = "next" /\ apc[a] = "load"
      BY <2>2 DEF LWalkStep, ReadEntry, ledger, IndInv, TypeOK
    <3>3. aent[a] \in Gens
      BY <2>2, AuditorCell DEF ReadEntry
    <3>4. ASSUME NEW p \in Pids PROVE Reported(a, p)' <= credited'[p]
      <4>1. CASE p = at[a]
        <5>1. Reported(a, p)' = value[p][aent[a]]
          BY <3>1, <4>1 DEF Reported
        <5> QED BY <3>2, <3>3, <4>1, <5>1 DEF WalkInv, CellsAreCredited
      <4>2. CASE p # at[a]
        BY <2>0, <3>1, <3>2, <4>2 DEF Reported
      <4> QED BY <4>1, <4>2
    <3>5. NothingAhead(a)'
      <4>1. \A p \in Pids : p \in Nat
        BY RegistryAssumption
      <4>2. \A p \in Pids : p > at[a] => p # at[a]
        BY <3>1, <4>1
      <4> QED BY <2>0, <3>1, <3>2, <4>2 DEF NothingAhead
    <3> QED BY <3>1, <3>4, <3>5
  <2>3. ASSUME seen'[a] = seen[a], total'[a] = total[a], apc'[a] # "idle" => NothingAhead(a)'
        PROVE  /\ \A p \in Pids : Reported(a, p)' <= credited'[p]
               /\ total'[a] = clamp(SumOver(Collected(a)'))
               /\ apc'[a] # "idle" => NothingAhead(a)'
    <3>1. \A p \in Pids : Reported(a, p)' = Reported(a, p)
      BY <2>3 DEF Reported
    <3>2. Collected(a)' = Collected(a)
      BY <3>1 DEF Collected
    <3>3. ASSUME NEW p \in Pids PROVE Reported(a, p)' <= credited'[p]
      BY <2>0, <3>1, CreditsGrow
    <3> QED BY <2>0, <2>3, <3>2, <3>3
  <2>4. CASE LWalkStep(a) /\ NextEntry(a)
    <3>1. PICK p \in Ahead(a) : at' = [at EXCEPT ![a] = p]
      BY <2>4 DEF NextEntry
    <3>2. /\ seen' = seen /\ total' = total /\ apc[a] = "next"
          /\ p \in Pids /\ p > at[a] /\ at'[a] = p
      BY <2>4, <3>1 DEF NextEntry, Ahead, IndInv, TypeOK
    <3>3. at[a] \in Int /\ p \in Int /\ \A q \in Pids : q \in Int
      <4>1. \A q \in Pids : q \in Int
        BY RegistryAssumption
      <4>2. at[a] \in Pids \cup {-1}
        BY DEF IndInv, TypeOK
      <4> QED BY <3>2, <4>1, <4>2
    <3>4. NothingAhead(a)'
      <4>1. ASSUME NEW q \in Pids, q > p PROVE seen[a][q] = NotSeen
        <5>1. q > at[a]
          BY <3>2, <3>3, <4>1
        <5> QED BY <2>0, <3>2, <5>1 DEF NothingAhead
      <4>2. seen[a][p] = NotSeen
        BY <2>0, <3>2 DEF NothingAhead
      <4> QED BY <3>2, <4>1, <4>2 DEF NothingAhead
    <3> QED BY <2>3, <3>2, <3>4
  <2>5. CASE LWalkStep(a) /\ EndWalk(a)
    <3>1. seen' = seen /\ total' = total /\ apc'[a] = "idle"
      BY <2>5 DEF EndWalk, IndInv, TypeOK
    <3> QED BY <2>3, <3>1
  <2>6. ASSUME seen'[a] = seen[a], total'[a] = total[a], at'[a] = at[a], apc'[a] = apc[a]
        PROVE  /\ \A p \in Pids : Reported(a, p)' <= credited'[p]
               /\ total'[a] = clamp(SumOver(Collected(a)'))
               /\ apc'[a] # "idle" => NothingAhead(a)'
    <3>1. apc'[a] # "idle" => NothingAhead(a)'
      BY <2>0, <2>6 DEF NothingAhead
    <3> QED BY <2>3, <2>6, <3>1
  <2>7. ASSUME NEW b \in Auditors, b # a, LStartWalk(b) \/ LWalkStep(b)
        PROVE  seen'[a] = seen[a] /\ total'[a] = total[a] /\ at'[a] = at[a] /\ apc'[a] = apc[a]
    BY <2>7 DEF LStartWalk, StartWalk, LWalkStep, WalkStep, NextEntry, ReadEntry, EndWalk,
                IndInv, TypeOK
  <2>8. ASSUME UNCHANGED auditorVars
        PROVE  seen'[a] = seen[a] /\ total'[a] = total[a] /\ at'[a] = at[a] /\ apc'[a] = apc[a]
    BY <2>8 DEF auditorVars
  <2>9. ASSUME NEW w \in Writers, LWriterStep(w) \/ \E j \in Jobs : LCall(w, j)
        PROVE  UNCHANGED auditorVars
    BY <2>9 DEF LWriterStep, LCasOk, CasOk, TableGet, ColdPath, Load, CasFail, LCall, Call
  <2>10. ASSUME NEW r \in Reapers, LFinalLoad(r) \/ \E p \in Pids : LUnlink(r, p)
         PROVE  UNCHANGED auditorVars
    BY <2>10 DEF LFinalLoad, FinalLoad, LUnlink, Unlink
  <2>11. CASE UNCHANGED lvars
    BY <2>6, <2>8, <2>11 DEF lvars, vars, auditorVars
  <2>12. LWalkStep(a) => ReadEntry(a) \/ NextEntry(a) \/ EndWalk(a)
    BY DEF LWalkStep, WalkStep
  <2>13. CASE \E b \in Auditors : LStartWalk(b) \/ LWalkStep(b)
    BY <2>1, <2>2, <2>4, <2>5, <2>6, <2>7, <2>12, <2>13
  <2>14. CASE \E w \in Writers : LWriterStep(w) \/ \E j \in Jobs : LCall(w, j)
    BY <2>6, <2>8, <2>9, <2>14
  <2>15. CASE \E r \in Reapers : LFinalLoad(r) \/ \E p \in Pids : LUnlink(r, p)
    BY <2>6, <2>8, <2>10, <2>15
  <2> QED BY <2>11, <2>13, <2>14, <2>15 DEF LNext
<1> QED BY <1>1, <1>2 DEF WalkInv

(***************************************************************************)
(* Every walk reads each PID at most once, whatever writers and reapers do *)
(* meanwhile.                                                              *)
(***************************************************************************)
LEMMA WalksReadOnce == LSpec => []WalkInv
<1>1. LInit => WalkInv
  <2> SUFFICES ASSUME LInit PROVE WalkInv
    OBVIOUS
  <2>1. CellsAreCredited
    BY DEF LInit, Init, CellsAreCredited
  <2>2. ASSUME NEW a \in Auditors
        PROVE  /\ \A p \in Pids : Reported(a, p) <= credited[p]
               /\ total[a] = clamp(SumOver(Collected(a)))
               /\ apc[a] # "idle" => NothingAhead(a)
    <3>1. \A p \in Pids : Reported(a, p) = 0
      BY DEF LInit, Init, Reported
    <3>2. \A p \in Pids : Collected(a)[p] = 0
      BY <3>1 DEF Collected
    <3>3. SumOf(Collected(a), Pids) = 0
      BY <3>2, SumZero, FiniteAssumption
    <3>4. SumOver(Collected(a)) = 0
      BY <3>3 DEF SumOver, SumOf
    <3>5. clamp(0) = 0
      BY MaxUAssumption DEF clamp
    <3> QED BY <3>1, <3>4, <3>5 DEF LInit, Init
  <2> QED BY <2>1, <2>2 DEF WalkInv
<1>2. IndInv /\ LedgerOK /\ WalkInv /\ [LNext]_lvars => WalkInv'
  BY WalkInvStep
<1> QED BY LedgerTypes, <1>1, <1>2, PTL DEF LSpec

(***************************************************************************)
(* total_micro_joules is a lower bound on the energy spent so far, for any *)
(* number of writers, auditors and reapers: a walk collects a PID once,    *)
(* never more than was credited to it, and the sum only saturates down.    *)
(***************************************************************************)
THEOREM TotalBoundedBySpent == LSpec => []TotalIsLowerBound
<1>1. ASSUME IndInv, LedgerOK, WalkInv, NEW a \in Auditors
      PROVE  total[a] <= SumOver(credited)
  <2>1. Collected(a) \in [Pids -> Nat] /\ SumOver(Collected(a)) \in Nat
    BY <1>1, CollectedType
  <2>2. \A p \in Pids : /\ Collected(a)[p] \in Nat /\ credited[p] \in Nat
                        /\ Collected(a)[p] <= credited[p]
    BY <1>1, <2>1 DEF LedgerOK, WalkInv, Collected
  <2>3. /\ SumOf(Collected(a), Pids) <= SumOf(credited, Pids)
        /\ SumOf(credited, Pids) \in Nat
    BY <2>2, SumMonotone, SumType, FiniteAssumption
  <2>4. SumOver(Collected(a)) <= SumOver(credited) /\ SumOver(credited) \in Nat
    BY <2>3 DEF SumOver, SumOf
  <2>5. total[a] = clamp(SumOver(Collected(a)))
    BY <1>1 DEF WalkInv
  <2>6. total[a] <= SumOver(Collected(a)) /\ total[a] \in Nat
    BY <2>1, <2>5, MaxUAssumption DEF clamp
  <2> QED BY <2>1, <2>4, <2>6
<1>2. IndInv /\ LedgerOK /\ WalkInv => TotalIsLowerBound
  BY <1>1 DEF TotalIsLowerBound
<1> QED BY LedgerTypes, WalksReadOnce, <1>2, PTL

-------------------------------------------------------------------------------
(* Walks of a registry nobody removes from *)

\* the iterator of a has p behind it
Behind(a, p) == \/ apc[a] = "idle"
                \/ p < at[a]
                \/ p = at[a] /\ apc[a] = "next"

(***************************************************************************)
(* Why a walk misses nothing although PIDs are inserted while it runs: a   *)
(* key that the iterator has passed without meeting it had no cell then,   *)
(* so nothing was credited to it before the walk began.                    *)
(***************************************************************************)
SnapshotInv ==
  \A a \in Auditors :
    /\ \A p \in Pids : base[a][p] <= credited[p]
    /\ apc[a] = "load" => at[a] \in table /\ aent[a] = gen[at[a]]
    /\ \A p \in Pids : Behind(a, p) => clamp(base[a][p]) <= Reported(a, p)

(***************************************************************************)
(* A PID without a cell has nothing credited to it.                        *)
(***************************************************************************)
LEMMA AbsentIsUncredited ==
  ASSUME LedgerOK, NoDeltaLost, NEW p \in Pids, p \notin table
  PROVE  credited[p] = 0
<1>1. credited[p] \in Nat /\ clamp(credited[p]) = 0
  BY DEF LedgerOK, NoDeltaLost, Live
<1> QED BY <1>1, MaxUAssumption DEF clamp

(***************************************************************************)
(* So a PID that is absent when the iterator passes is accounted for.      *)
(***************************************************************************)
LEMMA AbsentIsReported ==
  ASSUME IndInv, LedgerOK, NoDeltaLost, SnapshotInv,
         NEW a \in Auditors, NEW p \in Pids, p \notin table
  PROVE  clamp(base[a][p]) <= Reported(a, p)
<1>1. credited[p] = 0 /\ base[a][p] \in Nat /\ base[a][p] <= credited[p]
  BY AbsentIsUncredited DEF LedgerOK, SnapshotInv
<1>2. clamp(base[a][p]) = 0
  BY <1>1, MaxUAssumption DEF clamp
<1>3. Reported(a, p) \in Nat
  BY CollectedType DEF Collected
<1> QED BY <1>2, <1>3

(***************************************************************************)
(* Every step of a registry without reapers keeps it.                      *)
(***************************************************************************)
LEMMA SnapshotInvStep ==
  ASSUME Reapers = {}, IndInv, LedgerOK, OneCanonicalCell, NoDeltaLost, WalkInv, SnapshotInv,
         [LNext]_lvars
  PROVE  SnapshotInv'
<1> DEFINE Good(a) == /\ \A p \in Pids : base[a][p] <= credited[p]
                      /\ apc[a] = "load" => at[a] \in table /\ aent[a] = gen[at[a]]
                      /\ \A p \in Pids : Behind(a, p) => clamp(base[a][p]) <= Reported(a, p)
<1> SUFFICES ASSUME NEW a \in Auditors PROVE Good(a)'
  BY DEF SnapshotInv
<1>0. /\ Good(a)
      /\ \A p \in Pids : base[a][p] \in Nat /\ credited[p] \in Nat
      /\ \A p \in Pids : p \in Int
      /\ at[a] \in Int
  <2>1. at[a] \in Pids \cup {-1} /\ \A p \in Pids : p \in Int
    BY RegistryAssumption DEF IndInv, TypeOK
  <2>2. at[a] \in Int
    BY <2>1
  <2>3. \A p \in Pids : base[a][p] \in Nat /\ credited[p] \in Nat
    BY DEF LedgerOK
  <2> QED BY <2>1, <2>2, <2>3 DEF SnapshotInv
<1>1. CASE LStartWalk(a)
  <2>1. base'[a] = credited /\ credited' = credited /\ apc'[a] = "next" /\ at'[a] = -1
    BY <1>1 DEF LStartWalk, StartWalk, LedgerOK, IndInv, TypeOK
  <2>2. ASSUME NEW p \in Pids PROVE base'[a][p] <= credited'[p] /\ ~Behind(a, p)'
    BY <1>0, <2>1, RegistryAssumption DEF Behind
  <2> QED BY <2>1, <2>2
<1>2. CASE LWalkStep(a) /\ ReadEntry(a)
  <2>1. /\ at[a] \in Pids
        /\ seen'[a][at[a]] = value[at[a]][aent[a]] /\ value[at[a]][aent[a]] \in Nat
        /\ \A p \in Pids : p # at[a] => seen'[a][p] = seen[a][p]
    BY <1>2, ReadEntryAdds
  <2>2. /\ apc'[a] = "next" /\ apc[a] = "load" /\ at' = at
        /\ base' = base /\ credited' = credited
    BY <1>2 DEF LWalkStep, ReadEntry, ledger, IndInv, TypeOK
  <2>3. at[a] \in table /\ aent[a] = gen[at[a]]
    BY <1>0, <2>2
  <2>4. value[at[a]][aent[a]] = clamp(credited[at[a]])
    BY <2>1, <2>3 DEF NoDeltaLost, Live
  <2>5. Reported(a, at[a])' = clamp(credited[at[a]])
    BY <2>1, <2>2, <2>4 DEF Reported
  <2>6. clamp(base[a][at[a]]) <= clamp(credited[at[a]])
    BY <1>0, <2>1, MaxUAssumption DEF clamp
  <2>7. ASSUME NEW p \in Pids, Behind(a, p)' PROVE clamp(base'[a][p]) <= Reported(a, p)'
    <3>1. CASE p = at[a]
      BY <2>2, <2>5, <2>6, <3>1
    <3>2. CASE p # at[a]
      <4>1. Behind(a, p)
        BY <1>0, <2>2, <2>7, <3>2 DEF Behind
      <4>2. Reported(a, p)' = Reported(a, p)
        BY <2>1, <3>2 DEF Reported
      <4> QED BY <1>0, <2>2, <4>1, <4>2
    <3> QED BY <3>1, <3>2
  <2> QED BY <1>0, <2>2, <2>7
<1>3. CASE LWalkStep(a) /\ NextEntry(a)
  <2>1. PICK p \in Ahead(a) : /\ \A q \in Ahead(a) : p <= q
                              /\ at' = [at EXCEPT ![a] = p]
                              /\ aent' = [aent EXCEPT ![a] = gen[p]]
    BY <1>3 DEF NextEntry
  <2>2. /\ seen' = seen /\ apc[a] = "next" /\ apc'[a] = "load" /\ UNCHANGED <<gen, table>>
        /\ base' = base /\ credited' = credited
        /\ p \in Pids /\ p \in table /\ p > at[a] /\ at'[a] = p /\ aent'[a] = gen[p]
    BY <1>3, <2>1 DEF LWalkStep, NextEntry, Ahead, tableVars, ledger, IndInv, TypeOK
  <2>3. ASSUME NEW q \in Pids, Behind(a, q)' PROVE clamp(base[a][q]) <= Reported(a, q)
    <3>1. q < p
      BY <2>2, <2>3 DEF Behind
    <3>2. CASE q > at[a]
      <4>1. q \notin table
        BY <1>0, <2>1, <2>2, <3>1, <3>2 DEF Ahead
      <4> QED BY <4>1, AbsentIsReported
    <3>3. CASE ~(q > at[a])
      <4>1. Behind(a, q)
        BY <1>0, <2>2, <3>3 DEF Behind
      <4> QED BY <1>0, <4>1
    <3> QED BY <3>2, <3>3
  <2>4. ASSUME NEW q \in Pids PROVE Reported(a, q)' = Reported(a, q)
    BY <2>2 DEF Reported
  <2> QED BY <1>0, <2>2, <2>3, <2>4
<1>4. CASE LWalkStep(a) /\ EndWalk(a)
  <2>1. /\ seen' = seen /\ apc[a] = "next" /\ apc'[a] = "idle" /\ Ahead(a) = {}
        /\ base' = base /\ credited' = credited
    BY <1>4 DEF LWalkStep, EndWalk, ledger, IndInv, TypeOK
  <2>2. ASSUME NEW q \in Pids PROVE clamp(base[a][q]) <= Reported(a, q)
    <3>1. CASE q > at[a]
      <4>1. q \notin table
        BY <2>1, <3>1 DEF Ahead
      <4> QED BY <4>1, AbsentIsReported
    <3>2. CASE ~(q > at[a])
      <4>1. Behind(a, q)
        BY <1>0, <2>1, <3>2 DEF Behind
      <4> QED BY <1>0, <4>1
    <3> QED BY <3>1, <3>2
  <2>3. ASSUME NEW q \in Pids PROVE Reported(a, q)' = Reported(a, q)
    BY <2>1 DEF Reported
  <2> QED BY <1>0, <2>1, <2>2, <2>3
<1>5. ASSUME seen'[a] = seen[a], at'[a] = at[a], apc'[a] = apc[a], aent'[a] = aent[a],
             base'[a] = base[a],
             apc[a] = "load" => at[a] \in table' /\ aent[a] = gen'[at[a]]
      PROVE  Good(a)'
  <2>1. ASSUME NEW p \in Pids PROVE base[a][p] <= credited'[p]
    BY <1>0, CreditsGrow
  <2>2. ASSUME NEW p \in Pids
        PROVE  Reported(a, p)' = Reported(a, p) /\ Behind(a, p)' = Behind(a, p)
    BY <1>5 DEF Reported, Behind
  <2> QED BY <1>0, <1>5, <2>1, <2>2
<1>6. ASSUME NEW b \in Auditors, b # a, LStartWalk(b) \/ LWalkStep(b) PROVE Good(a)'
  <2>1. /\ seen'[a] = seen[a] /\ at'[a] = at[a] /\ apc'[a] = apc[a] /\ aent'[a] = aent[a]
        /\ base'[a] = base[a] /\ UNCHANGED <<gen, table>>
    BY <1>6 DEF LStartWalk, StartWalk, LWalkStep, WalkStep, NextEntry, ReadEntry, EndWalk,
                IndInv, TypeOK, LedgerOK, tableVars, ledger
  <2> QED BY <1>0, <1>5, <2>1
<1>7. ASSUME NEW w \in Writers, ColdPath(w), UNCHANGED ledger PROVE Good(a)'
  <2>1. apc[a] = "load" => at[a] \in table' /\ aent[a] = gen'[at[a]]
    <3> SUFFICES ASSUME apc[a] = "load" PROVE at[a] \in table' /\ aent[a] = gen'[at[a]]
      OBVIOUS
    <3>1. at[a] \in table /\ aent[a] = gen[at[a]]
      BY <1>0
    <3>2. CASE job[w].pid \in table
      BY <1>7, <3>1, <3>2 DEF ColdPath, GetOrInsert, tableVars
    <3>3. CASE job[w].pid \notin table
      <4>1. gen' = [gen EXCEPT ![job[w].pid] = gen[job[w].pid] + 1]
            /\ table' = table \cup {job[w].pid}
        BY <1>7, <3>3 DEF ColdPath, GetOrInsert
      <4>2. gen'[at[a]] = gen[at[a]]
        BY <3>1, <3>3, <4>1 DEF IndInv, TypeOK
      <4> QED BY <3>1, <4>1, <4>2
    <3> QED BY <3>2, <3>3
  <2>2. UNCHANGED <<seen, at, apc, aent, base>>
    BY <1>7 DEF ColdPath, auditorVars, ledger
  <2> HIDE DEF Good
  <2> QED BY <1>5, <2>1, <2>2
<1>8. ASSUME UNCHANGED <<seen, at, apc, aent, base, gen, table>> PROVE Good(a)'
  BY <1>0, <1>5, <1>8
<1>9. ASSUME NEW w \in Writers, LWriterStep(w) \/ \E j \in Jobs : LCall(w, j), ~ColdPath(w)
      PROVE  UNCHANGED <<seen, at, apc, aent, base, gen, table>>
  BY <1>9 DEF LWriterStep, LCasOk, CasOk, TableGet, Load, CasFail, LCall, Call, auditorVars,
              tableVars, ledger
<1>10. ASSUME NEW w \in Writers, ColdPath(w), LWriterStep(w) PROVE UNCHANGED ledger
  BY <1>10 DEF LWriterStep, LCasOk, CasOk, ColdPath
<1>11. CASE UNCHANGED lvars
  BY <1>8, <1>11 DEF lvars, vars, ledger
<1>12. ASSUME NEW w \in Writers, NEW j \in Jobs, LCall(w, j) PROVE ~ColdPath(w)
  BY <1>12 DEF LCall, Call, ColdPath
<1>13. LWalkStep(a) => ReadEntry(a) \/ NextEntry(a) \/ EndWalk(a)
  BY DEF LWalkStep, WalkStep
<1> HIDE DEF Good
<1>14. CASE \E b \in Auditors : LStartWalk(b) \/ LWalkStep(b)
  BY <1>1, <1>2, <1>3, <1>4, <1>6, <1>13, <1>14
<1>15. CASE \E w \in Writers : LWriterStep(w) \/ \E j \in Jobs : LCall(w, j)
  BY <1>7, <1>8, <1>9, <1>10, <1>12, <1>15
<1> QED BY <1>11, <1>14, <1>15 DEF LNext

(***************************************************************************)
(* Without remove, a registry and a walk of it always are in the state the *)
(* argument above describes.                                               *)
(***************************************************************************)
LEMMA SnapshotInvariant == ASSUME Reapers = {} PROVE LSpec => []SnapshotInv
<1>1. LInit => SnapshotInv
  BY MaxUAssumption DEF LInit, Init, SnapshotInv, Behind, Reported, clamp
<1>2. IndInv /\ LedgerOK /\ OneCanonicalCell /\ NoDeltaLost /\ WalkInv /\ SnapshotInv
        /\ [LNext]_lvars => SnapshotInv'
  BY SnapshotInvStep
<1> QED
  BY LedgerWatches, LedgerTypes, CanonicalSlot, NothingLost, WalksReadOnce, <1>1, <1>2, PTL DEF LSpec

(***************************************************************************)
(* Without remove, a snapshot lies between the registry as it was when the *)
(* walk began and what has been added by now, PID by PID, for any number   *)
(* of writers inserting and adding while it runs.                          *)
(***************************************************************************)
THEOREM SnapshotIsBracketed == ASSUME Reapers = {} PROVE LSpec => []SnapshotBetweenStartAndEnd
<1>1. WalkInv /\ SnapshotInv => SnapshotBetweenStartAndEnd
  BY DEF WalkInv, SnapshotInv, SnapshotBetweenStartAndEnd, Behind
<1> QED BY WalksReadOnce, SnapshotInvariant, <1>1, PTL

(***************************************************************************)
(* Saturating terms one by one loses nothing a saturated sum would keep.   *)
(***************************************************************************)
LEMMA ClampedSum ==
  ASSUME NEW f \in [Pids -> Nat], NEW g \in [Pids -> Nat],
         \A p \in Pids : clamp(f[p]) <= g[p]
  PROVE  clamp(SumOver(g)) >= clamp(SumOver(f))
<1>1. SumOf(f, Pids) \in Nat /\ SumOf(g, Pids) \in Nat
  BY SumType, FiniteAssumption
<1>2. CASE \A p \in Pids : f[p] <= MaxU
  <2>1. \A p \in Pids : f[p] \in Nat /\ g[p] \in Nat /\ f[p] <= g[p]
    BY <1>2, MaxUAssumption DEF clamp
  <2>2. SumOf(f, Pids) <= SumOf(g, Pids)
    BY <2>1, SumMonotone, FiniteAssumption
  <2>3. clamp(SumOf(g, Pids)) >= clamp(SumOf(f, Pids))
    BY <1>1, <2>2, MaxUAssumption DEF clamp
  <2> QED BY <2>3 DEF SumOver, SumOf
<1>3. CASE \E p \in Pids : f[p] > MaxU
  <2>1. PICK p \in Pids : f[p] > MaxU
    BY <1>3
  <2>2. g[p] \in Nat /\ g[p] >= MaxU
    BY <2>1, MaxUAssumption DEF clamp
  <2>3. g[p] <= SumOf(g, Pids)
    BY SumTerm, FiniteAssumption
  <2>4. SumOf(g, Pids) >= MaxU
    BY <1>1, <2>2, <2>3, MaxUAssumption
  <2>5. clamp(SumOf(g, Pids)) = MaxU /\ clamp(SumOf(f, Pids)) <= MaxU
    BY <1>1, <2>4, MaxUAssumption DEF clamp
  <2>6. clamp(SumOf(g, Pids)) >= clamp(SumOf(f, Pids))
    BY <1>1, <2>5, MaxUAssumption DEF clamp
  <2> QED BY <2>6 DEF SumOver, SumOf
<1>4. \A p \in Pids : f[p] \in Nat
  OBVIOUS
<1> QED BY <1>2, <1>3, <1>4, MaxUAssumption

(***************************************************************************)
(* Without remove, total_micro_joules is no less than what the registry    *)
(* held when the walk began, although every addition of the walk may       *)
(* saturate and writers insert PIDs behind and ahead of it.                *)
(***************************************************************************)
THEOREM TotalCoversStart == ASSUME Reapers = {} PROVE LSpec => []TotalMissesNothing
<1>1. ASSUME IndInv, LedgerOK, WalkInv, SnapshotInv, NEW a \in Auditors, apc[a] = "idle"
      PROVE  total[a] >= clamp(SumOver(base[a]))
  <2>1. Collected(a) \in [Pids -> Nat] /\ base[a] \in [Pids -> Nat]
    BY <1>1, CollectedType DEF LedgerOK
  <2>2. \A p \in Pids : clamp(base[a][p]) <= Collected(a)[p]
    BY <1>1 DEF SnapshotInv, Behind, Collected
  <2>3. clamp(SumOver(Collected(a))) >= clamp(SumOver(base[a]))
    BY <2>1, <2>2, ClampedSum
  <2> QED BY <1>1, <2>3 DEF WalkInv
<1>2. IndInv /\ LedgerOK /\ WalkInv /\ SnapshotInv => TotalMissesNothing
  BY <1>1 DEF TotalMissesNothing
<1> QED BY LedgerTypes, WalksReadOnce, SnapshotInvariant, <1>2, PTL

-------------------------------------------------------------------------------
(* Removing *)

\* the cells c names, of the reapers in L
CellsOf(v, c, L) == MapThenSumSet(LAMBDA r : v[c[r]], L)

\* the reapers that have unlinked p and not read its cell yet
Loading(p) == {r \in Reapers : rpc[r] = "load" /\ rpid[r] = p}

(***************************************************************************)
(* What is being removed, as a sum over all the reapers.                   *)
(***************************************************************************)
LEMMA CellsOfIs ==
  ASSUME NEW v, NEW c, NEW R, IsFiniteSet(R), NEW L \in SUBSET R, \A r \in L : v[c[r]] \in Nat
  PROVE  CellsOf(v, c, L) = SumOf([r \in R |-> IF r \in L THEN v[c[r]] ELSE 0], R)
<1> DEFINE h == [r \in L |-> v[c[r]]]
           k == [r \in R |-> IF r \in L THEN v[c[r]] ELSE 0]
           Eq(g) == g = [s \in SUBSET L |-> IF s = {} THEN 0
                                             ELSE v[c[AnyOf(s)]] + g[s \ {AnyOf(s)}]]
<1>1. CellsOf(v, c, L) = (CHOOSE g : Eq(g))[L]
  BY DEF CellsOf, MapThenSumSet, MapThenFoldSet, AnyOf
<1>2. ASSUME NEW g PROVE Eq(g) <=> IsFold(h, g, L)
  <2>1. \A s \in SUBSET L : s # {} => h[AnyOf(s)] = v[c[AnyOf(s)]]
    BY DEF AnyOf
  <2>2. \A s \in SUBSET L : FoldStep(h, g, s) = IF s = {} THEN 0
                                             ELSE v[c[AnyOf(s)]] + g[s \ {AnyOf(s)}]
    BY <2>1 DEF FoldStep
  <2> HIDE DEF h
  <2>3. [s \in SUBSET L |-> FoldStep(h, g, s)]
          = [s \in SUBSET L |-> IF s = {} THEN 0 ELSE v[c[AnyOf(s)]] + g[s \ {AnyOf(s)}]]
    BY <2>2
  <2> QED BY <2>3 DEF IsFold
<1> HIDE DEF Eq
<1>3. (CHOOSE g : Eq(g)) = (CHOOSE g : IsFold(h, g, L))
  BY <1>2
<1>4. CellsOf(v, c, L) = SumOf(h, L)
  BY <1>1, <1>3, SumIsFold
<1>5. IsFiniteSet(L)
  BY FS_Subset
<1>6. SumOf(k, L) = SumOf(h, L)
  <2>1. \A r \in L : h[r] \in Nat /\ k[r] = h[r]
    OBVIOUS
  <2> HIDE DEF h, k
  <2> QED BY <1>5, <2>1, SumSame
<1>7. SumOf(k, R) = SumOf(k, L)
  <2>1. (\A r \in R : k[r] \in Nat) /\ (\A r \in R \ L : k[r] = 0)
    OBVIOUS
  <2> HIDE DEF k
  <2> QED BY <2>1, SumSupport
<1> QED BY <1>4, <1>6, <1>7

\* what each reaper is about to hand back for p
OwedBy(p) == [r \in Reapers |-> IF r \in Loading(p) THEN value[p][rent[r]] ELSE 0]

RemovedAsSum ==
  \A p \in Pids : /\ BeingRemoved(p) = SumOf(OwedBy(p), Reapers)
                  /\ BeingRemoved(p) \in Nat
                  /\ \A r \in Reapers : OwedBy(p)[r] \in Nat

(***************************************************************************)
(* What is being removed from p is the sum of what its reapers will hand   *)
(* back.                                                                   *)
(***************************************************************************)
LEMMA RemovedIs == IndInv => RemovedAsSum
<1> SUFFICES ASSUME IndInv, NEW p \in Pids
             PROVE  /\ BeingRemoved(p) = SumOf(OwedBy(p), Reapers)
                    /\ BeingRemoved(p) \in Nat
                    /\ \A r \in Reapers : OwedBy(p)[r] \in Nat
  BY DEF RemovedAsSum
<1>1. \A r \in Loading(p) : value[p][rent[r]] \in Nat
  BY ReaperCell, MaxUAssumption DEF Loading, U64
<1>2. Loading(p) \in SUBSET Reapers
  BY DEF Loading
<1>3. BeingRemoved(p) = CellsOf(value[p], rent, Loading(p))
  BY DEF BeingRemoved, CellsOf, Loading
<1>4. BeingRemoved(p) = SumOf(OwedBy(p), Reapers)
  BY <1>1, <1>2, <1>3, CellsOfIs, FiniteAssumption DEF OwedBy
<1>5. \A r \in Reapers : OwedBy(p)[r] \in Nat
  BY <1>1 DEF OwedBy
<1>6. SumOf(OwedBy(p), Reapers) \in Nat
  BY <1>5, SumType, FiniteAssumption
<1> QED BY <1>4, <1>5, <1>6

(***************************************************************************)
(* And so it is after a step.                                              *)
(***************************************************************************)
LEMMA RemovedIsNext == IndInv' => RemovedAsSum'
  BY RemovedIs, PTL

(***************************************************************************)
(* The newest cell of a PID is in the table or in the hands of one reaper, *)
(* never both, and no two reapers hold the same cell.                      *)
(***************************************************************************)
CellsHaveOneOwner ==
  /\ \A r \in Reapers : rpc[r] = "load" /\ rpid[r] \in table => rent[r] # gen[rpid[r]]
  /\ \A r, s \in Reapers :
       r # s /\ rpc[r] = "load" /\ rpc[s] = "load" /\ rpid[r] = rpid[s] => rent[r] # rent[s]

(***************************************************************************)
(* A remove that unlinks a cell takes it from the table, and a re-insert   *)
(* makes a cell no reaper holds.                                           *)
(***************************************************************************)
LEMMA OneOwnerStep ==
  ASSUME IndInv, CellsHaveOneOwner, [Next]_vars
  PROVE  CellsHaveOneOwner'
<1>0. /\ gen \in [Pids -> 0 .. MaxGen] /\ rpid \in [Reapers -> Pids] /\ table \subseteq Pids
      /\ rpc \in [Reapers -> {"idle", "load"}] /\ rent \in [Reapers -> 0 .. MaxGen]
  BY DEF IndInv, TypeOK
<1>1. ASSUME NEW r \in Reapers, NEW p \in Pids, Unlink(r, p) PROVE CellsHaveOneOwner'
  <2>1. CASE p \notin table
    <3>1. UNCHANGED <<table, rpc, rent, gen>> /\ rpc[r] = "idle"
          /\ rpid' = [rpid EXCEPT ![r] = p]
      BY <1>1, <2>1 DEF Unlink
    <3> QED BY <1>0, <3>1 DEF CellsHaveOneOwner
  <2>2. CASE p \in table
    <3>1. /\ table' = table \ {p} /\ rent' = [rent EXCEPT ![r] = gen[p]]
          /\ rpc' = [rpc EXCEPT ![r] = "load"] /\ gen' = gen /\ rpc[r] = "idle"
          /\ rpid' = [rpid EXCEPT ![r] = p]
      BY <1>1, <2>2 DEF Unlink
    <3>2. ASSUME NEW s \in Reapers, rpc'[s] = "load", rpid'[s] \in table'
          PROVE  rent'[s] # gen'[rpid'[s]]
      BY <1>0, <3>1, <3>2 DEF CellsHaveOneOwner
    <3>3. ASSUME NEW s \in Reapers, s # r, rpc'[s] = "load", rpid'[s] = p
          PROVE  rent'[s] # gen[p]
      BY <1>0, <2>2, <3>1, <3>3 DEF CellsHaveOneOwner
    <3>4. ASSUME NEW s \in Reapers, NEW t \in Reapers, s # t, rpc'[s] = "load",
                 rpc'[t] = "load", rpid'[s] = rpid'[t]
          PROVE  rent'[s] # rent'[t]
      <4>1. rpid'[r] = p /\ rent'[r] = gen[p]
        BY <1>0, <3>1
      <4>2. CASE s = r
        BY <3>3, <3>4, <4>1, <4>2
      <4>3. CASE t = r
        BY <3>3, <3>4, <4>1, <4>3
      <4>4. CASE s # r /\ t # r
        BY <1>0, <3>1, <3>4, <4>4 DEF CellsHaveOneOwner
      <4> QED BY <4>2, <4>3, <4>4
    <3> QED BY <3>2, <3>4 DEF CellsHaveOneOwner
  <2> QED BY <2>1, <2>2
<1>2. ASSUME NEW r \in Reapers, FinalLoad(r) PROVE CellsHaveOneOwner'
  BY <1>0, <1>2 DEF CellsHaveOneOwner, FinalLoad, tableVars
<1>3. ASSUME NEW w \in Writers, ColdPath(w) PROVE CellsHaveOneOwner'
  <2> DEFINE p == job[w].pid
  <2>0. UNCHANGED <<rpc, rpid, rent>>
    BY <1>3 DEF ColdPath, reaperVars
  <2>1. CASE p \in table
    BY <1>3, <2>0, <2>1 DEF CellsHaveOneOwner, ColdPath, GetOrInsert, tableVars
  <2>2. CASE p \notin table
    <3>1. gen' = [gen EXCEPT ![p] = gen[p] + 1] /\ table' = table \cup {p} /\ p \in Pids
      BY <1>3, <2>2, WriterJob DEF ColdPath, GetOrInsert
    <3>2. ASSUME NEW s \in Reapers, rpc[s] = "load", rpid[s] \in table'
          PROVE  rent[s] # gen'[rpid[s]]
      <4>1. CASE rpid[s] = p
        <5>1. rent[s] \in 1 .. gen[p] /\ gen[p] \in 0 .. MaxGen
          BY <1>0, <3>1, <3>2, <4>1 DEF IndInv, EntriesExist
        <5>2. gen'[p] = gen[p] + 1
          BY <1>0, <3>1
        <5> QED BY <4>1, <5>1, <5>2
      <4>2. CASE rpid[s] # p
        BY <1>0, <3>1, <3>2, <4>2 DEF CellsHaveOneOwner
      <4> QED BY <4>1, <4>2
    <3> QED BY <2>0, <3>2 DEF CellsHaveOneOwner
  <2> QED BY <2>1, <2>2
<1>4. ASSUME UNCHANGED <<gen, table, rpc, rpid, rent>> PROVE CellsHaveOneOwner'
  BY <1>4 DEF CellsHaveOneOwner
<1> QED
  BY <1>1, <1>2, <1>3, <1>4
     DEF Next, WriterStep, WalkStep, Call, TableGet, Load, CasOk, CasFail, StartWalk, NextEntry,
         ReadEntry, EndWalk, tableVars, reaperVars, vars

\* what is in the table of p, what remove handed back and what it will
Account(p) == Live(p) + returned[p] + BeingRemoved(p)

(***************************************************************************)
(* What get would return is a u64.                                         *)
(***************************************************************************)
LEMMA LiveType == ASSUME IndInv, NEW p \in Pids PROVE Live(p) \in Nat
<1>1. CASE p \in table
  <2>1. gen[p] \in 0 .. MaxGen /\ gen[p] > 0
    BY <1>1 DEF IndInv, TypeOK, EntriesExist
  <2>2. gen[p] \in Gens
    BY <2>1, RegistryAssumption
  <2>3. value \in [Pids -> [Gens -> U64]]
    BY DEF IndInv, TypeOK
  <2>4. value[p][gen[p]] \in U64
    BY <2>2, <2>3
  <2> QED BY <1>1, <2>4, MaxUAssumption DEF Live, U64
<1>2. CASE p \notin table
  BY <1>2 DEF Live
<1> QED BY <1>1, <1>2

(***************************************************************************)
(* A step other than a successful compare-and-swap moves energy between    *)
(* the table, the reapers and the callers of remove, and changes no        *)
(* account.                                                                *)
(***************************************************************************)
LEMMA AccountMoves ==
  ASSUME IndInv, IndInv', LedgerOK, [LNext]_lvars, ~ \E w \in Writers : LCasOk(w),
         NEW p \in Pids
  PROVE  Account(p)' = Account(p)
<1>0. /\ value' = value
      /\ Live(p) \in Nat /\ returned[p] \in Nat
      /\ BeingRemoved(p) = SumOf(OwedBy(p), Reapers) /\ BeingRemoved(p) \in Nat
      /\ \A r \in Reapers : OwedBy(p)[r] \in Nat
      /\ BeingRemoved(p)' = SumOf(OwedBy(p)', Reapers) /\ BeingRemoved(p)' \in Nat
      /\ \A r \in Reapers : OwedBy(p)'[r] \in Nat
  BY OnlyCasWrites, LiveType, RemovedIs, RemovedIsNext DEF LedgerOK, RemovedAsSum
<1>1. ASSUME NEW r \in Reapers, NEW q \in Pids, LUnlink(r, q) PROVE Account(p)' = Account(p)
  <2>1. CASE q \notin table
    <3>1. /\ UNCHANGED <<table, gen, rpc, rent, returned>> /\ rpc[r] = "idle"
          /\ rpid' = [rpid EXCEPT ![r] = q]
      BY <1>1, <2>1 DEF LUnlink, Unlink
    <3>2. Loading(p)' = Loading(p)
      BY <3>1 DEF Loading, IndInv, TypeOK
    <3>3. OwedBy(p)' = OwedBy(p)
      BY <1>0, <3>1, <3>2 DEF OwedBy
    <3>4. Live(p)' = Live(p)
      BY <1>0, <3>1 DEF Live
    <3> QED BY <1>0, <3>1, <3>3, <3>4 DEF Account
  <2>2. CASE q \in table
    <3>1. /\ table' = table \ {q} /\ rent' = [rent EXCEPT ![r] = gen[q]] /\ gen' = gen
          /\ rpc' = [rpc EXCEPT ![r] = "load"] /\ rpc[r] = "idle" /\ returned' = returned
          /\ rpid' = [rpid EXCEPT ![r] = q]
      BY <1>1, <2>2 DEF LUnlink, Unlink
    <3>2. /\ rpc \in [Reapers -> {"idle", "load"}] /\ rpid \in [Reapers -> Pids]
          /\ rent \in [Reapers -> 0 .. MaxGen]
      BY DEF IndInv, TypeOK
    <3>3. /\ rpc'[r] = "load" /\ rpid'[r] = q /\ rent'[r] = gen[q]
          /\ \A s \in Reapers \ {r} : rpc'[s] = rpc[s] /\ rpid'[s] = rpid[s] /\ rent'[s] = rent[s]
      BY <3>1, <3>2
    <3>4. \A s \in Reapers \ {r} : OwedBy(p)'[s] = OwedBy(p)[s]
      BY <1>0, <3>3 DEF OwedBy, Loading
    <3>5. OwedBy(p)[r] = 0
      BY <3>1 DEF OwedBy, Loading
    <3>6. SumOf(OwedBy(p)', Reapers)
            = (SumOf(OwedBy(p), Reapers) - OwedBy(p)[r]) + OwedBy(p)'[r]
      BY <1>0, <3>4, SumChange, FiniteAssumption
    <3>7. CASE p = q
      <4>1. OwedBy(p)'[r] = value[p][gen[p]]
        BY <1>0, <3>3, <3>7 DEF OwedBy, Loading
      <4>2. Live(p) = value[p][gen[p]] /\ Live(p)' = 0
        BY <2>2, <3>1, <3>7 DEF Live
      <4> QED BY <1>0, <3>1, <3>5, <3>6, <4>1, <4>2 DEF Account
    <3>8. CASE p # q
      <4>1. OwedBy(p)'[r] = 0
        BY <3>3, <3>8 DEF OwedBy, Loading
      <4>2. Live(p)' = Live(p)
        BY <1>0, <3>1, <3>8 DEF Live
      <4> QED BY <1>0, <3>1, <3>5, <3>6, <4>1, <4>2 DEF Account
    <3> QED BY <3>7, <3>8
  <2> QED BY <2>1, <2>2
<1>2. ASSUME NEW r \in Reapers, LFinalLoad(r) PROVE Account(p)' = Account(p)
  <2> DEFINE q == rpid[r]
             uj == value[q][rent[r]]
  <2>1. q \in Pids /\ uj \in U64
    BY <1>2, ReaperCell DEF LFinalLoad, FinalLoad
  <2>2. /\ UNCHANGED <<gen, table, rpid, rent>>
        /\ rpc' = [rpc EXCEPT ![r] = "idle"] /\ rpc[r] = "load"
        /\ rret' = [rret EXCEPT ![r] = uj]
        /\ returned' = [returned EXCEPT ![q] = returned[q] + rret'[r]]
    BY <1>2 DEF LFinalLoad, FinalLoad, tableVars
  <2>3. rret'[r] = uj /\ uj \in Nat
    BY <2>1, <2>2, MaxUAssumption DEF IndInv, TypeOK, U64
  <2>4. Live(p)' = Live(p)
    BY <1>0, <2>2 DEF Live
  <2>5. \A s \in Reapers \ {r} : OwedBy(p)'[s] = OwedBy(p)[s]
    BY <1>0, <2>2 DEF OwedBy, Loading, IndInv, TypeOK
  <2>6. OwedBy(p)'[r] = 0
    BY <2>2 DEF OwedBy, Loading, IndInv, TypeOK
  <2>7. SumOf(OwedBy(p)', Reapers)
            = (SumOf(OwedBy(p), Reapers) - OwedBy(p)[r]) + OwedBy(p)'[r]
    BY <1>0, <2>5, SumChange, FiniteAssumption
  <2>8. CASE p = q
    <3>1. OwedBy(p)[r] = uj
      BY <2>2, <2>8 DEF OwedBy, Loading
    <3>2. returned'[p] = returned[p] + uj
      BY <2>1, <2>2, <2>3, <2>8 DEF LedgerOK
    <3> HIDE DEF uj, q
    <3> QED BY <1>0, <2>3, <2>4, <2>6, <2>7, <3>1, <3>2 DEF Account
  <2>9. CASE p # q
    <3>1. OwedBy(p)[r] = 0
      BY <2>9 DEF OwedBy, Loading
    <3>2. returned'[p] = returned[p]
      BY <2>1, <2>2, <2>9 DEF LedgerOK
    <3> QED BY <1>0, <2>4, <2>6, <2>7, <3>1, <3>2 DEF Account
  <2> QED BY <2>8, <2>9
<1>3. ASSUME UNCHANGED <<rpc, rpid, rent, returned>>, Live(p)' = Live(p)
      PROVE  Account(p)' = Account(p)
  <2>1. OwedBy(p)' = OwedBy(p)
    BY <1>0, <1>3 DEF OwedBy, Loading
  <2> QED BY <1>0, <1>3, <2>1 DEF Account
<1>4. ASSUME NEW w \in Writers, ColdPath(w), UNCHANGED ledger
      PROVE  UNCHANGED <<rpc, rpid, rent, returned>> /\ Live(p)' = Live(p)
  BY <1>4, LiveColdPath DEF ColdPath, reaperVars, ledger
<1>5. ASSUME UNCHANGED <<rpc, rpid, rent, returned, gen, table>>
      PROVE  UNCHANGED <<rpc, rpid, rent, returned>> /\ Live(p)' = Live(p)
  BY <1>0, <1>5 DEF Live
<1>6. ASSUME NEW w \in Writers,
             \/ (TableGet(w) \/ Load(w) \/ CasFail(w)) /\ UNCHANGED ledger
             \/ \E j \in Jobs : LCall(w, j)
      PROVE  UNCHANGED <<rpc, rpid, rent, returned, gen, table>>
  BY <1>6 DEF LCall, Call, TableGet, Load, CasFail, tableVars, reaperVars, ledger
<1>7. ASSUME NEW a \in Auditors, LStartWalk(a) \/ LWalkStep(a)
      PROVE  UNCHANGED <<rpc, rpid, rent, returned, gen, table>>
  BY <1>7 DEF LStartWalk, StartWalk, LWalkStep, WalkStep, NextEntry, ReadEntry, EndWalk,
              tableVars, reaperVars, ledger
<1>8. CASE UNCHANGED lvars
  BY <1>3, <1>5, <1>8 DEF lvars, vars, ledger
<1>9. CASE \E w \in Writers : LWriterStep(w) \/ \E j \in Jobs : LCall(w, j)
  BY <1>3, <1>4, <1>5, <1>6, <1>9 DEF LWriterStep
<1>10. CASE \E a \in Auditors : LStartWalk(a) \/ LWalkStep(a)
  BY <1>3, <1>5, <1>7, <1>10
<1>11. CASE \E r \in Reapers : LFinalLoad(r) \/ \E q \in Pids : LUnlink(r, q)
  BY <1>1, <1>2, <1>11
<1> QED BY <1>8, <1>9, <1>10, <1>11 DEF LNext

(***************************************************************************)
(* A successful compare-and-swap raises the account of its PID by no more  *)
(* than its delta, because its cell has one owner; and by exactly its      *)
(* delta, when the cell is in the table and does not saturate.             *)
(***************************************************************************)
LEMMA AccountGrows ==
  ASSUME IndInv, IndInv', LedgerOK, CellsHaveOneOwner, NEW w \in Writers, LCasOk(w), NEW p \in Pids
  PROVE  /\ Account(p) \in Nat /\ Account(p)' \in Nat
         /\ p # job[w].pid => Account(p)' = Account(p)
         /\ p = job[w].pid => Account(p)' <= Account(p) + job[w].uj
         /\ p = job[w].pid /\ p \in table /\ ent[w] = gen[p] /\ Live(p) + job[w].uj <= MaxU
              => Account(p)' = Account(p) + job[w].uj
<1> DEFINE q == job[w].pid
           g == ent[w]
           old == value[q][g]
           new == value'[q][g]
           uj == job[w].uj
<1>0. /\ Live(p) \in Nat /\ returned[p] \in Nat
      /\ BeingRemoved(p) = SumOf(OwedBy(p), Reapers) /\ BeingRemoved(p) \in Nat
      /\ \A r \in Reapers : OwedBy(p)[r] \in Nat
      /\ BeingRemoved(p)' = SumOf(OwedBy(p)', Reapers) /\ BeingRemoved(p)' \in Nat
      /\ \A r \in Reapers : OwedBy(p)'[r] \in Nat
  BY LiveType, RemovedIs, RemovedIsNext DEF LedgerOK, RemovedAsSum
<1>1. /\ q \in Pids /\ g \in Gens /\ uj \in Nat /\ old \in Nat
      /\ new = clamp(old + uj)
      /\ \A o \in Pids, h \in Gens : ~(o = q /\ h = g) => value'[o][h] = value[o][h]
  BY CasOkCells
<1>2. UNCHANGED <<gen, table, rpc, rpid, rent, returned>>
  BY DEF LCasOk, CasOk, reaperVars
<1>3. new \in Nat /\ new <= old + uj /\ (old + uj <= MaxU => new = old + uj)
  BY <1>1, MaxUAssumption DEF clamp
<1>4. Loading(p)' = Loading(p)
  BY <1>2 DEF Loading
<1>5. \A r \in Loading(p) : rent[r] \in Gens /\ r \in Reapers /\ rpc[r] = "load" /\ rpid[r] = p
  BY ReaperCell DEF Loading
<1>6. p \in table => gen[p] \in Gens
  <2> SUFFICES ASSUME p \in table PROVE gen[p] \in Gens
    OBVIOUS
  <2>1. gen[p] \in 0 .. MaxGen /\ gen[p] > 0
    BY DEF IndInv, TypeOK, EntriesExist
  <2> QED BY <2>1, RegistryAssumption
<1> HIDE DEF q, g, old, new, uj
<1>7. CASE p # q
  <2>1. Live(p)' = Live(p)
    BY <1>1, <1>2, <1>6, <1>7 DEF Live
  <2>2. \A r \in Loading(p) : value'[p][rent[r]] = value[p][rent[r]]
    BY <1>1, <1>5, <1>7
  <2>3. OwedBy(p)' = OwedBy(p)
    BY <1>2, <1>4, <2>2 DEF OwedBy
  <2>4. Account(p)' = Account(p) /\ Account(p) \in Nat
    BY <1>0, <1>2, <2>1, <2>3 DEF Account
  <2> QED BY <1>7, <2>4 DEF q
<1>8. CASE p = q /\ p \in table /\ g = gen[p]
  <2>1. Live(p) = old /\ Live(p)' = new
    BY <1>2, <1>8 DEF Live, old, new
  <2>2. \A r \in Loading(p) : rent[r] # g
    BY <1>5, <1>8 DEF CellsHaveOneOwner
  <2>3. \A r \in Loading(p) : value'[p][rent[r]] = value[p][rent[r]]
    BY <1>1, <1>5, <2>2
  <2>4. OwedBy(p)' = OwedBy(p)
    BY <1>2, <1>4, <2>3 DEF OwedBy
  <2>5. BeingRemoved(p)' = BeingRemoved(p)
    BY <1>0, <2>4
  <2>6. /\ Account(p) = old + returned[p] + BeingRemoved(p)
        /\ Account(p)' = new + returned[p] + BeingRemoved(p)
    BY <1>2, <2>1, <2>5 DEF Account
  <2>7. /\ Account(p) \in Nat /\ Account(p)' \in Nat
        /\ Account(p)' <= Account(p) + uj
        /\ old + uj <= MaxU => Account(p)' = Account(p) + uj
    BY <1>0, <1>1, <1>3, <2>6
  <2> QED BY <1>8, <2>1, <2>7 DEF q, uj
<1>9. CASE p = q /\ ~(p \in table /\ g = gen[p])
  <2>1. Live(p)' = Live(p)
    BY <1>1, <1>2, <1>6, <1>9 DEF Live
  <2>2. CASE \E r \in Loading(p) : rent[r] = g
    <3>1. PICK r \in Loading(p) : rent[r] = g
      BY <2>2
    <3>2. \A s \in Loading(p) \ {r} : rent[s] # g
      BY <1>5, <3>1 DEF CellsHaveOneOwner
    <3>3. \A s \in Loading(p) \ {r} : value'[p][rent[s]] = value[p][rent[s]]
      BY <1>1, <1>5, <3>2
    <3>4. \A s \in Reapers \ {r} : OwedBy(p)'[s] = OwedBy(p)[s]
      BY <1>2, <1>4, <3>3 DEF OwedBy
    <3>5. OwedBy(p)[r] = old /\ OwedBy(p)'[r] = new /\ r \in Reapers
      BY <1>2, <1>4, <1>5, <1>9, <3>1 DEF OwedBy, old, new
    <3>6. /\ SumOf(OwedBy(p)', Reapers)
               = (SumOf(OwedBy(p), Reapers) - OwedBy(p)[r]) + OwedBy(p)'[r]
          /\ OwedBy(p)[r] <= SumOf(OwedBy(p), Reapers)
      BY <1>0, <3>4, <3>5, SumChange, FiniteAssumption
    <3>7. BeingRemoved(p)' = (BeingRemoved(p) - old) + new
      BY <1>0, <3>5, <3>6
    <3>8. /\ Account(p) = Live(p) + returned[p] + BeingRemoved(p)
          /\ Account(p)' = Live(p) + returned[p] + BeingRemoved(p)'
      BY <1>2, <2>1 DEF Account
    <3>9. /\ Account(p) \in Nat /\ Account(p)' \in Nat
          /\ Account(p)' <= Account(p) + uj
      BY <1>0, <1>1, <1>3, <3>7, <3>8
    <3> QED BY <1>9, <3>9 DEF q, uj, g
  <2>3. CASE ~ \E r \in Loading(p) : rent[r] = g
    <3>1. \A s \in Loading(p) : value'[p][rent[s]] = value[p][rent[s]]
      BY <1>1, <1>5, <2>3
    <3>2. OwedBy(p)' = OwedBy(p)
      BY <1>2, <1>4, <3>1 DEF OwedBy
    <3>3. Account(p)' = Account(p) /\ Account(p) \in Nat
      BY <1>0, <1>2, <2>1, <3>2 DEF Account
    <3>4. Account(p)' <= Account(p) + uj
      BY <1>1, <3>3
    <3> QED BY <1>9, <3>3, <3>4 DEF q, uj, g
  <2> QED BY <2>2, <2>3
<1> QED BY <1>7, <1>8, <1>9

\* a PID no remove has raced on is written in its table cell only
RaceFree ==
  \A p \in Pids : ~raced[p] =>
    \A w \in Writers : pc[w] \in {"load", "cas"} /\ job[w].pid = p =>
      p \in table /\ ent[w] = gen[p]

(***************************************************************************)
(* A remove that meets no writer leaves no writer with the unlinked cell.  *)
(***************************************************************************)
LEMMA RaceFreeStep ==
  ASSUME IndInv, LedgerOK, RaceFree, [LNext]_lvars
  PROVE  RaceFree'
<1>0. /\ gen \in [Pids -> 0 .. MaxGen] /\ pc \in [Writers -> {"idle", "get", "insert", "load", "cas"}]
      /\ ent \in [Writers -> 0 .. MaxGen] /\ job \in [Writers -> Jobs]
      /\ raced \in [Pids -> BOOLEAN] /\ \A w \in Writers : job[w].pid \in Pids
  BY WriterJob DEF IndInv, TypeOK, LedgerOK
<1>1. ASSUME NEW r \in Reapers, NEW q \in Pids, LUnlink(r, q) PROVE RaceFree'
  <2>1. /\ UNCHANGED <<gen, pc, job, ent>>
        /\ raced' = [raced EXCEPT ![q] = raced[q] \/ (q \in table /\ Held(q))]
        /\ table' = table \/ table' = table \ {q}
        /\ q \notin table => table' = table
    BY <1>1 DEF LUnlink, Unlink, writerVars
  <2>2. ASSUME NEW p \in Pids, ~raced'[p], NEW w \in Writers, pc[w] \in {"load", "cas"}, job[w].pid = p
        PROVE  p \in table' /\ ent[w] = gen[p]
    <3>1. CASE p # q
      BY <1>0, <2>1, <2>2, <3>1 DEF RaceFree
    <3>2. CASE p = q
      <4>1. ~raced[q] /\ ~(q \in table /\ Held(q))
        BY <1>0, <2>1, <2>2, <3>2
      <4>2. Held(q)
        BY <2>2, <3>2 DEF Held
      <4> QED BY <2>2, <3>2, <4>1, <4>2 DEF RaceFree
    <3> QED BY <3>1, <3>2
  <2> QED BY <2>1, <2>2 DEF RaceFree
<1>2. ASSUME NEW w \in Writers, ColdPath(w), UNCHANGED ledger PROVE RaceFree'
  <2> DEFINE q == job[w].pid
  <2>1. /\ ent' = [ent EXCEPT ![w] = gen'[q]] /\ pc' = [pc EXCEPT ![w] = "load"] /\ job' = job
        /\ raced' = raced
    BY <1>2 DEF ColdPath, ledger
  <2>2. q \in table' /\ \A o \in table : o \in table' /\ gen'[o] = gen[o]
    BY <1>0, <1>2 DEF ColdPath, GetOrInsert, tableVars, IndInv, TypeOK
  <2>3. ASSUME NEW p \in Pids, ~raced[p], NEW v \in Writers, pc'[v] \in {"load", "cas"}, job[v].pid = p
        PROVE  p \in table' /\ ent'[v] = gen'[p]
    <3>1. CASE v = w
      BY <1>0, <2>1, <2>2, <2>3, <3>1
    <3>2. CASE v # w
      BY <1>0, <2>1, <2>2, <2>3, <3>2 DEF RaceFree
    <3> QED BY <3>1, <3>2
  <2> QED BY <2>1, <2>3 DEF RaceFree
<1>3. ASSUME NEW w \in Writers, TableGet(w), UNCHANGED ledger PROVE RaceFree'
  <2>1. UNCHANGED <<gen, table, job, raced>>
    BY <1>3 DEF TableGet, tableVars, ledger
  <2>2. CASE job[w].pid \in table
    BY <1>0, <1>3, <2>1, <2>2 DEF TableGet, RaceFree
  <2>3. CASE job[w].pid \notin table
    BY <1>0, <1>3, <2>1, <2>3 DEF TableGet, RaceFree
  <2> QED BY <2>2, <2>3
<1>4. ASSUME NEW w \in Writers, NEW j \in Jobs, LCall(w, j) PROVE RaceFree'
  BY <1>0, <1>4 DEF LCall, Call, tableVars, RaceFree
<1>5. ASSUME NEW w \in Writers, Load(w), UNCHANGED ledger PROVE RaceFree'
  BY <1>0, <1>5 DEF Load, tableVars, ledger, RaceFree
<1>6. ASSUME NEW w \in Writers, LCasOk(w) PROVE RaceFree'
  BY <1>0, <1>6 DEF LCasOk, CasOk, RaceFree
<1>7. ASSUME UNCHANGED <<gen, table, pc, job, ent, raced>> PROVE RaceFree'
  BY <1>7 DEF RaceFree
<1>8. ASSUME NEW w \in Writers, CasFail(w), UNCHANGED ledger
      PROVE  UNCHANGED <<gen, table, pc, job, ent, raced>>
  BY <1>8 DEF CasFail, tableVars, ledger
<1>9. ASSUME NEW a \in Auditors, LStartWalk(a) \/ LWalkStep(a)
      PROVE  UNCHANGED <<gen, table, pc, job, ent, raced>>
  BY <1>9 DEF LStartWalk, StartWalk, LWalkStep, WalkStep, NextEntry, ReadEntry, EndWalk,
              tableVars, writerVars, ledger
<1>10. ASSUME NEW r \in Reapers, LFinalLoad(r) PROVE UNCHANGED <<gen, table, pc, job, ent, raced>>
  BY <1>10 DEF LFinalLoad, FinalLoad, tableVars, writerVars
<1>11. CASE UNCHANGED lvars
  BY <1>7, <1>11 DEF lvars, vars, ledger
<1> QED
  BY <1>1, <1>2, <1>3, <1>4, <1>5, <1>6, <1>7, <1>8, <1>9, <1>10, <1>11 DEF LNext, LWriterStep

(***************************************************************************)
(* The inductive invariant of removal: cells have one owner, unraced PIDs  *)
(* are written in the table, and the two balances.                         *)
(***************************************************************************)
RemoveInv == CellsHaveOneOwner /\ RaceFree /\ NothingCountedTwice /\ LostOnlyInRace

(***************************************************************************)
(* Every step keeps the balances: a compare-and-swap adds at most its      *)
(* delta to both sides, everything else moves energy.                      *)
(***************************************************************************)
LEMMA BalanceStep ==
  ASSUME IndInv, IndInv', LedgerOK, RemoveInv, [LNext]_lvars
  PROVE  NothingCountedTwice' /\ LostOnlyInRace'
<1>0. \A p \in Pids : /\ Account(p) <= credited[p]
                      /\ ~raced[p] /\ credited[p] <= MaxU => Account(p) = credited[p]
                      /\ credited[p] \in Nat
  BY DEF RemoveInv, NothingCountedTwice, LostOnlyInRace, Account, LedgerOK
<1>1. SUFFICES ASSUME NEW p \in Pids
               PROVE  /\ Account(p)' <= credited'[p]
                      /\ ~raced'[p] /\ credited'[p] <= MaxU => Account(p)' = credited'[p]
  BY DEF NothingCountedTwice, LostOnlyInRace, Account
<1>2. ASSUME NEW w \in Writers, LCasOk(w)
      PROVE  /\ Account(p)' <= credited'[p]
             /\ ~raced'[p] /\ credited'[p] <= MaxU => Account(p)' = credited'[p]
  <2>1. /\ job[w].uj \in Nat /\ raced' = raced
        /\ credited'[job[w].pid] = credited[job[w].pid] + job[w].uj
        /\ p # job[w].pid => credited'[p] = credited[p]
    BY <1>2, CasOkCells DEF LCasOk
  <2>2. /\ Account(p) \in Nat /\ Account(p)' \in Nat
        /\ p # job[w].pid => Account(p)' = Account(p)
        /\ p = job[w].pid => Account(p)' <= Account(p) + job[w].uj
        /\ p = job[w].pid /\ p \in table /\ ent[w] = gen[p] /\ Live(p) + job[w].uj <= MaxU
              => Account(p)' = Account(p) + job[w].uj
    BY <1>2, AccountGrows DEF RemoveInv
  <2>3. CASE p # job[w].pid
    BY <1>0, <2>1, <2>2, <2>3
  <2>4. CASE p = job[w].pid
    <3>1. Account(p)' <= credited'[p]
      BY <1>0, <2>1, <2>2, <2>4
    <3>2. ASSUME ~raced'[p], credited'[p] <= MaxU PROVE Account(p)' = credited'[p]
      <4>1. p \in table /\ ent[w] = gen[p]
        BY <1>2, <2>1, <2>4, <3>2 DEF RemoveInv, RaceFree, LCasOk, CasOk
      <4>2. credited[p] <= MaxU /\ Account(p) = credited[p]
        BY <1>0, <2>1, <2>4, <3>2, MaxUAssumption
      <4>3. Live(p) \in Nat /\ returned[p] \in Nat /\ BeingRemoved(p) \in Nat
        BY LiveType, RemovedIs DEF LedgerOK, RemovedAsSum
      <4>4. Live(p) <= Account(p)
        BY <4>3 DEF Account
      <4>5. Live(p) + job[w].uj <= MaxU
        BY <2>1, <2>2, <2>4, <3>2, <4>2, <4>3, <4>4, MaxUAssumption
      <4> QED BY <2>1, <2>2, <2>4, <4>1, <4>2, <4>5
    <3> QED BY <3>1, <3>2
  <2> QED BY <2>3, <2>4
<1>3. CASE ~ \E w \in Writers : LCasOk(w)
  <2>1. credited' = credited /\ Account(p)' = Account(p)
    BY <1>3, OnlyCasWrites, AccountMoves
  <2>2. ~raced'[p] => ~raced[p]
    <3>1. ASSUME NEW r \in Reapers, NEW q \in Pids, LUnlink(r, q) PROVE ~raced'[p] => ~raced[p]
      <4>1. raced' = [raced EXCEPT ![q] = raced[q] \/ (q \in table /\ Held(q))]
        BY <3>1 DEF LUnlink
      <4> QED BY <4>1 DEF LedgerOK
    <3>2. CASE ~ \E r \in Reapers, q \in Pids : LUnlink(r, q)
      <4>1. raced' = raced
        BY <1>3, <3>2 DEF LNext, LWriterStep, LCall, LStartWalk, LWalkStep, LFinalLoad, ledger, lvars
      <4> QED BY <4>1
    <3> QED BY <3>1, <3>2
  <2> QED BY <1>0, <2>1, <2>2
<1> QED BY <1>2, <1>3

(***************************************************************************)
(* The invariant of removal holds in every state.                          *)
(***************************************************************************)
LEMMA RemoveInvariant == LSpec => []RemoveInv
<1>1. LInit => RemoveInv
  <2> SUFFICES ASSUME LInit PROVE RemoveInv
    OBVIOUS
  <2>1. IndInv
    BY InitIndInv DEF LInit
  <2>2. CellsHaveOneOwner /\ RaceFree
    BY DEF LInit, Init, CellsHaveOneOwner, RaceFree
  <2>3. ASSUME NEW p \in Pids PROVE Live(p) + returned[p] + BeingRemoved(p) = credited[p]
    <3>1. Live(p) = 0 /\ returned[p] = 0 /\ credited[p] = 0
      BY DEF LInit, Init, Live
    <3>2. \A r \in Reapers : OwedBy(p)[r] = 0
      BY DEF LInit, Init, OwedBy, Loading
    <3>3. SumOf(OwedBy(p), Reapers) = 0
      BY <3>2, SumZero, FiniteAssumption
    <3>4. BeingRemoved(p) = 0
      BY <2>1, <3>3, RemovedIs DEF RemovedAsSum
    <3> QED BY <3>1, <3>4
  <2>4. NothingCountedTwice /\ LostOnlyInRace
    BY <2>3 DEF NothingCountedTwice, LostOnlyInRace, LInit
  <2> QED BY <2>2, <2>4 DEF RemoveInv
<1>2. IndInv /\ IndInv' /\ LedgerOK /\ RemoveInv /\ [LNext]_lvars => RemoveInv'
  BY LedgerStep, OneOwnerStep, RaceFreeStep, BalanceStep DEF RemoveInv
<1> QED BY LedgerTypes, <1>1, <1>2, PTL DEF LSpec

(***************************************************************************)
(* With any number of concurrent removes, no delta is counted twice: what  *)
(* is in the table, what remove handed back and what it is about to hand   *)
(* back never exceed what was added.                                       *)
(***************************************************************************)
THEOREM RemoveNeverInvents == LSpec => []NothingCountedTwice
<1>1. RemoveInv => NothingCountedTwice
  BY DEF RemoveInv
<1> QED BY RemoveInvariant, <1>1, PTL

(***************************************************************************)
(* A delta goes missing only when a remove unlinks a PID while a writer    *)
(* holds its entry; otherwise the books balance exactly, across any number *)
(* of removals and re-insertions.                                          *)
(***************************************************************************)
THEOREM LossNeedsRace == LSpec => []LostOnlyInRace
<1>1. RemoveInv => LostOnlyInRace
  BY DEF RemoveInv
<1> QED BY RemoveInvariant, <1>1, PTL
===============================================================================
