------------------------------- MODULE Registry -------------------------------
(***************************************************************************)
(* AmalgafyRegistry (src/src/core/registry.rs): a SkipMap<u32, AtomicU64>  *)
(* shared by every thread of the daemon without a lock.                    *)
(*                                                                         *)
(* The threads are split by what they call: Writers call add_micro_joules  *)
(* (sampling loops and sync_registry), Auditors walk the table (snapshot   *)
(* and total_micro_joules), Reapers call remove.  A thread keeps no        *)
(* registry state between calls, so the split loses no interleaving.       *)
(*                                                                         *)
(* A step is one access to shared memory.  The SkipMap is a library: its   *)
(* get, get_or_insert, remove and "next entry after this key" are atomic   *)
(* steps, as crossbeam documents them.  An Entry keeps its node alive      *)
(* after the node is unlinked, so a thread may still write to a cell that  *)
(* no longer is in the table; this is why cells are named by a PID and a   *)
(* generation.                                                             *)
(***************************************************************************)
EXTENDS SatArith, FiniteSets

CONSTANTS Pids,      \* the PIDs: naturals, for the SkipMap is ordered
          Deltas,    \* the amounts writers add
          Writers, Auditors, Reapers,
          MaxGen     \* bound: cells ever created for one PID

ASSUME RegistryAssumption ==
  /\ Pids \subseteq Nat /\ Pids # {}
  /\ Deltas \subseteq U64 /\ Deltas # {}
  /\ MaxGen \in Nat \ {0}

\* a PID is a u32 and a process has finitely many threads
ASSUME FiniteAssumption == IsFiniteSet(Pids) /\ IsFiniteSet(Reapers)

VARIABLES
  gen,      \* PID -> generation of its newest cell, 0 before the first
  table,    \* the PIDs whose newest cell is in the SkipMap
  value,    \* PID -> generation -> the AtomicU64
  pc, job, ent, cur, ret,       \* writers: control, arguments, the Entry
                                \*   held, `current`, last returned total
  apc, at, aent, seen, total,   \* auditors: control, last key, its Entry,
                                \*   the pairs collected, the running sum
  rpc, rpid, rent, rret         \* reapers: control, argument, the removed
                                \*   Entry, what the last call returned

tableVars == <<gen, table, value>>
writerVars == <<pc, job, ent, cur, ret>>
auditorVars == <<apc, at, aent, seen, total>>
reaperVars == <<rpc, rpid, rent, rret>>
vars == <<gen, table, value, pc, job, ent, cur, ret,
          apc, at, aent, seen, total, rpc, rpid, rent, rret>>

Gens == 1 .. MaxGen
Jobs == [pid : Pids, uj : Deltas]
NotSeen == -1       \* a PID a walk has not met
BeforeFirst == -1   \* an iterator that has not yielded yet
None == -1          \* Option::None from remove

Init ==
  /\ gen = [p \in Pids |-> 0]
  /\ table = {}
  /\ value = [p \in Pids |-> [g \in Gens |-> 0]]
  /\ pc = [w \in Writers |-> "idle"]
  /\ job = [w \in Writers |-> CHOOSE j \in Jobs : TRUE]
  /\ ent = [w \in Writers |-> 0]
  /\ cur = [w \in Writers |-> 0]
  /\ ret = [w \in Writers |-> 0]
  /\ apc = [a \in Auditors |-> "idle"]
  /\ at = [a \in Auditors |-> BeforeFirst]
  /\ aent = [a \in Auditors |-> 0]
  /\ seen = [a \in Auditors |-> [p \in Pids |-> NotSeen]]
  /\ total = [a \in Auditors |-> 0]
  /\ rpc = [r \in Reapers |-> "idle"]
  /\ rpid = [r \in Reapers |-> CHOOSE p \in Pids : TRUE]
  /\ rent = [r \in Reapers |-> 0]
  /\ rret = [r \in Reapers |-> None]

-------------------------------------------------------------------------------
(* add_micro_joules *)

Call(w, j) ==
  /\ pc[w] = "idle"
  /\ pc' = [pc EXCEPT ![w] = "get"]
  /\ job' = [job EXCEPT ![w] = j]
  /\ UNCHANGED <<tableVars, ent, cur, ret, auditorVars, reaperVars>>

\* the fast path: table.get finds the PID, or the cold path is taken
TableGet(w) ==
  LET p == job[w].pid
  IN  /\ pc[w] = "get"
      /\ IF p \in table
         THEN /\ pc' = [pc EXCEPT ![w] = "load"]
              /\ ent' = [ent EXCEPT ![w] = gen[p]]
         ELSE /\ pc' = [pc EXCEPT ![w] = "insert"]
              /\ UNCHANGED ent
      /\ UNCHANGED <<tableVars, job, cur, ret, auditorVars, reaperVars>>

\* mutant: SkipMap::insert in place of get_or_insert, which evicts a cell
\* another writer may already hold
InsertEvicts(p) ==
  /\ gen[p] < MaxGen
  /\ gen' = [gen EXCEPT ![p] = @ + 1]
  /\ table' = table \cup {p}
  /\ value' = [value EXCEPT ![p][gen[p] + 1] = 0]

\* SkipMap::get_or_insert: the value is inserted only if the key is absent
GetOrInsert(p) ==
  IF p \in table
  THEN UNCHANGED tableVars
  ELSE /\ gen[p] < MaxGen
       /\ gen' = [gen EXCEPT ![p] = @ + 1]
       /\ table' = table \cup {p}
       /\ value' = [value EXCEPT ![p][gen[p] + 1] = 0]

ColdPath(w) ==
  LET p == job[w].pid
  IN  /\ pc[w] = "insert"
      /\ GetOrInsert(p)
      /\ ent' = [ent EXCEPT ![w] = gen'[p]]
      /\ pc' = [pc EXCEPT ![w] = "load"]
      /\ UNCHANGED <<job, cur, ret, auditorVars, reaperVars>>

\* saturating_add: `let mut current = cell.load(Acquire)`
Load(w) ==
  /\ pc[w] = "load"
  /\ cur' = [cur EXCEPT ![w] = value[job[w].pid][ent[w]]]
  /\ pc' = [pc EXCEPT ![w] = "cas"]
  /\ UNCHANGED <<tableVars, job, ent, ret, auditorVars, reaperVars>>

\* mutants: the sum wraps, or is not bounded at all
unbounded_next(w) == cur[w] + job[w].uj
wrapped_next(w) == wrapping_add(cur[w], job[w].uj)

\* `current.saturating_add(delta)`
next_total(w) == saturating_add(cur[w], job[w].uj)

\* mutant: a plain store in place of the compare-and-swap
BlindStore(w) ==
  /\ pc[w] = "cas"
  /\ value' = [value EXCEPT ![job[w].pid][ent[w]] = next_total(w)]
  /\ ret' = [ret EXCEPT ![w] = next_total(w)]
  /\ pc' = [pc EXCEPT ![w] = "idle"]
  /\ UNCHANGED <<gen, table, job, ent, cur, auditorVars, reaperVars>>

\* the compare-and-swap succeeds and the call returns `next`
CasOk(w) ==
  LET p == job[w].pid
      next == next_total(w)
  IN  /\ pc[w] = "cas"
      /\ value[p][ent[w]] = cur[w]
      /\ value' = [value EXCEPT ![p][ent[w]] = next]
      /\ ret' = [ret EXCEPT ![w] = next]
      /\ pc' = [pc EXCEPT ![w] = "idle"]
      /\ UNCHANGED <<gen, table, job, ent, cur, auditorVars, reaperVars>>

\* mutant: `Err(_) => {}`, the loop keeps its stale `current`
KeepStaleCurrent(w) ==
  /\ pc[w] = "cas"
  /\ value[job[w].pid][ent[w]] # cur[w]
  /\ UNCHANGED vars

\* another writer came between: retry from what the cell holds now.  (A
\* spurious failure of the weak CAS observes `current` again: a stutter.)
CasFail(w) ==
  LET observed == value[job[w].pid][ent[w]]
  IN  /\ pc[w] = "cas"
      /\ observed # cur[w]
      /\ cur' = [cur EXCEPT ![w] = observed]
      /\ UNCHANGED <<tableVars, pc, job, ent, ret, auditorVars, reaperVars>>

WriterStep(w) == TableGet(w) \/ ColdPath(w) \/ Load(w) \/ CasOk(w) \/ CasFail(w)

-------------------------------------------------------------------------------
(* snapshot and total_micro_joules: one walk of the table by ascending key. *)
(* They differ in what they keep of each pair; the model keeps both, the    *)
(* pairs in seen and the sum in total.                                      *)

StartWalk(a) ==
  /\ apc[a] = "idle"
  /\ apc' = [apc EXCEPT ![a] = "next"]
  /\ at' = [at EXCEPT ![a] = BeforeFirst]
  /\ seen' = [seen EXCEPT ![a] = [p \in Pids |-> NotSeen]]
  /\ total' = [total EXCEPT ![a] = 0]
  /\ UNCHANGED <<tableVars, writerVars, aent, reaperVars>>

\* mutant: the iterator looks for a key not below the last one
NotBehind(a) == {p \in table : p >= at[a]}
\* mutant: the iterator skips a key
SkipsOne(a) == {p \in table : p > at[a] + 1}

\* the keys the iterator has not passed yet
Ahead(a) == {p \in table : p > at[a]}

NextEntry(a) ==
  /\ apc[a] = "next"
  /\ \E p \in Ahead(a) :
       /\ \A q \in Ahead(a) : p <= q
       /\ at' = [at EXCEPT ![a] = p]
       /\ aent' = [aent EXCEPT ![a] = gen[p]]
  /\ apc' = [apc EXCEPT ![a] = "load"]
  /\ UNCHANGED <<tableVars, writerVars, seen, total, reaperVars>>

ReadEntry(a) ==
  LET uj == value[at[a]][aent[a]]
  IN  /\ apc[a] = "load"
      /\ seen' = [seen EXCEPT ![a][at[a]] = uj]
      /\ total' = [total EXCEPT ![a] = saturating_add(@, uj)]
      /\ apc' = [apc EXCEPT ![a] = "next"]
      /\ UNCHANGED <<tableVars, writerVars, at, aent, reaperVars>>

EndWalk(a) ==
  /\ apc[a] = "next"
  /\ Ahead(a) = {}
  /\ apc' = [apc EXCEPT ![a] = "idle"]
  /\ UNCHANGED <<tableVars, writerVars, at, aent, seen, total, reaperVars>>

WalkStep(a) == NextEntry(a) \/ ReadEntry(a) \/ EndWalk(a)

-------------------------------------------------------------------------------
(* remove *)

\* mutant: the entry is read but stays in the table
KeepLinked(r, p) ==
  /\ rpc[r] = "idle"
  /\ p \in table
  /\ rpid' = [rpid EXCEPT ![r] = p]
  /\ rent' = [rent EXCEPT ![r] = gen[p]]
  /\ rpc' = [rpc EXCEPT ![r] = "load"]
  /\ UNCHANGED <<tableVars, rret, writerVars, auditorVars>>

\* table.remove unlinks the entry ...
Unlink(r, p) ==
  /\ rpc[r] = "idle"
  /\ rpid' = [rpid EXCEPT ![r] = p]
  /\ IF p \in table
     THEN /\ gen[p] < MaxGen
          /\ table' = table \ {p}
          /\ rent' = [rent EXCEPT ![r] = gen[p]]
          /\ rpc' = [rpc EXCEPT ![r] = "load"]
          /\ UNCHANGED rret
     ELSE /\ rret' = [rret EXCEPT ![r] = None]
          /\ UNCHANGED <<table, rpc, rent>>
  /\ UNCHANGED <<gen, value, writerVars, auditorVars>>

\* ... and the caller gets what its cell holds afterwards
FinalLoad(r) ==
  /\ rpc[r] = "load"
  /\ rret' = [rret EXCEPT ![r] = value[rpid[r]][rent[r]]]
  /\ rpc' = [rpc EXCEPT ![r] = "idle"]
  /\ UNCHANGED <<tableVars, writerVars, auditorVars, rpid, rent>>

-------------------------------------------------------------------------------
Next ==
  \/ \E w \in Writers : WriterStep(w) \/ \E j \in Jobs : Call(w, j)
  \/ \E a \in Auditors : StartWalk(a) \/ WalkStep(a)
  \/ \E r \in Reapers : FinalLoad(r) \/ \E p \in Pids : Unlink(r, p)

Spec == Init /\ [][Next]_vars

-------------------------------------------------------------------------------
TypeOK ==
  /\ gen \in [Pids -> 0 .. MaxGen]
  /\ table \subseteq Pids
  /\ value \in [Pids -> [Gens -> U64]]
  /\ pc \in [Writers -> {"idle", "get", "insert", "load", "cas"}]
  /\ job \in [Writers -> Jobs]
  /\ ent \in [Writers -> 0 .. MaxGen]
  /\ cur \in [Writers -> U64]
  /\ ret \in [Writers -> U64]
  /\ apc \in [Auditors -> {"idle", "next", "load"}]
  /\ at \in [Auditors -> Pids \cup {BeforeFirst}]
  /\ aent \in [Auditors -> 0 .. MaxGen]
  /\ seen \in [Auditors -> [Pids -> U64 \cup {NotSeen}]]
  /\ total \in [Auditors -> U64]
  /\ rpc \in [Reapers -> {"idle", "load"}]
  /\ rpid \in [Reapers -> Pids]
  /\ rent \in [Reapers -> 0 .. MaxGen]
  /\ rret \in [Reapers -> U64 \cup {None}]

(***************************************************************************)
(* An Entry in somebody's hands always names a cell that was created, and  *)
(* a cell not created yet is 0.  With TypeOK this is inductive: no step    *)
(* ever dereferences an Entry that does not exist.                         *)
(***************************************************************************)
EntriesExist ==
  /\ \A p \in table : gen[p] > 0
  /\ \A w \in Writers : pc[w] \in {"load", "cas"} => ent[w] \in 1 .. gen[job[w].pid]
  /\ \A a \in Auditors : apc[a] = "load" => /\ at[a] \in Pids
                                            /\ aent[a] \in 1 .. gen[at[a]]
  /\ \A r \in Reapers : rpc[r] = "load" => rent[r] \in 1 .. gen[rpid[r]]

FreshCellsAreZero == \A p \in Pids, g \in Gens : g > gen[p] => value[p][g] = 0

IndInv == TypeOK /\ EntriesExist /\ FreshCellsAreZero

\* What get(p) would return, a missing PID counting as 0.
Live(p) == IF p \in table THEN value[p][gen[p]] ELSE 0

(***************************************************************************)
(* No step ever lowers a cell: add_micro_joules "saturates at u64::MAX so  *)
(* long-running daemons never overflow silently", and a writer whose       *)
(* `current` is stale never overwrites what another writer stored.         *)
(***************************************************************************)
CellsNeverDecrease ==
  [][\A p \in Pids, g \in Gens : value'[p][g] >= value[p][g]]_vars

(***************************************************************************)
(* "Every concurrent caller sees the same canonical AtomicU64 slot": as    *)
(* long as nobody calls remove, a PID gets one cell, and every writer that *)
(* holds an Entry holds the one that is in the table, whoever won the race *)
(* to insert it.                                                           *)
(***************************************************************************)
OneCanonicalCell ==
  /\ \A p \in Pids \ table : gen[p] = 0
  /\ \A w \in Writers : pc[w] \in {"load", "cas"} =>
       job[w].pid \in table /\ ent[w] = gen[job[w].pid]

(***************************************************************************)
(* As long as nobody calls remove, the lock-free add_micro_joules, with    *)
(* its get, its get_or_insert and its compare-and-swap loop, implements    *)
(* the atomic registry: each call takes effect once, at its successful     *)
(* compare-and-swap, on the one cell its PID ever has.                     *)
(***************************************************************************)
Atomic == INSTANCE AtomicRegistry WITH
            energy <- [p \in Pids |-> Live(p)],
            busy <- [w \in Writers |-> pc[w] # "idle"]

ImplementsAtomic == Atomic!Spec
===============================================================================
