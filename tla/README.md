# TLA+ models of the Micro-Joule Attribution Engine

The engine charges the energy a machine burns to the processes that burnt it.
A provider turns a hardware counter into energy (RAPL on Linux, NVML on Windows,
IOReport on Apple silicon), a sampling loop splits each tick's energy over the
active PIDs, a lock-free registry accumulates it per PID, and a signer seals the
result together with an identity of the host. This directory models all of it,
checks it with TLC on small instances, and proves with TLAPS, for instances of
any size (section 5 says under which hypotheses), every safety property that a
passing run checks.

Paths below are relative to the repository (`src/core/registry.rs` etc.).

## 1. Inventory

| component | state | operations | hard behaviour | what makes it correct |
|---|---|---|---|---|
| `AmalgafyRegistry` (`src/core/registry.rs`) | `SkipMap<u32, AtomicU64>` shared by all threads | `add_micro_joules`, `get`, `remove`, `total_micro_joules`, `snapshot` | racing first insertions, compare-and-swap under contention, walks beside writers, remove beside add, saturation | no delta lost or counted twice; cells never go down; every call returns; what a walk may and may not show |
| attribution math (`src/core/attribution.rs`) | none | six integer functions | truncation, saturation, inputs measured apart | equals the exact quotient; never more than the energy there was |
| sampling loop (`src/core/provider.rs`) | `previous_snapshot`, `cumulative_delta_uj`, the tick under way | tick ok / failed, split, heartbeat, drop | failing telemetry, clock stepping back, loops dropped and restarted, any PID list | the split hands out exactly the delta; no backfill over a gap; errors never end it |
| `LinuxProvider` (`src/providers/linux.rs`) | `rapl_state`, `active_pids` (PID to in-flight fences), `pending` | `sample_power_state`, `mark_pid_active`, `mark_pid_idle`, `correlate_fence`, `enqueue_attribution`, `sync_registry` | counter wraps, unknown range, failed reads, late fences, PID reuse | never credits energy that was not burnt; counts match the kernel's fences; every attribution arrives once |
| `WindowsProvider` (`src/providers/windows.rs`) | `busy_state.last_pids`, `compute_scratch`, `pending` | `sample_power_state`, `sample_window_energy`, `attribute_window`, `list_compute_processes`, `enqueue_attribution`, `sync_registry` | the process list changes between two NVML questions, NVML errors, the buffer must grow | windows add up; a tick is split over the list it got; a query returns |
| `AppleSiliconProvider` (`src/providers/apple_silicon.rs`) | `previous_samples` (IOReport), `last_observed_at_ns`, idle baseline, active PIDs, `pending` | `sample_energy_model_delta`, `sample_power_state`, `set_active_pids`, `set_idle_power_uw`, `attribute_joules_to_pid`, `sync_registry` | a failed sample between two others, channels reset or unreadable, samples slid without the timestamp | samples and timestamp stay in step; power never overstated; ticks credit what was burnt |
| `AmalgafySigner`, manifest (`src/core/signer.rs`, `manifest.rs`) | key, version | `seal`, `verify`, `EnergyManifest::sign`, `verify` | shared keys, restarts, documents mixed up in a store, ties of the sort keys | what verifies was issued as it stands; same records, same payload |
| `HardwareIdentity` (`src/core/hardware.rs`, `WindowsProvider::new`) | the process-wide NVML `Once` | `probe` | fallbacks of fallbacks, sources that come and go | a fingerprint names one host or is flagged Synthetic, and is stable per source |

How they interact: a provider's `start_sampling_loop` borrows the provider
mutably and the registry shared, so one loop owns its provider for as long as
the future lives while many loops, `sync_registry` calls and auditors share the
registry. The main program reaches the provider only when no loop has it. The
future suspends only at `interval.tick().await`, so it can be dropped only
there. A daemon probes its identity, reads the registry and seals the records;
the seals outlive it, everything else is lost when it stops.

## 2. Modules

| module | models | composed from |
|---|---|---|
| `SatArith` | u64 with its largest value `MaxU`: saturating add, sub, mul | |
| `AtomicRegistry` | abstract specification: `add_micro_joules` in one step | `SatArith` |
| `Registry` | the registry, one action per access to shared memory | `SatArith`; refines `AtomicRegistry` |
| `RegistryLedger` | history variables: what was added, what `remove` returned, whether a remove raced an add | `Registry` |
| `MCRegistry` | what the registry holds in all, and what TLC needs to run it | `RegistryLedger` |
| `Attribution` | the six functions | `SatArith` |
| `SamplingLoop` | the loop's state and steps | `Attribution` |
| `AnyProvider` | the loop over an arbitrary provider, and what the energy functions owe it | `SamplingLoop` |
| `PendingQueue` | `pending` and `sync_registry` | `SamplingLoop` |
| `LinuxProvider`, `WindowsProvider`, `AppleSiliconProvider` | the providers and the world they measure | `PendingQueue` |
| `HardwareIdentity` | which fingerprint a probe yields when only some sources can be read | |
| `Signer` | sort, canonical bytes, symbolic Ed25519, the legacy manifest | |
| `SealStore` | daemons on several hosts and the store of their documents | `HardwareIdentity`, `Signer` |
| `MCSealStore` | the records that TLC's daemons seal | `SealStore` |
| `SatArithProofs` | proofs: saturation, division, sums over finite sets | `SatArith` |
| `SamplingProofs` | proofs: the energy functions, one step of the loop, one step of the queue | `PendingQueue`, `SatArithProofs` |
| `RegistryProofs` | proofs: registry, refinement, ledger | `MCRegistry`, `SatArithProofs` |
| `LoopProofs` | proofs: the loop over any provider | `AnyProvider`, `SamplingProofs` |
| `LinuxProofs`, `WindowsProofs`, `AppleProofs` | proofs: the providers | the provider, `SamplingProofs` |
| `SealProofs` | proofs: seals, manifests, identities | `SealStore` |

### Registry

A cell is named by its PID and a generation, because an `Entry` keeps its node
alive after the node is unlinked: a writer can go on adding to a cell that left
the table. `gen[p]` is the newest generation, `table` the PIDs in the SkipMap,
`value[p][g]` the atomics. `add_micro_joules` is `Call`, `TableGet` (fast path),
`ColdPath` (`get_or_insert`), `Load`, then `CasOk` or `CasFail`; a spurious
failure of the weak compare-and-swap observes the value it had and is a stutter.
`snapshot` and `total_micro_joules` are the same walk (`StartWalk`, `NextEntry`,
`ReadEntry`, `EndWalk`); the model keeps the pairs of the one and the sum of the
other. `remove` is `Unlink` and `FinalLoad`. The SkipMap's own operations are
atomic, as crossbeam documents them; its internals are not modelled. `get` is
the state function `Live`; `len` and `is_empty` only read. Memory ordering: every
access is Acquire or AcqRel on a single cell and no property relates an order
between cells except through the walk, so interleaving semantics is adequate.

### Sampling loop

`pc` is "main" when no loop runs, "await" between ticks, "credit" in a split.
`TickErr` and `TickOk` are the two outcomes of `sample_power_state`; `Credit` is
one round of the `for` loop and `Heartbeat` closes the tick. The registry is
atomic here, which `ImplementsAtomic` justifies: the map `energy` is the
abstract registry's. `AnyProvider` lets every sample carry any power and any
list of PIDs, empty, unsorted or with repetitions.

### Linux

The world is `burnt` (energy since boot), the wall clock, the kernel's fences
per PID, split into those of the live process (`busy`) and of exited ones
(`orphans`), and the event queue between the probe and main (`ring`), which is
in order but drops an event when it is full. The sysfs counter shows what was
burnt since it was last reset (`base`), modulo the range. `SampleOk` is a tick with
`read_rapl_power_uw`; `SampleErr` leaves `rapl_state` alone. `OnInit`, `OnSignal`
and `OnExit` are main's handlers and need `pc = "main"`.

### Windows

`sample_compute_processes` asks NVML until the buffer is large enough, and the
list may change between questions, so every question is a step: `AskAgain`
(insufficient size), `AskErr` (any other error) or the answer, in which the rest
of the calling method runs. `Vec::reserve` is modelled by its contract: it does
nothing when `len + additional` fits. The wall clock may step back
(`Elapse`; windows use saturating differences). `last_sample_ns` is written and never read
and is left out, and so are memory sizes and instance ids of the processes.
`WindowsProvider::new` is part of `HardwareIdentity`.

### Apple silicon

`previous_samples` and `last_observed_at_ns` are two halves of one reading, but
they are written at different places: `sample_energy_model_delta` (public) slides
the samples, `sample_power_state` calls it and then stamps the time. `SampleErr`
is any failing IOReport call; all of them come before the first assignment. The
world has a counter in nJ per channel. A channel may be reset, and a sample may
see only a subset `seen` of the channels, the others being skipped while the
samples slide for all of them. The first reading seeds the samples and reports
nothing. `main` may take samples of its own between two loops.

### Identity and seals

`HardwareIdentity` is the decision of `probe`: the set of identities it may
return, given the sources that can be read at that moment (`can`). A machine id,
a serial and a uuid are taken to be unique to the host; a host name is one of
`Names`, which hosts may share. `nvml` is the result of the `Once`, per process. `Signer` encodes a payload as the tuple of its
values in key order, which is what canonical JSON keeps of it; a signature is
the pair of key and bytes. `sort_by` is defined by rank, ties in the caller's
order, as `slice::sort_by` is stable. `SealStore` starts daemons (again after a
crash, `Start` on a host that is up), probes, seals, signs manifests; `Mixup` puts
a copy into the store in which one field, of the document or its payload, comes
from another document.

## 3. Runs

| run | checks | bounds |
|---|---|---|
| `registry_adds` | `NoDeltaLost`, `SnapshotBetweenStartAndEnd`, `TotalMissesNothing`, `OneCanonicalCell`, `ImplementsAtomic`, `EveryAddReturns`, `EveryWalkReturns` | 3 writers (two lose a race one wins), 2 PIDs (a walk has something before and behind it), 3 calls of 2 with `MaxU = 3`, so the second add saturates |
| `registry_reap` | `TotalIsLowerBound`, `LostOnlyInRace`, `NothingCountedTwice`, `CellsNeverDecrease` | 2 writers, a walk and a reaper, 2 generations per PID, saturation at 2 |
| `loop` | `SplitPreservesTotal`, `RegistryHoldsTotal`, `LoopSurvivesErrors`, `WindowEnergyIsExact`, `ModelStaysWithinBusyTime`, `SharesStayWithinDelta` | lists up to 3 of 2 PIDs (repetitions), deltas up to 5 (remainder 2 when 5 is split over 3), clock readings 0, 2 and 5, one step back. The energy functions are evaluated on every power and share up to 5, saturated and not, and over the times 0, 2 and 5 with a "second" of 3: none, part of a second, a second and a part |
| `linux_rapl` | `NeverFabricates`, `NoBackfill`, `TickLosesLittle` | range 4 and 8 uJ burnt (wraps, also twice), bursts 0, 1 and 4, times to 4 with a "second" of 3 (divisions round), one fault (the clock steps back or the counter is reset), range file present or missing |
| `linux_fences` | `EveryAttributionArrivesOnce`, `ActiveCountsFences` | 2 PIDs, 2 fences, 1 exit, 1 lost event |
| `linux_reuse` (violation) | `SignalKeepsBusyPid` | 1 PID, 2 fences, 1 exit |
| `linux_frozen` (violation) | `IdlePidLeavesSplit` | 1 PID, 1 fence, fairness |
| `windows_attribute` | `WindowsAddUp`, `SplitIsFresh` | up to 2 processes over a buffer of 1 (it must grow), one change of the list or one step back of the clock, a PID may be listed twice |
| `windows_spins` (violation) | `EveryQueryReturns` | 3 processes, buffer of 2, fairness |
| `apple` | `NeverFabricates`, `NoBackfill`, `PowerNeverOverstated`, `TickLosesLittle`, `DebugAssertHolds` | 2 channels, bursts of 0 or 3 nJ with 2 nJ to the uJ (every channel truncates), 6 nJ in all, clock readings 0 (the epoch, taken for "never"), 1, 2, 6, one fault of any kind, two baselines |
| `sealing` | `VerifiedSealWasSealed`, `VerifiedManifestWasSigned`, `IdentityBindsHost`, `FingerprintIsStable`, `SealIgnoresOrderOfKeys` | 2 hosts of any system, 2 keys (shared or not), 2 host names, 2 processes, 2 probes, 2 documents of up to 2 records, one mixed-up copy: a property here speaks of at most two documents. The records of a behaviour are equal or differ in the PID only, in the start only or in the end only (`OneDiffers`), so that each sort key decides alone |
| `seal_ties` (violation) | `SealIgnoresOrder` | 1 host, 2 records of one PID and window (`NoneDiffers`) that differ in energy |

The type invariants are checked by `registry_adds`, `linux_rapl`, `windows_attribute`, `apple` and `sealing`
(`StoreTypeOK`); the one of the loop is proved (`LoopIsTyped`). Deadlock checking
is off in the two `MCRegistry` and the two `MCSealStore` runs, where bounds on
calls and documents end the behaviour; everything else can always go on.
`sealing` declares hosts, keys and host names symmetric: they are compared only for
equality, and the run has no liveness property. The registry has no symmetry
declared: PIDs are ordered, and the run with the writers checks liveness.

What the passing runs say, in words:

* Adds: racing first insertions always meet on one cell, no compare-and-swap
  overwrites an add it has not seen, a sum saturates and never wraps.
* Removal: energy is lost only if a remove unlinked a cell while a writer held
  it (`LostOnlyInRace`), and nothing a reaper got back is still in the table
  (`NothingCountedTwice`).
* Walks: PID by PID between the registry at the walk's start and at its end.
* Split: exact, for every list of PIDs, in the middle of a split too.
* RAPL: wraps are credited to within rounding, a gap is never charged to the
  tick after it, and nothing is credited that was not burnt. A reset of the
  counter is taken for a wrap; `NeverFabricates` states what then still holds.
* Fences: each lost event puts the count off by at most one fence.
* IOReport: however samples fail, slide alone, or lose a channel, the power of a
  snapshot never exceeds what was burnt since the last stamp, and the
  `debug_assert` of `sample_power_state` holds.
* Seals: no field of a verifying document can come from another one, an identity
  that two hosts share is flagged `Synthetic`, and the order in which the caller
  lists the records does not matter if no two agree in PID, start and end.

### Where code and comments disagree

With a run that shows it:

1. A signalled fence *can* mark a busy PID idle (`linux.rs:140`): a fence of an
   exited process, signalled after its PID was reused (`linux_reuse`).
2. While a loop runs, the active set cannot change (`linux.rs:71`,
   `provider.rs:154`), so a PID that is done keeps its share (`linux_frozen`).
3. Two records of one PID and window are signed in the caller's order, so equal
   states may give different seals (`signer.rs:131`; `seal_ties`).
4. The NVML query can spin for ever (`windows.rs:420`): `reserve` counts from the
   length, not from the capacity. A buffer of 32 that is empty never grows for 33
   to 64 processes (`windows_spins`).

Met while modelling, without a run:

* `remove` does not return the *final* attribution (`registry.rs:96`): an add that
  found the entry before the unlink lands after the load. `LostOnlyInRace` is
  what holds.
* `snapshot` is a mixture of moments rather than a *consistent* view
  (`registry.rs:13`). `SnapshotBetweenStartAndEnd` is what it gives. A seal's
  total and its records are read by separate walks and may differ likewise.
* The remainder goes to the first PIDs of the list, which are the lowest
  (`provider.rs:210`) only if the provider sorts it; NVML's list is not sorted.
* `sample_window_energy` and `attribute_window` return early on an idle GPU without
  clearing `last_pids`, so `active_pids` is not always "the most recent" snapshot
  (`windows.rs:518`); ticks refresh the list first (`SplitIsFresh`).
* Two hosts that both fall back to `synthetic` need not "produce different
  identities" (`hardware.rs:94-98`): hosts may have one name ("localhost", cloned
  images) or an unreadable one ("unknown-host") and daemons of one PID. A GPU
  with neither serial nor UUID yields "nvml-device-0" everywhere. What holds is
  that such an identity says `source == Synthetic`, which auditors are told to
  flag; that is `IdentityBindsHost`.
* With several GPUs and no machine id the fingerprint is whichever GPU `read_dir`
  lists first; `FingerprintIsStable` exempts it.
* The first `nvmlInit_v2` of a process decides for good: a driver that comes up
  later is not seen before a restart.

## 4. Fairness

* `LFairSpec`: weak fairness of every writer's and every walk's next step. A
  thread in a call is scheduled again; for the weak compare-and-swap it also
  says that it does not fail spuriously for ever. Nobody has to start a call.
* `AnyProvider!FairSpec`: the interval goes on ticking, a tick runs to its end.
  The telemetry need not come back and the loop may be dropped; the property
  asks only about behaviours in which neither happens for ever.
* `LinuxProvider!FairSpec`: strong fairness of main's event handling (it gets
  the provider again and again or not at all), weak fairness of ticks and of
  fences being signalled. A violation under it is one the scheduler cannot cure.
* `WindowsProvider!FairSpec`: the thread in a call keeps running.

## 5. Proofs

For arbitrary finite sets of PIDs, channels and GPUs, arbitrary sets of writers,
auditors, hosts and keys, and any bounds. Each theorem below is listed with the
invariant it needs and why.

### Shared lemmas

* Division: `QuotientIsUnique` turns a division into two inequalities;
  `DivisionBounds`, `QuotientGrows` and `FactorIsBounded` are what the energy
  functions need. `SplitWindow` shows that whole seconds and rest add up to the
  undivided window, `PowerAndBack` that energy turned into power and back never
  gains and loses less than 1 uJ plus 1 uJ per second.
* Sums: the properties add up a function over a finite set (`MapThenSumSet`, here
  `SumOf`). Its definition is a CHOOSE of a recursive function, and the library's
  induction over finite sets takes a predicate the provers cannot instantiate.
  `LeastSet` replaces it: a non-empty collection of subsets of a finite set has a
  member none of whose proper subsets belongs to it. Applied to the subsets on
  which a claim fails it gives `FoldIsUnique`, `FoldExists`, `SumUnfolds`, and from
  those what the proofs use: `SumRemove`, `SumChange` (one term changes),
  `SumMonotone`, `SumPlus`, `SumSupport`, `SumPartition`.
* Queue: `Within(x, y, z)` says that registry and queue together hold at least
  what loops, records and `x` were worth, and at most `y` more, as long as the sum
  is within `z`. `PushStep`, `SyncStep` and `CreditArrives` show how an enqueue, a
  drain and a round of the split carry it. Each provider picks its `x`, `y`, `z`.

### Registry (`RegistryProofs`)

* `RegistryInvariant`: `Spec => []IndInv`. `TypeOK` alone is not inductive: the
  step that loads `value[p][ent]` has a value in u64 only if the entry exists.
  `EntriesExist` says so for writers, walks and reapers (the generation held is
  between 1 and `gen[p]`), and `FreshCellsAreZero` makes a new cell start at 0.
  One lemma per conjunct, one step per action. `TypeCorrect` follows.
* `CellsOnlyGrow`: `[][...]` from the invariant; a swap stores a saturating sum
  of the value it just compared, an insertion resets a cell that is 0 already.
* `CanonicalSlot`, `NothingLost`, `Refinement`, under `Reapers = {}`: one cell per
  PID; a successful swap changes `Live` by a clamped sum and clamping commutes
  with the sum (`ClampAdd`); `CasOk` is `Apply`, `Call` is `Invoke`, everything else
  stutters.
* `LedgerTypeCorrect`: the ledger's sums stay numbers (`LedgerOK`).
* `TotalBoundedBySpent`: a walk in progress has collected nothing ahead of its
  position, at most `credited` for any PID, and its total is the clamped sum of
  what it has collected (`WalkInv`). No removal breaks this, so no hypothesis.
* `SnapshotIsBracketed`, `TotalCoversStart`, under `Reapers = {}`: `SnapshotInv` adds
  that what the walk has passed covers `base` (a key it passed without meeting it
  had no cell, so nothing was credited to it before the walk began), and that
  the entry it is about to load is the one in the table.
* `RemoveNeverInvents`, `LossNeedsRace`: with reapers. The conserved quantity is
  the live cell, what reapers got back and the cells they have unlinked and not
  read. It can be stated only because a cell has one owner: either it is in the
  table, or at most one reaper is about to read it (`CellsHaveOneOwner`). Under
  `~raced[p]` a writer's entry is always the live one (`RaceFree`), so a swap adds
  to the live cell; otherwise it may add to one that no one will read, which
  loses energy and never invents it.

`Reapers = {}` is needed where it stands: with `remove` a writer can finish an add
on a cell that has left the table, and a walk can miss a PID it began with, so
those statements are false. `registry_reap` checks what holds instead, and the
theorems on `TotalIsLowerBound`, `LostOnlyInRace` and `NothingCountedTwice` prove it.

### Loop (`LoopProofs`)

* `TotalPreserved`: the inductive invariant adds the loop's types and that in a
  split the energy still owed is `share * Len(todo) + remainder`
  (`SplitOwesDelta`). `LoopIsTyped` follows.
* `BucketsHoldTotal`: the buckets add up to what was handed over; one round of
  the split changes one bucket (`SumChange`), and no bucket saturates while the
  sum is below `MaxU`.
* `WindowsAreExact`, `ModelIsBounded`, `SharesAreBounded`: the integer functions
  against the exact quotient.

### Linux (`LinuxProofs`)

* `LinuxIsTyped`, `LinuxAttributionsArrive`: types and `Within(0, 0, MaxU)`. That
  `active_pids` is a list of PIDs needs the ranks of a finite set to be a
  bijection (`ActivePidsAreListed`).
* `LinuxNeverFabricates`, `LinuxNoBackfill`, `LinuxTickLosesLittle`: what the counter
  shows is `burnt` minus resets modulo a range, so no inequality between two
  readings is inductive. `EnergyInv` instead carries for the stored reading some
  point of the past at which the counter showed it (`SeenAt(b, c, k)`: `b` burnt by
  then, `c` of it before the counter was last 0, after `k` resets), and that
  everything credited is covered up to there, plus one range per reset. The next reading is congruent to the burn
  since, so the difference modulo the range is at most the burn, and equal to it
  when less than a turn was burnt. `InLoop` restarts the account at every gap,
  which is what makes it `NoBackfill`.
* `LinuxCountsFences`: main decrements a count only if it is positive, so a lost
  init makes a later signal a no-op, and the state alone does not say how many
  were. `Accounted` says of each PID that there is a number `d`, at most the number
  of lost events, such that main's count with all queued events handled is by at
  most `d` below and by at most the other lost events above the kernel's, and no
  prefix of the queue takes it below `-d` (`Explained`). Hypothesis:
  `MaxFences <= MaxU32`, for the count is a u32; with more fences it saturates
  and the statement is false.

### Windows (`WindowsProofs`)

* `WindowsIsTyped`, `WindowsSplitIsFresh`: `WinInv` holds the buffer
  (`len <= cap`), what the call under way still needs, and that in a split what is
  left is a suffix of the list that this tick obtained.
* `WindowsEnergyAddsUp`: `Within(exact, atMost, MaxU - 1)`. `EqualSharesAddUp` shows
  that the split of `sample_window_energy` is exact; a window of
  `attribute_window` rounds every share down. Hypothesis `ModestPower`: the
  power in uW times the nanoseconds of a second fits u64, which holds for every
  reading below 18 kW. Above it the sub-second part of the whole window saturates
  in `window_energy_uj` while the shares, computed in u128, do not, and they may
  add up to more than the window is said to be worth.

### Apple silicon (`AppleProofs`)

* `AppleIsTyped`, `AppleAttributionsArrive`, `AppleAssertHolds`.
* `AppleNeverFabricates`, `AppleNoBackfill`, `ApplePowerNeverOverstated`,
  `AppleTickLosesLittle`: the quantity that ties the sample pair to the world is
  `Uncounted`, the sum over the channels of what each is ahead of its previous
  sample. Burning raises it by at most the burn, a reset lowers it, sliding the
  samples makes it 0, and a reading counts at most all of it, whatever it sees.
  `EnergyInv` says that it fits beside what was credited (`Covered`), in what was
  burnt since the stamp (`StampCovered`) and since the loop's last attempt
  (`LoopCovered`), and is all of that when nothing went wrong (`LoopExact`).

### Seals (`SealProofs`)

* `SealsAreAuthentic`, `ManifestsAreAuthentic`, `SealsNameTheirHost`: the inductive
  invariant `SealInv` says of each daemon that its identity is one its host's
  probe yields, of each issued document that it was built by `seal` or
  `manifest_sign` from such a daemon, and of each stored one that its signature,
  mixed up or not, is the signature of an issued document. A document that
  verifies then agrees with an issued one because the encodings are injective
  (`CanonicalJsonIsInjective`, `ManifestJsonIsInjective`) and because sorting only
  permutes (`EveryRankOnce`, `SortKeepsRecords`: the ranks of a stable sort are a
  bijection, by counting finite sets). `IdentityNamesOneHost` goes through the
  three probes: a fingerprint not flagged Synthetic carries a tag and the host.
  It rests on the uniqueness of machine ids, serials and uuids.
* `StoreIsTyped`, `FingerprintsAreStable`: `StoreInv` says of each issued seal that
  its fingerprint is what its host shows at the source it names
  (`ProbeTellsSource`), and that a Windows daemon with an identity has asked NVML
  (`NvmlIsDecided`).
* `SealsForgetOrder`: two lists of the same records without ties have the same
  length and sort to the same list, of any length (`SortIsCanonical`). "Without
  ties" is said of the fields PID, start and end; `KeysAreCompared` is where it
  matters that the code compares all three. The place of a record depends only
  on the set of the records before it (`AheadWithoutTies`, `PlaceIsBijection`).

### Assumptions and limits

The theorems rest on the ASSUMEs on the constants, each in the module that
declares the constant and evaluated by TLC on every run, and on the hypotheses
named above. PIDs, channels, GPUs and reapers are assumed finite; threads, hosts
and keys are not.

Attempting the proofs sharpened two properties. `TickLosesLittle` (Linux and
Apple) now excludes ticks whose power does not fit u64, where the code saturates
and loses more; the instances TLC checks never reach that. `WindowsAddUp` speaks
of sums below `MaxU`: once a window is worth exactly `u64::MAX`, that number may
stand for more.

Only model-checked: liveness (`EveryAddReturns`, `EveryWalkReturns`,
`LoopSurvivesErrors`), which is beyond the prover, and the four violation runs,
which are counterexamples.

## 6. Not modelled

* The crate surface (`lib.rs`, `mod.rs`): re-exports only. FFI declarations and
  wrappers (framework loading, CoreFoundation reference counts,
  `discover_gpu_ane_channels`, which only reads), logging, and JSON beyond the
  order and presence of fields.
* Cloned machine ids (`/etc/machine-id` of a copied image) and serials: taken as
  unique by assumption, so nothing here says that a real source cannot be shared.
* `HardwareIdentity::manual`: the caller's own string, about which nothing holds.
  An empty platform serial on macOS is accepted by the code and counts as read.
* Reordered fence events: a perf array is per CPU, but the handler that merges
  them is not in this repository.
* A clone of a LinuxProvider with pending attributions: both copies would push
  them; the type's comment asks callers to clone deliberately.
* Adversaries: `Mixup` recombines documents, the signature scheme is symbolic.

## 7. Plan

1. done: registry, arithmetic, loop, Linux and Windows provider, first proofs.
2. done: AppleSiliconProvider, signer, manifest, identity; resets of the RAPL
   counter and lost events; proofs of the seals and of the energy functions.
3. done: every safety property of the passing runs as a theorem.
4. That each provider under its loop implements `AnyProvider`'s loop, so that the
   theorems on the split carry over without being proved again.
5. `EveryAttributionArrivesOnce` for Windows with its windows enqueued as
   records, and `SplitPreservesTotal` for the three providers.
