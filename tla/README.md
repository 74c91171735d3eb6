# TLA+ models of the Y compiler and runtime

The repository is a compiler for the Y language, the kernels it emits for GPUs,
CPUs and zero-knowledge circuits, and a runtime around them. What the models
cover is the part whose mistakes a test hardly reaches:

* state that lives across calls, threads, processes and failures: the adaptive
  GEMM runtime, its decision files, the autotuner, the C handles;
* emitted programs that run in parallel: the CPU matrix products with their
  threads, the GPU kernels with their warps and asynchronous copies;
* a chain of rewrites that must keep two things in step: the circuit back end,
  whose passes change constraints and witness recipes together.

Paths below are relative to the repository's root; `src/...` is its crate.

## 1. Inventory

| Component | State | Operations | What is hard |
|---|---|---|---|
| Adaptive GEMM runtime, `src/adaptive_jit.rs` | LRU map shape → entry (kernel, tier, launches, attempts, restored flag, last use), LRU clock, configuration, identity | `prepare`, `launch`, `pending_shapes`, `tune_hot`, `synchronize`; inside them compile, evict, restore, tune, persist | asynchronous device work against module unloading; the CUDA context can be switched inside a call; decisions outlive the process; counters saturate |
| Decision files, `src/adaptive_jit/cache.rs` | one file per key, temporaries, a per-process serial number | `store` (create, write, sync, rename), `evict` (list, stat, sort, remove), `load` | several threads and processes without locks; I/O errors, exits, power loss; stale listings |
| Empirical autotuner, `src/empirical_autotune.rs` | candidates in flight, their timings, finalists | deduplicate, compile, numerical gate, preliminary screen (with one retry), warm-up, screening, final pass, ranking | any CUDA call can fail; noise; times of different passes meet in one list |
| Round-robin measurement, same file | samples per kernel and round | `measure_round_robin`, `median` | position bias, even sample counts |
| C handles, `src/adaptive_jit_ffi.rs` | owner thread, context, poisoned flag, runtime | create, calls through `with_handle`, destroy | panics across the ABI, wrong thread or context, closing while kernels run |
| f32 CPU product, emitted by `src/cpu_gemm.rs` | thread ceiling, pool of persistent workers, task slots, generation counter, condition variables, spin barrier, shared B panel, scratch slots | guard, tiny and small paths, partition, dispatch, pack, micro-kernel, K-split and its reduction | workers that sleep, wake for nothing or never start; a barrier whose width changes between calls; a panel shared by threads at different blocks; numbers of rows, columns and threads that do not divide |
| Exact integer product, `src/cpu_gemm.rs` and its call site in `src/llvm_emitter.rs` | per call: bands, job records, private outputs, started threads; one memoised thread count | license, operand scan, cut by rows or by sum, fork, join, reduce, free | integer overflow of partial sums; memory that runs out half-way; threads that do not start; two callers at once |
| GPU kernels, emitted by `src/ptx_emitter.rs` | shared-memory slots, copies in flight, commit groups, accumulators, output | f16 GEMM (synchronous and pipelined), SwiGLU, fp8, int8 with split K, RMSNorm, paged attention with a split | barriers and copies in every interleaving; epilogues that reuse the slots; grids that do not divide; prologues deeper than the loop |
| Circuit back end, `src/zk_emitter.rs`, `src/zk_witness.rs` | wires, constraints, recipes; inside a pass the substitution, uses and dropped constraints | lowering of statements, gadgets, substitution, merging of products, compaction; the witness solver | constraints and recipes must change together; gadgets feed each other; passes repeat on their own output |
| CUDA wrapper, `src/cuda_runtime.rs` | contexts, modules, buffers (RAII) | load, launch, copy, synchronize, drop | release order, context identity |
| Autotune resolution, `src/autotuner.rs` | in-process cache, tuning lines of the profile file | override → memory → persisted → measured → nearest → analytic | four modes; read-modify-write of a file that others write and the user deletes; a cache key that leaves out part of the request |
| CPU JIT, `src/cpu_jit.rs`, `src/cpu_jit/`, `src/cpu_jit_ffi.rs` | kernel cache, LLVM/ORC objects, branch profiles, handles | compile, cache, specialize, call, release | ownership on error paths of the C API |
| Hardware sentinel, `src/sentinel.rs` | hardware profile file and its temporaries | check, load, probe, publish | writers in many threads and processes; a partial file passes for a completed probe |
| Linear tracker, lexical scopes, uniformity, scheduler, quantization, package manager | per-pass maps | analysis passes | branch joins, fix points |
| Front end, statement lowering of the emitters, Circom front end, proof writers, `crates/y-gpu`, Python package, `c_src`, `self_hosted`, `tools` | trees and text | translation, arithmetic | not concurrent; data too large for a model checker |

How they interact. The C handle calls the runtime; the runtime calls the
autotuner for a measurement and reads and writes decision files; all use the
CUDA wrapper; the device completes work on its own; other processes share the
decision directory and nothing else. What the runtime compiles and launches are
the kernels of `ptx_emitter`. A nest that the LLVM back end recognises becomes a
call of one of the CPU products, of the exact one only when its bounds license
it. All of these are calls of a matrix product, and share one abstract contract.
Every compilation first takes the hardware profile from the sentinel; resolving a
tile reads the same file and, after a measurement by the empirical autotuner,
writes it back. The circuit back end stands alone: its emitter hands a circuit with recipes to
the witness solver.

What makes each correct: no code is unloaded while it runs, for a host that keeps
its context current as documented; a kernel that a
measurement chose gives right results on the device it runs on; a shape is
measured when the policy allows it and once per residency; a conclusion rests on
evidence of the right pass; a decision file is a whole record of its key, and
what pruning takes is older than what it leaves; a handle admits work only where it may and can always be closed; a
product has each of its terms exactly once, wherever it ran, returns, and leaves
the rest of the caller's memory alone; a hardware profile is whole and
describes the machine since the last time the user deleted it; a circuit admits exactly the outputs of
its program, and its witness can be found.

The hazards that follow from this, each at its line, are in `PROJECT.json`.

## 2. Modules

| Module | Models | Extends / instantiates |
|---|---|---|
| `JitTier` | tiers, and `Conclusions`: what one tuning attempt may conclude | |
| `AdaptiveGemm` | the runtime, with device, context switches, other processes and restarts | `JitTier` |
| `TuneContract` | abstract specification of a tuning attempt | `JitTier` |
| `GemmTuner` | the attempt phase by phase, for the adaptive and the full caller | `JitTier`, instance of `TuneContract` |
| `RoundRobin` | the interleaved measurement a phase of `GemmTuner` stands for | |
| `SharedProfile` | the hardware profile file, the sentinel and the resolution of tiles around it | instance of `RoundRobin` |
| `DecisionCache` | the decision directory, one file-system call per step | |
| `AdaptiveHandle` | C handles, threads, contexts, panics | |
| `GemmCall` | abstract specification of a call of a matrix product | |
| `GemmBuffer` | what a number in an output buffer stands for | |
| `GemmPool` | the f32 CPU product and its pool of threads | `GemmBuffer`, instance of `GemmCall` |
| `ExactGemm` | the exact integer product, its license and its threads | `GemmBuffer`, instance of `GemmCall` |
| `GpuKernels` | the GPU kernels as instruction lists, one per warp | `GemmBuffer` |
| `GpuCta` | a launch: blocks, warps, asynchronous copies, barriers | `GpuKernels`, instance of `GemmCall` |
| `R1cs` | linear combinations, constraints, recipes, the witness pass | |
| `ZkCompiler` | lowering of a program and the optimizer's passes | `R1cs` |
| `AdaptiveJitProofs` | theorems about `AdaptiveHandle`, `GemmTuner`, `DecisionCache` | the three, `TLAPS` |
| `ZkCompilerProofs` | theorems about `ZkCompiler` | `ZkCompiler`, `R1csProofs` |
| other `*Proofs` | theorems about a module | the module, `TLAPS` |
| `MC*` | constants for TLC | the module |

**AdaptiveGemm.** `resident` and `entry` are the `entries` map, `clock` the LRU
clock, `cfg` the configuration with the identity (device, driver, compiler and
policy fingerprints) that goes into the decision key. The runtime is `&mut self`,
so a call is one step, except for what it does about the CUDA context: checking
that it is current, and waiting (`cuCtxSynchronize`), which waits for whatever
context is current by then. Between a check and a wait the code compiles or
measures, so these are steps of their own and `SwitchContext` may come between
them. `prepare` and `launch` of an absent shape check and compile (`Compile`, which
leaves the new entry in `made`), then wait, evict and insert (`PrepareInsert`,
`LaunchInsert`); `launch` checks again before it dispatches. Tuning counts its
attempt when it starts (`TuneStart`) and waits, promotes and persists when it ends
(`TuneEnd`); `tune_hot` checks before each round. Only `synchronize()` checks
immediately before it waits and is one step. `call` is what is in progress.
Every CUDA, I/O or driver failure that the code propagates before changing state is
a stuttering step; failures that leave something behind (an entry inserted by a launch that
then fails, a failed attempt, a failed store) are modelled. A kernel is its tile
candidate; `Wrong` says which candidates compute wrong results under which
identity. `disk` is the directory as this runtime sees it: what a store leaves,
and any pruning or writing by others. `Load` is `cache::load`: the record under the
key, or none, for a file that is missing, cannot be read or is refused by `decode`.
`kept` is a history variable: whether, since the device was last idle, the host has
left the context alone between every check and the wait after it.

**GemmTuner.** The phases of `tune_gemm_f16_impl` in order, then either the
decision of `AdaptiveGemm::tune` or the head of the full autotuner's ranking.
Times are integers and fractions basis points, so the tie band (0.25 %), the
margin and the dispersion tests are exact. The ranking's key is the code's, in its
order: warps, depth, the time truncated to whole nanoseconds (`Grain` units of the
model's time), rows, columns; the first of a ranking by exact times stays among
equal keys. A measurement returns any assignment
of the given timings; each can fail.

**DecisionCache.** `store` is seven kinds of step, `evict` four; `load` changes no
file. A file carries whether it is partial or whole, whose record it is, whether
it has been synced, and its modification time. `earlier` holds the
directory states a power loss can bring back, since the directory is never
synced. `Exit` ends all stores of a process and lets its id be used again. A
`Settings` record, chosen initially, says which threads share a process, which
faults happen and how far the clock runs. `changed` is a history variable: the
records written since the eviction of a store listed the directory. An open error
other than `AlreadyExists` (`cache.rs`, 227) returns before anything is changed and
is left out.

**SharedProfile.** `profile` is the file, `temps` its temporaries, `serial` the
counter in their names, `cache` the in-process cache; `thread` says where each
thread is between two file-system calls and what it carries: the card it compiles
for, the shape and precision it resolves, the line and the text it publishes. A
text is the probe it holds, with the card and the generation of the
configuration, and a set of tuning lines. `Reconfigure` is the user who changes
driver, card or governor and deletes the file; `quiet` records that nothing was
being measured or published then. A measurement is `RoundRobin`, started by the
thread that resolves and dropped with its process; the tile it names is any that
codegen accepts. A `Settings` record says which threads share a process, each
process's mode and precisions, and which faults happen.

**AdaptiveHandle.** A call is one step; what varies is which thread makes it, in
which context, and whether it panics before or after it enqueued work.

**GemmBuffer, GemmCall.** A number in an output buffer is the set of the depths
`k` whose products have been summed into it. `Old` is what the caller had there,
`Bad` a sum with a repeated term, a term from the wrong place, or one added to
old contents. Nothing else about floating-point numbers is kept, which is all
that partitions, panels and pipelines can get wrong. Memory is addressed by row
and stride as in the code, so writing past a row lands in the next row. `GemmCall`
promises a caller the product in its buffer, the rest of the buffer untouched,
and nobody writing there until the next call.

**GemmPool.** One application thread calls the kernel and is thread 0 of its
pool. A step is what a thread does between two points where another can see or
disturb it: loading the task, packing, multiplying a block, arriving at the
barrier, sleeping, waking. The tile, cache and threshold constants that the
emitter bakes in are CONSTANTS, scaled down so that a product of a few rows takes
the path that one of thousands takes. `pthread_create` and `malloc` may fail.

**ExactGemm.** Any number of application threads call the product at once. `ph`
is where each is; the bands of a call are threads it forks and joins. Declared
bounds and operand magnitudes are part of the shape, so the license, the runtime
scan that stops the process, and the overflow of `int32` partial sums between
flushes are arithmetic and not assumptions.

**GpuKernels, GpuCta.** A kernel is what its emitter writes, as a list of
instructions per warp with loops unrolled over the K-tiles of the launch: copies
(synchronous, through registers, or `cp.async`), commits, waits, barriers, `mma`
steps, exchanges through shared memory, stores. A copy in flight may land at any
moment between its issue and the wait that covers it: from the issue on the slot
holds nothing that can be relied on, and a slot that is overwritten while
somebody reads it is `Dirty`. Tiles are counted in the bands one warp covers.

**R1cs, ZkCompiler.** A linear combination maps wires to nonzero coefficients in
a prime field. A statement of a program is one step of lowering and extends the
circuit by the gadget's wires, constraints and recipes; the substitution pass is
one step per constraint, with the scan's tables as state, the merging pass one
step per iteration, compaction one step. `intended` records, for each
input, the values that the language's meaning of the statements so far gives, and
leaves out the inputs that the program refuses. `OutputsOf` finds all outputs
that a circuit admits by trying every value of every wire; `Solve` is the
solver's pass over the recipes.

`GemmPool`, `ExactGemm` and `GpuCta` each show, by INSTANCE WITH, that they
implement `GemmCall`: `busy` is whether the caller is inside the call, `out` is
its buffer once it has it back. `GemmTuner` implements `TuneContract` the same way.

## 3. Runs

| Run | Question | Bounds | States |
|---|---|---|---|
| `adaptive_gemm` | Can eviction, promotion or an interrupted call unload running code, overfill the cache, evict the shape just used, index an absent entry or relaunch a rejected shape, wherever the host switches the context? Is a shape measured once? Are decisions reused only where they were measured, over restarts, policies and other processes? Does every call return? | 2 slots. Without a disk cache, 3 shapes, so that every insertion order evicts, under one identity; with it, 2 shapes and 2 identities that disagree on which kernels are right, and records by others. One wrong baseline; counters saturate at 2 launches and 3 ticks | 770,125 |
| `tuner` | Do both callers' attempts stay within the contract and conclude on evidence of the right pass? | 6 candidates, two with the same code, one wrong, three told apart by warps, depth or dimensions alone; times in half nanoseconds; 6 timings: fast with an outlier, fast and noisy, slow, within the nanosecond and the tie band of slow, slow with an outlier, zero; 1 finalist and 3 measured candidates, so that both limits cut | 163,645 |
| `screened_winner` | Is a kernel that was screened out never selected? (violated) | as `tuner`, full caller | |
| `profile` | Is the profile under its name always whole? Does deleting it discard what was measured before? Is every tile obtained as its mode allows, for its card, precision and shape? Is the measurement fair and its timing sound? | 2 threads, in one process or two; 6 settings that pair the four modes, with failing I/O and kills; 2 cards, 2 precisions, 2 shapes within 2x of which only one accepts the other's tile; one deletion; 4 publications per process; measurements of up to 3 kernels in up to 3 rounds, with 2 times | 2,087,740 |
| `cache` | Do records stay whole and temporaries private, does the cap hold at rest, does an eviction take the oldest of what it listed, does every store return? | Three settings in one run, all with 2 keys and cap 1: two threads of a process under I/O errors, exits and power loss, with serial numbers to 2 so that a reused id meets a stale name; two processes without faults; two processes while the clock runs to 2 | 163,534 |
| `handles` | Can a closed handle's modules be running, can a handle become impossible to close? | 2 threads, 2 contexts, 2 handles | 5,625 |
| `cpu_pool` | Does every call, on whatever path, leave the product, and return? Does a team work as one? | 4 threads, 3 calls, ceilings 1, 3 and 4; 7 shapes: no rows, no depth, tiny, a 2 × 2 grid, two K-splits (a spare worker; fewer vectors than threads), shared B over ragged bands and blocks | 364,155 |
| `cpu_exact` | Does every caller get exact sums, whatever other callers do, and is no buffer freed under a thread? | 2 callers, 2 bands, 7 shapes: empty, out of bounds, too large to license, no depth, a sum over bands at the largest licensed magnitude with padded rows, rows over bands, one thread | 79,962 |
| `gpu_kernels` | Does every interleaving of warps and of the landing of copies leave the product, and do all warps reach every barrier? | 34 launches of 1 to 4 warps, fewer tiles than stages, as many, and more; partial tiles; grids with a short last group; split sums with an empty share | 59,836 |
| `zk_compiler` | After every pass, does the circuit admit exactly the program's outputs, and does the solver find its witness? | every gadget alone, chained with every other kind, on a value computed twice, in branches, and with bounds on inputs and their sums; passes switched off one by one; field of 17, 6 values per input | 2,587 |
| `zk_merge_chain` | The same for a merge that replaces a wire by one that it replaces too (violated) | one program | |
| `zk_witness_cycle` | Is the witness found when a computed value has narrow bounds? (violated) | one program, a product in 0..3 | |

Two of everything compete at these bounds: two shapes for the last slot, two
processes for one key, two kernels for one place, two teams of different width
for one barrier, two stages of a pipeline for one slot, two passes for one wire.
Saturation is reached inside every bound, so the limits of `u64` counters are
covered and not cut off.

*Profile.* Two publications at once and a reader between them need two threads;
an old text that comes back needs one deletion and a second call of the process
that cached the tile. One thread at a time measures, as there is one device.

*CPU products.* Three calls on one pool are what a stale task, generation or
barrier width needs: one call leaves it, a narrower one skips some worker, a
wider one meets it again. The constants keep the code's order (a tiny product is
below a cold one, a K-split needs depth, B is shared above a threshold of work).

*GPU.* No block reads what another writes inside a launch, so blocks run one at
a time in every order. Scales, masks and softmax states are what their bands
carry; a page table is the identity and there is one sequence; the int8 output
starts at zero, as its host code leaves it.

*Circuits.* A comparison has 32 bits in the code and 2 in the runs. The
optimizer's fill-in budget (16) lies below what substituting a 32-bit
recomposition costs, and the run has budget 0 so that it lies below what a 2-bit
one costs: the same definitions are refused. Programs with bounds on inputs are
also run with budget 16. The iteration limits are not reached.

`CHECK_DEADLOCK FALSE` is used where the system may stop: an attempt ends
(`tuner`), a circuit is done, the bounded supply of serial
numbers, time or calls ends. `adaptive_gemm`, `handles` and `gpu_kernels` are
checked for deadlock.

Every property has a mutant in `PROJECT.json`: a plausible slip in one mapped
definition (no synchronization before unloading, a key without identity, a
dropped fsync, a temporary name that two writers share, a barrier of the old width, a band that is one short, a wait that
leaves one group too many, a quotient that is not range-checked, ...) that makes
TLC find the property violated.

**Fairness.** `AdaptiveGemm!Fairness`: the thread inside a call keeps running.
`DecisionCache!FairSpec`: so does a thread inside `store`. `TunerFairSpec`: an
attempt is a loop-free call. `HandleFairSpec`: strong fairness of
destroying, which says that the host tries to close a handle whenever it can;
the property is about whether the library would let it. `GemmPool` and
`ExactGemm`: the system schedules every thread that can go on, which is all that
`pthread_join`, a condition variable or a spin loop can rely on. `GpuCta`: the
device schedules every warp that can issue, and every block. Nothing is assumed
of other processes, of context switches, of failures, or of when a copy lands.

`GemmPool!CallsReturn` has one exception, which is the code's: the result of
`pthread_create` is not looked at where the pool grows
(`src/cpu_gemm.rs`, 5598), so a call that counts on a worker that could not be
created waits for ever.

## 4. What the runs show

Three statements of the repository are refuted by the code:

* `screened_winner`: the comment in `src/empirical_autotune.rs` (971-973) says a
  screened-out kernel's time is only used for reporting. The ranking sorts final
  and screening times together, so if the finalists re-measure slower the full
  autotuner selects a kernel it did not re-measure. The adaptive caller is not
  affected: it chooses among finalists (`PromotionEarned`).
* `zk_merge_chain`: the comment in `src/zk_emitter.rs` (3846-3847) says that
  merging remaps every use of a merged wire. The replacement table is applied
  once (3797). When one iteration replaces wire 7 by 5 and 5 by 4, uses of 7 end
  at 5, which no constraint defines any more, and the circuit admits outputs that
  the program does not compute. `zk_compiler` leaves out programs whose
  replacements chain; for the others the passes are right.
* `zk_witness_cycle`: the comment in `src/zk_emitter.rs` (4093-4095) says that an
  equation with one wire on its product side is that wire's genuine definition, so
  substituting it into recipes is safe. The recomposition of a range proof,
  `(b0 + 2 b1) * 1 = v`, has that shape as well (1416-1421). If `v` is computed and
  its bounds are narrow, the pass eliminates `v` in favour of its own bits; their
  recipes, which decomposed `v`, then read themselves, and the solver finds no
  witness, although the circuit is satisfiable (`StatementKept` holds). The
  passage (4098-4102) describes this failure for the other shape and refuses it
  there. Inputs are not eliminated, and a recomposition whose width is above the
  fill-in budget is refused; `zk_compiler` has bounds on inputs and on their sums.

Six more facts are worth knowing and are not failures of a run:

* Eviction of an entry also forgets that its baseline was rejected; the shape
  comes back launchable. The documentation says so (`docs/adaptive_jit.md`,
  42-44), so `DecisionsFinal` is stated for the time a shape stays resident.
* The in-process cache of `autotune` has the shape alone as its key
  (`src/autotuner.rs`, 946). The comment above the function (893-899) says that
  precision selects the namespace, so that FP8 never silently inherits F16's tile;
  in a process that asks for both, as a caller of `y_autotune_select_config_json`
  may (`src/c_api.rs`, 257), the second gets the first's tile. `ChoiceAllowed` is
  therefore stated of what is put into the cache and for what it was made, and
  not of what a later hit is given.
* A deletion of the profile that meets a publication is undone by it: the rename
  that follows puts back the text that was read or probed before. `DeleteDiscards`
  is stated for a deletion between measurements and publications. Two results
  stored at the same time may also lose one of the two lines, which the code
  accepts ("losing one cached tile choice is cheap").
* The waits that protect a module, before an eviction (`src/adaptive_jit.rs`, 480)
  and before a promotion (746), are not preceded by a check of the context: the last
  one is before the compilation (373, 444) or the measurement (414, 444). If
  the host switches the context in between, the wait is for another context and
  code may be unloaded under work. The host must not ("Keep that context current
  on this thread while using or dropping the runtime", 261-262;
  `docs/adaptive_jit.md`, 69-71; the Safety section of `borrow_current` in
  `src/cuda_runtime.rs`). So `InFlightLoaded` is conditional on `kept`: switches are
  harmless between calls, between the rounds of `tune_hot` and before the dispatch
  of `launch`, where the code checks, and the duty matters inside these two windows
  only. Without the condition TLC finds the unloading in a few steps.
* `docs/adaptive_jit.md` (194-195) says that the oldest-written records above the cap
  are evicted. `evict` decides by the times it listed and removes by name, so it can
  remove a record that another process has renamed there since, and two evictions at
  once can remove more than one would. What holds is `EvictsOldestListed`: among the
  records that stayed as the eviction listed them, what it removes is no newer than
  what it leaves; and the cap at rest (`CapAtRest`).
* A final pass whose baseline timing is invalid ends as a retained baseline, not as
  a failure: `clearly_faster` is false of every challenger (`src/adaptive_jit.rs`,
  869-879). The rule that invalid timing must fail and not be retained
  (`src/empirical_autotune.rs`, 1045) is of the short screen. `NoGainDismissed`
  speaks of gains that the promotion rule sees.

## 5. What is proved

The theorems hold for all values of the constants that satisfy the named
assumptions of the modules: non-empty candidate sets, positive capacity,
threshold and counter limits, a margin below 100 %, positive tiles, and for the
CPU products `N <= ldc`, which the emitter states as its hypothesis
(`src/cpu_gemm.rs`, 3183) and without which rows of `C` would overlap. No extent
is assumed positive: an empty product is a call like any other. For circuits the
modulus is an odd prime, and programs are those the compiler accepts and lowers at
widths far from the modulus (`ProgramsAssumption`, below).

**AdaptiveGemmProofs.** `Core` conjoins the run's other invariants and types with
facts none of them implies: the resident set is finite, no entry was used
after the clock's latest value (`UsesInThePast`; without it an eviction could
remove the one entry whose last use equals the clock), and what a call in progress
has yet to insert is a fresh entry, compiled or rightly restored (`MadeFresh`).
`Guarded` rests on it: work in flight has its modules, and between a check and its
wait the context is current, both as long as the host has not switched the context
behind a check (`CheckHolds`); this carries `InFlightLoaded`. The invariants need each
other: `InFlightLoaded` needs `CallIndexesResident` (a dispatch enqueues into an
entry of the worklist), `DecidedKernelsRight` needs `DiskGenuine` (a restored
decision), `DecisionsFinal` needs `TierHistory` (a shape that may be tuned has
not been decided). Lemmas say once what compiling, inserting, using and tuning do
to an entry; `StepCore` then has one step per action, and `GuardedWork` one per way
a step can touch work in flight. Proved: `TypeCorrectness`,
`CacheWithinCapacity`, `ModulesOutliveWork` and `DutifulHost` (under a host that
never switches behind a check, all work runs in loaded modules), `WorklistsResident`,
`LatestUseSurvives`, `OneMeasurement`, `FiledUnderIdentity`, `DecisionsRight`,
and the action properties `DecisionsAreFinal` and `PolicyObeyed` (which adds that
`tune_hot` never works under the disabled policy). `FiledUnderIdentity` says of
every record on disk, this process's or another's, that its kernel was measured
under the identity in its key; `DecisionsRight` is what follows for a kernel that
a restart takes from there.

**AdaptiveJitProofs: GemmTuner.** The invariant says what each phase may rely on: no
conclusion before the end, no finalists before the screens, different code among
compiled kernels, only verified kernels after the gate. Together with what
`clearly_faster`, the tie band and the order of the ranking mean in integers it
gives `GateHolds`, `PromotionsEarned`, `NoGainsDismissed`, `WinnersSound`,
`ClearGainsValidated`, and `RefinesContract`: every step is a step of `TuneContract`
or leaves its variables alone. This is the contract `AdaptiveGemm!TuneEnd` takes its
outcomes from. `NoGainsDismissed` relates two rules of the code: the short screens
keep a baseline by its slowest round, the challengers' best and the margin,
promotion decides by best rounds, margin and both dispersions; whatever the first
dismisses the second would not have taken (`RetainedNotFaster`). `WinnersSound`
rests on the lexicographic order of the truncated key (`KeyBeforeLemma`,
`SameNanosecond`): a kernel that is not fastest wins by warps, by depth, or by its
dimensions within one nanosecond.

**AdaptiveJitProofs: AdaptiveHandle.** `ClosedHandlesIdle`. A closed handle
stays idle because every call that enqueues needs a live one and closing waits
for the context whose work the modules run (`SynchronizedLemma`).

**AdaptiveJitProofs: DecisionCache.** `Inv` says that a store between `create_new` and
`rename` owns a temporary that exists, so `create_new` cannot hand it to another
one; that the temporary is whole after the write and synced after the sync; and
that records, and everything a power loss can bring back in their place, are
whole and synced, so that a power loss gives them back unchanged. From it:
`RecordsAlwaysWhole`, `TempsNeverShared`, `StaleTempsStay`. `CapHolds` needs a second invariant, `Capped`: as long as the
directory is above its cap, some store has yet to list it, or has in its lists
every record there is, or is removing all that is above the cap. Each `rename`
hands that duty to the store that made it. `ExcessLemma` is the counting part:
the number of younger entries is an injection of what the plan leaves into
`0 .. MaxEntries - 1`. `EvictionsInOrder` needs a third, `Known`: of every record
that did not change since a store listed it, the store has the time, or its name is
still to be read, and what is left to remove is before what was left alone
(`OldestLemma`). The two need the keys to be finite.

**GemmPoolProofs.** `RecordsChangeAtRest`: the task records, and the caller's
buffer, change hands only when every worker of the pool rests and has run the
current generation. The invariant follows the generation: a worker has published
it only if it has run it and is resting, one that is working holds the current
one, and thread 0 is outside the parallel part of a call only if every worker has
published. The pool may have any number of threads, and any of them may never
have been created.

`TeamsInStep` is about one call. A thread that is in it has the record that
slot 0 has, and the barrier has the width of that record's team (`Agree`).
Threads run in lockstep (`InStep`): their programs have the same barriers, each
is before the barrier that opens next or waits at it, and the number of arrivals
is the number that wait. Thus a thread that waits is never overtaken by two
openings, and none multiplies a block while another packs the next one.

`PoolProducts` is the contract: every step is a step of `GemmCall` or leaves its
variables alone, so a call returns with every element the sum of all its terms
and nothing else changed. Four facts carry it.

* *The slices share out the work.* What `dispatch` writes into the records cuts
  rows into bands, columns into groups of vectors, or the depth into splits; the
  cuts are quotients `floor(i * x / n)`, which are monotone and begin and end
  where they should, so every cell, or depth of a cell, lies in exactly one slice
  (`Divided`). That some band holds a given cell is the least number of a set,
  taken from the well-foundedness of `<` on the naturals.
* *Cells have their own addresses.* From `N <= ldc`, `i * ldc + j` determines
  `i` and `j`, so writing some cells of a product changes only those (`Written`,
  `Holds`).
* *A value is a function of a position.* `Value(t, c)` says what cell `c` of
  thread `t`'s slice holds, given the thread's phase and how many depth blocks
  it has done: old contents, a prefix of the terms, or all of them. `RightInv`
  says that the buffer, or in a K-split the thread's scratch panel, holds that,
  and that cells outside a call's product hold `Old`.
* *The reduction of a K-split.* Behind the barrier every panel holds its share of
  the depth, shares are disjoint, and a thread adds the panels of its rows in the
  order of the splits.

`RightInv` is preserved under `TeamInStep`, which it needs for reading a panel
that another thread packed.

**ExactGemmProofs.** `BuffersOutliveThreads`: no job record or private output is
freed while a thread of its call may use it, and a call that returns holds
nothing, for any number of callers and bands. `Team` accounts for the bands phase
by phase: while threads are started, those below the counter are held; while they
are joined, all are; while they are reduced, those from the counter on, and no
thread is left.

`ExactProducts` is the same contract for any number of concurrent callers. The
invariant `Right` says, for each caller and phase, which cells hold which terms:
bands of rows partition the rows, bands of the sum partition the depth, a band
that failed to start is run by the caller, and the reduction has added the bands
below the counter. Two thirds of it are arithmetic: the license bounds a partial
sum between two flushes by `I32_MAX`, for every magnitude of operands within the
declared bounds, so no `int32` wraps. Callers share nothing but the memoised
thread count, and any value of it that was asked for gives a right cut.

**SharedProfileProofs.** `WholeInv` says that every thread between creating and
renaming its temporary owns a name below its process's counter that no other
thread has, that its text is whole and that the file it is about to rename holds
that text; `ProfileAlwaysWhole` follows. `TextsCurrent` adds that, after a quiet
deletion, whatever is measured, stored or published is of the present
configuration: what is read back was, and a rename publishes what the thread
holds (`DeletesAreFinal`). `PhasesAllowed` says that a thread is at a phase only
if its mode sends it there, and that every line on its way to the file holds a
tile codegen accepts (`ChoicesAllowed`). The three hold for any number of
threads, processes, shapes, cards and deletions. `MeasurementsSound` is about the
loop of `measure_round_robin`, for any number of kernels and rounds: the number
of samples and of openings of each kernel is a function of the loop's position
(round, offset), which division gives, so no kernel is one batch or one opening
ahead of another by more than one. A median is stated by rank (`Order(s)` are the
orderings of the samples), so that it splits them needs no sorting algorithm.

**GpuCtaProofs.** A kernel is a finite sequence of instructions for each warp
that the emitters build by concatenating loops; the theorems are about every
number of tiles, stages, warps and splits. `Quiet` code leaves no copy of its own
in flight, a `Batches` loop issues, commits and waits such that its last waits
cover what its prologue started, also when the prologue is deeper than the loop,
and both are closed under what the emitters do with them. That a flattened list
of lists holds no instruction but those of its parts (`FlattenIn`) is an
induction, for which the module proves `SetInduction` from the well-foundedness
of the naturals. `Inv` adds to types what a block has been given, that commit
groups are issued and waited for in order (`Tracked`), and that what remains of a
warp's program still waits for what is in flight (`Settling`). Proved:
`SlotsExist` (every slot an instruction names exists and no counter leaves its
range) and `CopiesLand` (`NoCopyOutlives`: a warp that ends has nothing in
flight). `WarpsMeet` is the safety half of `LaunchesReturn`: barriers are counted
(`Bars` of a sequence is a cardinality, which concatenation adds up), the codes of
a block's warps hold the same number although they differ in what they do
(`CodeAlike`), and what is left of them keeps doing so (`Meeting`). Hence a warp
that waits has company coming: every other warp of the block still has this
barrier ahead, and one of them does not wait yet.

**ZkCompilerProofs.** `KeepsStatement`: from the end of the lowering on, and after
every pass, the circuit admits exactly the output that the program computes, and
nothing for an input that the program refuses, for every prime modulus, every
program and every choice among definitions and eliminations:

    Spec /\ [][Merge => Unchained]_vars => []StatementKept

`Unchained` says of a merge that no wire merged away is the survivor of another
merge, nor merged into two. It is what `zk_merge_chain` shows to be missing in the
code, so it is a hypothesis about the steps and not an invariant; TLC finds it in
every step of `zk_compiler`. `KeepsStatementUnmerged` needs no hypothesis but that
the option `cse` is off. Field values are elements of `0 .. P - 1` and the
integers of the language are those below `2^n`; nothing is approximated.

* *The field.* `R1csProofs` proves what is needed of a prime modulus: remainders,
  the ring laws, that every number but 0 has an inverse (from the primality of `P`
  alone), that `x * x = x` only for bits. `EvalLc` is a `SumFunction`, which the
  library defines by an iteration in an arbitrary order; `SumAdds` and `AddsAny`
  show that the order does not matter, and `EvalTotal` makes it a sum over any set
  that holds the wires. Inductions are about a set of numbers or of sets, with
  `SetInduction` and `FiniteInduction`.
* *What a circuit admits.* `Solutions` assigns wire by wire and filters;
  `SolutionsFacts` shows that it finds all assignments that satisfy the circuit,
  and `OutputsFacts` that `OutputsOf` is the set of their outputs. From there on
  the proofs are about `Models(c, in)`.
* *Gadgets.* `Lowers(c, d, lc, m, F)` says that `d` extends `c`, that every model of
  `d` is one of `c` in which `lc` has the value that `F` gives (`Sound`), and that
  every model of `c` which `F` does not refuse extends to one of `d` (`Complete`).
  Lowerings compose (`ThenLowers`). Each gadget has its own lemma: bit
  decomposition (a number has one set of digits, `BinDigits`), comparison (the top
  bit of `x + 2^n - y`), division (`IntDivModFacts`: the field equation is the
  integer one because `2^2n` is at most `P`), equality by an inverse, the
  multiplexer, the logical, bitwise and shift operations, `@bounds`.
* *Emission.* `Emitted` says that the models of the circuit so far follow
  `intended` and that every input still accepted has a model; one lemma per `Emit`
  action shows that the statement's `Meaning` is what the action lowers.
* *Substitution.* `ScanOk` says that the definitions found and the constraints
  dropped say the same of every assignment. `DefinitionFacts` covers the three
  shapes of definition, `EliminateFacts` the update of the table. `AppliedFacts`:
  evaluating a substituted combination is evaluating the old one where the
  eliminated wires have the values of their definitions (`SubstitutedFacts`), so
  models map to models both ways and keep the output.
* *Merging and compaction.* `MergedFacts` under `Unchained`; `CompactedFacts`,
  because the renumbering is injective on the live wires and live wires include
  all that a constraint mentions.

`IInv` puts these together by phase: `EmitOk` during the emission, `Stated`
afterwards (the outputs of the circuit are those intended), `ScanOk` during a
scan. `IInv` ranges over all assignments of all wires, which TLC cannot list; TLC
checks `StatementKept`, which is what `IInv` says of outputs.

`ProgramsAssumption` names what the proofs use of a program. Operands are known
values. Shifts are by constants (`src/zk_emitter.rs`, 3290-3298, refuses others). The bounds
of a let are literals that admit a value (2400-2411), and twice the power of two above
their distance is at most `P`; the model has no negative ones. A
condition is a literal bit, an input or the result of a boolean operator: a
condition that is not constant is constrained boolean by the gadget, and for a
constant one the type is what keeps it to 0 and 1. The width `n` has
`2^n * 2^n <= P`: it is 32 in the code (670) and `P` has 254 bits, which is how the
comment at 1499-1501 argues. TLC evaluates the assumption on every run's programs.

Where each argument stops:

* Liveness (`StoresReturn`, `CallsReturn`, `LaunchesReturn`, `EveryHandleCloses`,
  and the fair part of `TuneContract!Spec`, whose steps `RefinesContract` covers)
  is under fairness and stays with TLC.
* `KeepsContract` of `GpuCta` is proved of nothing yet. It needs, for each kernel,
  what its slots hold at each of its instructions under all positions of the
  other warps, and not only, as for the CPU products, where the threads stand
  in one loop. TLC checks it on 34 launches.
* `WitnessFound` stays with TLC. It is about what the solver's passes compute from
  the recipes, in the order of a topological sort, and it does not hold for all
  programs (`zk_witness_cycle`, section 4): a proof would need the absence of cycles
  among recipes as a hypothesis, which is most of what it says.
* The merge is proved for merges that do not chain. That a later iteration meets
  no chain is not a property of the code.
* Inductions that the other proofs need are taken from the well-foundedness of
  `<` on the naturals, as a statement about a set with a least element.

## 6. What the models leave out

*Numbers.* Rounding, the numerical check's tolerances, the contents of scratch
buffers, scales and masks. A product is right when it has its terms.

*Text.* PTX, LLVM and C text, JSON, hashing, formatting. A kernel is what its
instructions do.

*AdaptiveGemm* takes a store or a load of a decision as one step; `DecisionCache`
shows what is behind a store. The checks of `decode` (checksum, key, canonical text)
are one local test whose parts the unit tests damage in turn; the model has only
its verdict. Configuration decoding in the C ABI is not modelled.

*SharedProfile* leaves out the fields of the profile other than the card: the
micro-benchmarks behind them, their text, and the CPU features, which are probed
anew on every load. `StartTiming` lets one measurement run at a time, which the
code does not enforce: measurements of two processes would share the device, and
their samples would only be noisier. A tile pinned by `with_forced_config` or `Y_CTA_OVERRIDE` is
returned before any shared state is read. Candidate generation and the analytic
score are arithmetic. `y_autotune_select_config_json` resolves with a default
profile instead of the file's; it is a call for the card `Unknown GPU`.

*GPU.* Blocks run one at a time, since no block reads another's output. General
statement lowering of the emitters is not modelled, nor are kernels of
`ptx_emitter` that have no asynchronous copies or warp exchange.

*Circuits.* Hint blocks and the recipes they leave, the Poseidon gadget,
folding of two literals, inlining and unrolling, the Circom front end, and the
proof, Solidity and binary writers. Statements of both branches of a condition
are evaluated, as in the code, and their effects selected. `Equal` folds when the
simplified difference is constant and `Branch` compares linear combinations, where
the code tests the unsimplified one (`src/zk_emitter.rs`, 3148-3151) and the bindings
(2713): it may emit an equality gadget or a multiplexer more, of the same meaning.

*Components* with status `not_modelled` in `PROJECT.json` say why there. The
front end and the drivers translate trees deterministically and keep no state
between calls: tests and the fuzzers in the repository reach them better than a
model checker does. Elliptic-curve arithmetic and the numerical kernels of
`c_src` are arithmetic throughout.

## 7. Plan

1. CPU JIT: kernel cache, branch profiles and the ownership of LLVM and ORC
   objects on error paths.
2. CUDA wrapper: release order of contexts, modules and buffers.
3. Linear tracker, lexical scopes, uniformity as pure operators against a
   reference definition.
4. `AdaptiveGemm`'s disk as an abstraction that `DecisionCache` implements.
5. A proof of `GpuCta!KeepsContract`, kernel by kernel: first the synchronous
   kernels, in which a barrier separates each write of a slot from its reads, then
   the pipelined ones on top of `Tracked`.
