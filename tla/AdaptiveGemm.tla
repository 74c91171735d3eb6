---------------------------- MODULE AdaptiveGemm ----------------------------
(***************************************************************************)
(* The adaptive GEMM runtime of src/adaptive_jit.rs: a bounded LRU cache   *)
(* of driver-compiled kernels, one entry per shape, that counts successful *)
(* launches, tunes hot shapes once per residency and reuses decisions that *)
(* an earlier runtime stored on disk.                                      *)
(*                                                                         *)
(* The runtime is single-threaded (&mut self).  A call is one step except  *)
(* that what it does about the CUDA context is taken apart: a check of the *)
(* current context, and a wait, which waits for whatever context is current*)
(* by then, are different steps when the code works between them.  Around  *)
(* it move the GPU (work completes later), the host (switches the current  *)
(* context, exits and starts again) and other processes (the directory).   *)
(*                                                                         *)
(* A call that returns an error before it changed anything is a stuttering *)
(* step.  Timings, hashes and diagnostics are abstracted: a kernel is named*)
(* by its tile candidate, and what a measurement may conclude is the set   *)
(* Conclusions of JitTier, the contract GemmTuner is shown to implement.   *)
(***************************************************************************)
EXTENDS Integers, FiniteSets, JitTier

CONSTANTS
    Shapes,            \* GemmShape values that pass validate()
    Candidates,        \* the emittable tile candidates of a shape
    BaselineChoices,   \* the first max_candidates of the ranking
    Identities,        \* device, driver, compiler and policy fingerprints
    Wrong,             \* <<identity, shape, candidate>>: wrong numerical result
    MaxCachedShapes,   \* config.max_cached_shapes
    HotThreshold,      \* config.hot_threshold
    MaxLaunches,       \* u64::MAX, where the launch counter saturates
    MaxClock,          \* u64::MAX, where the LRU clock saturates
    Policies,          \* the tuning policies a run configures
    CacheModes,        \* disk cache on; or off, disabled or not available
    NoRecord           \* no decision file under a key

ASSUME CandidatesAssumption == Candidates # {}
ASSUME BaselineAssumption == BaselineChoices \subseteq Candidates
ASSUME WrongAssumption == Wrong \subseteq Identities \X Shapes \X Candidates
ASSUME CapacityAssumption == MaxCachedShapes \in Nat \ {0}
ASSUME ThresholdAssumption == HotThreshold \in Nat \ {0}
ASSUME CounterAssumption == MaxLaunches \in Nat \ {0} /\ MaxClock \in Nat \ {0}
ASSUME PolicyAssumption == Policies \subseteq {"Deferred", "OnLaunch", "Disabled"}
ASSUME CacheModeAssumption == CacheModes \subseteq {"off", "on"}

VARIABLES
    resident,   \* keys of AdaptiveGemm::entries
    entry,      \* the Entry of every resident shape
    clock,      \* AdaptiveGemm::clock
    inflight,   \* <<shape, kernel>> enqueued on the device and not complete
    disk,       \* the decision stored under every key
    cfg,        \* configuration and identity of the running process
    call,       \* the API call in progress and the shapes it still handles
    made,       \* the entry ensure_entry has compiled and not yet inserted
    ctxCurrent, \* the runtime's context is current on its thread
    kept        \* history: for all work in flight, the host kept the context
                \* current between the checks and the waits that followed

state == <<resident, entry, clock, inflight, disk, cfg, call, made, ctxCurrent>>
vars == <<state, kept>>

\* tuning_attempts has no limit of its own; ShouldTune is what bounds it.
Entries == [kernel: Candidates, tier: Tiers, launches: 0..MaxLaunches,
            attempts: Nat, hit: BOOLEAN, lastUsed: 0..MaxClock]

\* A decision file: the baseline it was measured against and the choice made.
Records == [base: Candidates, sel: Candidates, promoted: BOOLEAN]

Configs == [policy: Policies, cache: CacheModes, id: Identities]

\* A call, where it stands, the shape it works on and those it has yet to tune:
\*   "insert"  compiled, before the wait and the eviction of ensure_entry;
\*   "tune"    measuring, before the wait and the promotion of tune;
\*   "check"   before the next look at the current context.
Calls == [op: {"idle", "prepare", "launch", "tune_hot"},
          step: {"none", "insert", "tune", "check"},
          busy: SUBSET Shapes, todo: SUBSET Shapes]
Idle == [op |-> "idle", step |-> "none", busy |-> {}, todo |-> {}]

CallFor(op, step, s) == [op |-> op, step |-> step, busy |-> {s}, todo |-> {}]

\* A value for the shapes that have no entry.
NoEntry == [kernel |-> CHOOSE c \in Candidates : TRUE, tier |-> "Baseline",
            launches |-> 0, attempts |-> 0, hit |-> FALSE, lastUsed |-> 0]

IsWrong(s, c) == <<cfg.id, s, c>> \in Wrong

\* saturating_add(1) on a u64.
SaturatingInc(n, max) == IF n < max THEN n + 1 ELSE max

----------------------------------------------------------------------------
(* KernelStats *)

RequireLaunchableAlways(s) == TRUE
\* KernelStats::require_launchable.
RequireLaunchable(s) == entry[s].tier # "RejectedBaseline"

ShouldTuneAgain(s) == entry[s].launches >= HotThreshold /\ ~entry[s].hit
\* KernelStats::should_tune.
ShouldTune(s) ==
    /\ entry[s].launches >= HotThreshold
    /\ entry[s].attempts = 0
    /\ ~entry[s].hit

----------------------------------------------------------------------------
(* The decision store, as the runtime sees it *)

SharedDecisionKey(id, s) == <<CHOOSE i \in Identities : TRUE, s>>
\* decision_key: identity namespace, shape and search policy.
DecisionKey(id, s) == <<id, s>>

Keys == Identities \X Shapes

\* What a runtime of the identity id may store for s: a measured decision, so
\* both kernels passed the numerical gate there.
GenuineRecord(id, s, r) ==
    /\ <<id, s, r.base>> \notin Wrong
    /\ <<id, s, r.sel>> \notin Wrong
    /\ r.promoted <=> r.sel # r.base

CanPersist == cfg.cache = "on" /\ cfg.policy # "Disabled"

\* compile_baseline: the first of the ranked candidates that the driver loads.
ColdEntry(c) == [kernel |-> c, tier |-> "Baseline", launches |-> 0,
                 attempts |-> 0, hit |-> FALSE, lastUsed |-> 0]

\* cache::load: the record of a key, or none.  There may be no file, reading it
\* may fail, and decode refuses one that is damaged or belongs to another key.
Load(key) == {disk[key], NoRecord}

\* A record that restore_cached accepts for s, of which c is the baseline now.
Restorable(s, c) ==
    {r \in Load(DecisionKey(cfg.id, s)) :
        CanPersist /\ r # NoRecord /\ r.base = c /\ (r.promoted <=> r.sel # c)}

\* restore_cached: what compiling baseline c for s can end as.  The cold entry
\* is left when there is no such record or the selected kernel fails to load.
RestoreCached(s, c) ==
    {ColdEntry(c)} \cup
    {[ColdEntry(c) EXCEPT !.kernel = r.sel,
                          !.tier = IF r.promoted THEN "Tuned" ELSE "RetainedBaseline",
                          !.hit = TRUE] : r \in Restorable(s, c)}

FreshEntries(s) == UNION {RestoreCached(s, c) : c \in BaselineChoices}

PersistAnything(s, base, e) ==
    \/ disk' = disk
    \/ /\ CanPersist
       /\ disk' = [disk EXCEPT ![DecisionKey(cfg.id, s)] =
                      [base |-> base, sel |-> e.kernel, promoted |-> e.tier = "Tuned"]]
\* persist_decision and cache::store: only a measured decision is written, the
\* write can fail, and a successful write prunes records (any of them, as far
\* as this runtime can tell: age and other writers decide).
PersistDecision(s, base, e) ==
    \/ disk' = disk
    \/ /\ CanPersist
       /\ e.tier \in Measured
       /\ \E pruned \in SUBSET Keys :
             disk' = [k \in Keys |->
                        IF k \in pruned THEN NoRecord
                        ELSE IF k = DecisionKey(cfg.id, s)
                        THEN [base |-> base, sel |-> e.kernel,
                              promoted |-> e.tier = "Tuned"]
                        ELSE disk[k]]

----------------------------------------------------------------------------
(* The kernel cache *)

NoSynchronize(work) == work
\* CudaContext::synchronize (cuCtxSynchronize): returns when the context that is
\* current has finished its work, which may not be the runtime's context.
Synchronize(work) == IF ctxCurrent THEN {} ELSE work

AnyResident == resident
\* min_by_key(last_used): HashMap order decides between equal keys.
OldestResident ==
    {s \in resident : \A t \in resident : entry[s].lastUsed <= entry[t].lastUsed}

InsertUnbounded(s, e) ==
    /\ resident' = resident \cup {s}
    /\ entry' = [entry EXCEPT ![s] = e]
    /\ inflight' = inflight
\* The rest of ensure_entry for an absent shape: a full cache synchronizes and
\* unloads its least recently used module before the new entry goes in.
InsertEntry(s, e) ==
    IF Cardinality(resident) = MaxCachedShapes
    THEN \E old \in OldestResident :
            /\ resident' = (resident \ {old}) \cup {s}
            /\ entry' = [entry EXCEPT ![old] = NoEntry, ![s] = e]
            /\ inflight' = Synchronize(inflight)
    ELSE /\ resident' = resident \cup {s}
         /\ entry' = [entry EXCEPT ![s] = e]
         /\ inflight' = inflight

Tick == SaturatingInc(clock, MaxClock)

\* The successful end of Entry::enqueue.
Enqueue(s) ==
    /\ entry' = [entry EXCEPT ![s].launches = SaturatingInc(@, MaxLaunches),
                              ![s].lastUsed = Tick]
    /\ clock' = Tick
    /\ inflight' = inflight \cup {<<s, entry[s].kernel>>}

----------------------------------------------------------------------------
(* Tuning *)

\* What a tuning run of a shape whose baseline is c may conclude.
TuneOutcomes(s, c) ==
    Conclusions(c, Candidates, {d \in Candidates : IsWrong(s, d)})

\* tune, at its start: the attempt counts, whatever it will conclude.
TuneStart(s) == entry' = [entry EXCEPT ![s].attempts = @ + 1]

\* tune, at its end.  Promotion has compiled the winner and synchronizes before
\* the baseline's module is unloaded; an attempt that failed, or was decided by
\* the screen, has not waited here.
TuneEnd(s) ==
    \E o \in TuneOutcomes(s, entry[s].kernel) :
        LET e == [entry[s] EXCEPT !.tier = o.tier, !.kernel = o.kernel] IN
        /\ entry' = [entry EXCEPT ![s] = e]
        /\ \/ inflight' = Synchronize(inflight)
           \/ o.tier # "Tuned" /\ inflight' = inflight
        /\ PersistDecision(s, entry[s].kernel, e)

----------------------------------------------------------------------------
(* The API *)

Init ==
    /\ resident = {}
    /\ entry = [s \in Shapes |-> NoEntry]
    /\ clock = 0
    /\ inflight = {}
    /\ disk = [k \in Keys |-> NoRecord]
    /\ cfg \in Configs
    /\ call = Idle
    /\ made = NoEntry
    /\ ctxCurrent = TRUE
    /\ kept = TRUE

\* prepare or launch of a shape that is not resident: compile it and look for a
\* stored decision.
Compile(op, s) ==
    /\ call = Idle /\ ctxCurrent
    /\ s \notin resident
    /\ made' \in FreshEntries(s)
    /\ call' = CallFor(op, "insert", s)
    /\ UNCHANGED <<resident, entry, clock, inflight, disk, cfg, ctxCurrent>>

\* The rest of prepare: insert and touch.
PrepareInsert ==
    /\ call.op = "prepare"
    /\ \E s \in call.busy : InsertEntry(s, [made EXCEPT !.lastUsed = Tick])
    /\ clock' = Tick
    /\ call' = Idle /\ made' = NoEntry
    /\ UNCHANGED <<disk, cfg, ctxCurrent>>

\* launch of an absent shape, up to the second look at the context.
LaunchInsert ==
    /\ call.op = "launch" /\ call.step = "insert"
    /\ \E s \in call.busy : InsertEntry(s, made)
    /\ call' = [call EXCEPT !.step = "check"] /\ made' = NoEntry
    /\ UNCHANGED <<clock, disk, cfg, ctxCurrent>>

\* The wait before an eviction fails: the cache stays as it was.
InsertError ==
    /\ call.step = "insert"
    /\ Cardinality(resident) = MaxCachedShapes
    /\ call' = Idle /\ made' = NoEntry
    /\ UNCHANGED <<resident, entry, clock, inflight, disk, cfg, ctxCurrent>>

\* prepare of a resident shape: only its place in the LRU order changes.
PrepareTouch(s) ==
    /\ call = Idle /\ ctxCurrent
    /\ s \in resident
    /\ RequireLaunchable(s)
    /\ entry' = [entry EXCEPT ![s].lastUsed = Tick]
    /\ clock' = Tick
    /\ UNCHANGED <<resident, inflight, disk, cfg, call, made, ctxCurrent>>

NeedsTuning(s) == cfg.policy = "OnLaunch" /\ ShouldTune(s)

\* launch of a resident shape that needs no tuning.
LaunchFast(s) ==
    /\ call = Idle /\ ctxCurrent
    /\ s \in resident
    /\ ~NeedsTuning(s)
    /\ RequireLaunchable(s)
    /\ Enqueue(s)
    /\ UNCHANGED <<resident, disk, cfg, call, made, ctxCurrent>>

\* launch of a hot resident shape under OnLaunch: it is tuned first.
LaunchTune(s) ==
    /\ call = Idle /\ ctxCurrent
    /\ s \in resident
    /\ NeedsTuning(s)
    /\ TuneStart(s)
    /\ call' = CallFor("launch", "tune", s)
    /\ UNCHANGED <<resident, clock, inflight, disk, cfg, made, ctxCurrent>>

\* The end of the slow path: the context is checked again, then dispatch.
LaunchDispatch ==
    /\ call.op = "launch" /\ call.step = "check" /\ ctxCurrent
    /\ \E s \in call.busy : RequireLaunchable(s) /\ Enqueue(s)
    /\ call' = Idle
    /\ UNCHANGED <<resident, disk, cfg, made, ctxCurrent>>

LaunchRetry ==
    /\ call.op = "launch" /\ call.step = "check"
    /\ UNCHANGED state
\* The slow path returns an error: another context is current, the kernel was
\* just rejected, or the driver refuses the launch.
LaunchError ==
    /\ call.op = "launch" /\ call.step = "check"
    /\ call' = Idle
    /\ UNCHANGED <<resident, entry, clock, inflight, disk, cfg, made, ctxCurrent>>

\* The order of pending_shapes; equal entries are ordered by their dimensions.
HotterThan(s, t) ==
    \/ entry[s].launches > entry[t].launches
    \/ /\ entry[s].launches = entry[t].launches
       /\ entry[s].lastUsed < entry[t].lastUsed

PendingNoPolicy == {s \in resident : ShouldTune(s)}
PendingShapes ==
    IF cfg.policy = "Disabled" THEN {} ELSE {s \in resident : ShouldTune(s)}

\* tune_hot(n): the worklist is the n first pending shapes, fixed on entry.
TuneHotStart(n) ==
    /\ call = Idle /\ ctxCurrent
    /\ \E todo \in SUBSET PendingShapes :
          /\ todo # {}
          /\ Cardinality(todo) <= n
          /\ Cardinality(todo) < n => todo = PendingShapes
          /\ \A s \in todo, t \in PendingShapes \ todo : ~HotterThan(t, s)
          /\ call' = [op |-> "tune_hot", step |-> "check", busy |-> {}, todo |-> todo]
    /\ UNCHANGED <<resident, entry, clock, inflight, disk, cfg, made, ctxCurrent>>

\* One round of the loop begins: the hottest shape of what is left.
TuneHotNext ==
    /\ call.op = "tune_hot" /\ call.step = "check" /\ ctxCurrent
    /\ \E s \in call.todo :
          /\ \A t \in call.todo : ~HotterThan(t, s)
          /\ TuneStart(s)
          /\ call' = [call EXCEPT !.step = "tune", !.busy = {s}, !.todo = @ \ {s}]
    /\ UNCHANGED <<resident, clock, inflight, disk, cfg, made, ctxCurrent>>

\* The loop finds another context current and returns the error.
TuneHotError ==
    /\ call.op = "tune_hot" /\ call.step = "check" /\ ~ctxCurrent
    /\ call' = Idle
    /\ UNCHANGED <<resident, entry, clock, inflight, disk, cfg, made, ctxCurrent>>

KeepForRetry == [call EXCEPT !.step = "check", !.busy = {}, !.todo = @ \cup call.busy]
\* Where a call goes on from tune: launch to its dispatch, tune_hot to the rest
\* of its worklist.
AfterTune ==
    IF call.op = "launch" THEN [call EXCEPT !.step = "check"]
    ELSE IF call.todo = {} THEN Idle
    ELSE [call EXCEPT !.step = "check", !.busy = {}]

\* The tuning of launch or of a round of tune_hot ends.
TuneFinish ==
    /\ call.step = "tune"
    /\ \E s \in call.busy : TuneEnd(s)
    /\ call' = AfterTune
    /\ UNCHANGED <<resident, clock, cfg, made, ctxCurrent>>

\* synchronize(), which checks the context immediately before it waits.
SynchronizeCall ==
    /\ call = Idle /\ ctxCurrent
    /\ inflight # {}
    /\ inflight' = Synchronize(inflight)
    /\ UNCHANGED <<resident, entry, clock, disk, cfg, call, made, ctxCurrent>>

----------------------------------------------------------------------------
(* The environment *)

\* The device finishes some enqueued kernel.
DeviceCompletes ==
    /\ \E w \in inflight : inflight' = inflight \ {w}
    /\ UNCHANGED <<resident, entry, clock, disk, cfg, call, made, ctxCurrent>>

\* The thread's current context changes, between calls or inside one.
SwitchContext ==
    /\ ctxCurrent' = ~ctxCurrent
    /\ UNCHANGED <<resident, entry, clock, inflight, disk, cfg, call, made>>

\* Another process with some identity writes or prunes a decision.
OtherProcess ==
    /\ \E id \in Identities, s \in Shapes :
          \E r \in {r \in Records : GenuineRecord(id, s, r)} \cup {NoRecord} :
             disk' = [disk EXCEPT ![DecisionKey(id, s)] = r]
    /\ UNCHANGED <<resident, entry, clock, inflight, cfg, call, made, ctxCurrent>>

\* The process ends, in a call or between calls, and another one starts.
Restart ==
    /\ resident' = {}
    /\ entry' = [s \in Shapes |-> NoEntry]
    /\ clock' = 0
    /\ inflight' = {}
    /\ cfg' \in Configs
    /\ call' = Idle
    /\ made' = NoEntry
    /\ ctxCurrent' = TRUE
    /\ UNCHANGED disk

\* The current context changes between a check and the wait that relies on it.
SwitchBehindCheck == call.step \in {"insert", "tune"} /\ ctxCurrent' # ctxCurrent

\* The history variable; an idle device has no work that could be concerned.
Record == kept' = (inflight' = {} \/ (kept /\ ~SwitchBehindCheck))

InCall == \/ PrepareInsert \/ LaunchInsert \/ InsertError
          \/ LaunchDispatch \/ LaunchError
          \/ TuneHotNext \/ TuneHotError \/ TuneFinish

Step ==
    \/ \E s \in Shapes : \/ \E op \in {"prepare", "launch"} : Compile(op, s)
                         \/ PrepareTouch(s) \/ LaunchFast(s) \/ LaunchTune(s)
    \/ \E n \in 1..Cardinality(Shapes) : TuneHotStart(n)
    \/ PrepareInsert \/ LaunchInsert \/ InsertError
    \/ LaunchDispatch \/ LaunchError
    \/ TuneHotNext \/ TuneHotError \/ TuneFinish
    \/ SynchronizeCall
    \/ DeviceCompletes \/ SwitchContext \/ OtherProcess \/ Restart

Next == Step /\ Record

Spec == Init /\ [][Next]_vars

----------------------------------------------------------------------------
(* Properties *)

TypeOK ==
    /\ resident \subseteq Shapes
    /\ entry \in [Shapes -> Entries]
    /\ clock \in 0..MaxClock
    /\ inflight \subseteq Shapes \X Candidates
    /\ disk \in [Keys -> Records \cup {NoRecord}]
    /\ cfg \in Configs
    /\ call \in Calls
    /\ made \in Entries
    /\ ctxCurrent \in BOOLEAN
    /\ kept \in BOOLEAN

\* The cache never holds more entries than max_cached_shapes (ensure_entry
\* evicts on equality only, so an overshoot would never be corrected).
CapacityBound == Cardinality(resident) <= MaxCachedShapes

\* All enqueued work runs in a module that is still loaded.
AllLoaded == \A w \in inflight : w[1] \in resident /\ entry[w[1]].kernel = w[2]

\* Eviction and promotion unload a module only after the work enqueued in it has
\* finished, for a host that keeps the context current while a call works (the
\* documented duty of the host): the checks that the code does make are enough,
\* whatever switches fall between calls, between the rounds of tune_hot or
\* before the dispatch of launch.
InFlightLoaded == kept => AllLoaded

\* A kernel that runs on the authority of a measurement, of this process or of
\* one that wrote the decision file, gives right results on this device.
DecidedKernelsRight ==
    \A s \in resident :
        entry[s].tier \in Measured =>
            ~IsWrong(s, entry[s].kernel)

BeingTuned(s) == call.step = "tune" /\ s \in call.busy

\* The tier, the attempt counter and the restored flag tell one story: a shape
\* is measured at most once per residency and a restored one never, by whatever
\* calls the attempts are made; one that was measured does not stay undecided.
TierHistory ==
    \A s \in resident :
        /\ entry[s].attempts <= (IF entry[s].hit THEN 0 ELSE 1)
        /\ entry[s].hit => entry[s].tier \in Measured
        /\ entry[s].tier = "Baseline" <=>
              \/ entry[s].attempts = 0 /\ ~entry[s].hit
              \/ BeingTuned(s)

\* The shape used last survives whatever the next call evicts, failed calls
\* that leave untouched entries behind included, once there is room for two.
RecencyKept ==
    MaxCachedShapes > 1 /\ clock > 0 =>
        \E s \in resident : entry[s].lastUsed = clock

\* The shapes a call in progress will index are resident, so its expect() and
\* its entries[&shape] cannot panic, those to tune still need tuning, and the
\* one to insert is still absent.
CallIndexesResident ==
    /\ call.todo \subseteq resident
    /\ \A s \in call.todo : ShouldTune(s)
    /\ \A s \in call.busy : s \in resident <=> call.step # "insert"

\* While a shape stays resident a decided tier is final, its kernel changes only
\* by promotion, and a rejected one is never enqueued again (the fast path of
\* launch, the end of its slow path and prepare all have to refuse it).
DecisionsFinal ==
    [][\A s \in resident \cap resident' :
          /\ entry[s].tier # "Baseline" => entry'[s].tier = entry[s].tier
          /\ entry'[s].kernel # entry[s].kernel => entry'[s].tier = "Tuned"
          /\ entry[s].tier = "RejectedBaseline" =>
                \A c \in Candidates : <<s, c>> \notin inflight' \ inflight]_vars

\* Tuning happens where the policy puts it: never when disabled, and under the
\* deferred policy only inside tune_hot, whatever calls are made.
TuningOnlyWhereAllowed ==
    [][\A s \in resident \cap resident' :
          entry'[s].attempts > entry[s].attempts =>
             /\ cfg.policy # "Disabled"
             /\ cfg.policy = "Deferred" => call.op = "tune_hot"]_vars

\* A decision on disk was measured under the identity it is filed under.
DiskGenuine ==
    \A id \in Identities, s \in Shapes :
        disk[<<id, s>>] # NoRecord => GenuineRecord(id, s, disk[<<id, s>>])

\* The thread that is inside a call keeps running.
Fairness == WF_state(InCall)
FairSpec == Spec /\ Fairness

\* Every call returns: the worklist of tune_hot only shrinks.
CallsReturn == call.op # "idle" ~> call.op = "idle"
=============================================================================
