------------------------------ MODULE GemmPool ------------------------------
(***************************************************************************)
(* The f32 CPU kernel that src/cpu_gemm.rs emits: the entry that picks a   *)
(* path and a partition, the pool of persistent workers, and the blocked   *)
(* driver every thread runs over its slice.  One application thread calls  *)
(* the kernel (it is documented as not reentrant); it is thread 0 of the   *)
(* pool.                                                                   *)
(***************************************************************************)
EXTENDS Integers, FiniteSets, GemmBuffer

CONSTANTS
    MAX_THREADS, Ceilings,           \* bound, and what Y_NUM_THREADS may give
    MR, NR, MC, NC,                  \* the tile
    L3_PANEL_FLOATS, KC_MIN, KC_MAX,
    SM_MAX_M, VEC,                   \* small-M limit, vector width
    SCRATCH_FLOATS,
    WORK_PER_THREAD, COLD_MIN_WORK, TINY_MAX_WORK, TINY_MAX_N,
    KSPLIT_MIN_K, KSPLIT_MIN_BAND, SHARE_B_WORK,
    Shapes,                          \* the calls: records M, N, K, ldc
    MaxCalls, BufSize                \* bounds of the model

ASSUME ThreadsAssumption == MAX_THREADS \in Nat \ {0} /\ Ceilings \subseteq 1 .. MAX_THREADS
ASSUME TileAssumption ==
    /\ {MR, NR, MC, NC, VEC, KC_MIN, WORK_PER_THREAD, KSPLIT_MIN_BAND} \subseteq Nat \ {0}
    /\ {L3_PANEL_FLOATS, KC_MAX, SM_MAX_M, SCRATCH_FLOATS, BufSize} \subseteq Nat
\* The extents of a call are whatever integers the caller passes.  N <= ldc, the
\* hypothesis under which the kernels are used: rows do not overlap.
ASSUME ShapesAssumption ==
    \A s \in Shapes : s.M \in Int /\ s.N \in Int /\ s.K \in Int /\ s.ldc \in Int /\ s.N <= s.ldc

Pending == <<>>

Threads == 0 .. MAX_THREADS - 1
Workers == Threads \ {0}
Addr == 0 .. BufSize - 1

Product(s) == ProductIn(Addr, s)

VARIABLES
    ceiling,     \* NTHREADS_CACHE, once resolved
    shape,       \* the arguments of the call
    calls,       \* calls made
    C,           \* the caller's output buffer
    at,          \* where each thread is
    task,        \* the record each thread has loaded
    pos,         \* its position jc, pc, ic in the blocked driver
    poolN,       \* POOL_N
    scratch,     \* the scratch slots, one after the other
    slot,        \* POOL_TASK
    gen,         \* POOL_GEN
    done,        \* POOL_DONE
    last,        \* each worker's .last
    wgen,        \* each worker's .gen
    barrierN,    \* BARRIER_N
    arrived,     \* the threads inside pthread_barrier_wait
    sharedB      \* SHARED_B: the block <<jc, pc>> each panel was packed from

call == <<ceiling, shape, calls>>
pool == <<poolN, slot>>
signal == <<gen, done, last, wgen>>
vars == <<call, C, at, task, pos, pool, scratch, signal, barrierN, arrived, sharedB>>

----------------------------------------------------------------------------
(* The partition *)

Work(s) == s.M * s.N * s.K

IsTiny(s) ==
    /\ Work(s) <= TINY_MAX_WORK
    /\ s.N <= TINY_MAX_N
    /\ s.M > SM_MAX_M

\* __y_gemm_threads: the calls before this one may be recent or not.
ThreadsFor(s, cold) ==
    IF Work(s) > (IF cold THEN COLD_MIN_WORK ELSE WORK_PER_THREAD)
    THEN AtLeast1(imin(Work(s) \div WORK_PER_THREAD, ceiling))
    ELSE 1

CutK(s) == s.M <= SM_MAX_M /\ s.M * s.N <= SCRATCH_FLOATS /\ s.K >= KSPLIT_MIN_K

\* The grid ntm x ntn of most threads, then of least traffic, then of largest ntm.
BestGrid(s, nt) ==
    LET pm == AtLeast1(s.M \div MR)
        pn == AtLeast1(s.N \div NR)
        cands == {c \in 1 .. MAX_THREADS : c <= nt /\ c <= pm}
        cn(c) == AtLeast1(imin(nt \div c, pn))
        used(c) == c * cn(c)
        cost(c) == s.N * c + s.M * cn(c)
        beats(c, d) == \/ used(c) > used(d)
                       \/ used(c) = used(d) /\ cost(c) < cost(d)
                       \/ used(c) = used(d) /\ cost(c) = cost(d) /\ c >= d
        ntm == CHOOSE c \in cands : \A d \in cands : beats(c, d)
    IN  [ntm |-> ntm, ntn |-> cn(ntm), share |-> FALSE]

Grid(s, nt0) ==
    LET pm == AtLeast1(s.M \div MR)
        pn == AtLeast1(s.N \div NR)
        par == IF CutK(s) THEN AtLeast1(s.K \div KSPLIT_MIN_BAND) ELSE pm * pn
        nt == imin(nt0, par)
        share == Work(s) >= SHARE_B_WORK /\ pm >= nt /\ ~CutK(s)
    IN  CASE CutK(s) -> [ntm |-> 1, ntn |-> nt, share |-> FALSE]
          [] share   -> [ntm |-> nt, ntn |-> 1, share |-> TRUE]
          [] OTHER   -> BestGrid(s, nt)

\* granule_band_edge_ix over tile_count_ix, and the last band's end.
GranuleEdge(idx, count, extent, gran) ==
    imin(((idx * ((extent + gran - 1) \div gran)) \div count) * gran, extent)
GranuleEnd(idx, count, extent, gran) ==
    IF idx + 1 = count THEN extent ELSE GranuleEdge(idx + 1, count, extent, gran)

\* prop_band_edge_ix, and the last band's end.
KEdge(t, n, K) == (t * K) \div n
KEnd(t, n, K) == IF t + 1 = n THEN K ELSE KEdge(t + 1, n, K)

\* The record of slot t: a slot past the grid gets an empty range.
TaskFor(s, g, t) ==
    LET nt == g.ntm * g.ntn
        gi == t \div g.ntn
        gj == t - gi * g.ntn
        granN == IF CutK(s) THEN VEC ELSE NR
        m0 == GranuleEdge(gi, g.ntm, s.M, MR)
        n0 == GranuleEdge(gj, g.ntn, s.N, granN)
        inuse == t < nt
    IN  [s |-> s, solo |-> FALSE, tid |-> t, nthr |-> nt, shared |-> g.share, ksplit |-> CutK(s),
         m0 |-> m0, m1 |-> IF inuse THEN GranuleEnd(gi, g.ntm, s.M, MR) ELSE m0,
         n0 |-> n0, n1 |-> IF inuse THEN GranuleEnd(gj, g.ntn, s.N, granN) ELSE n0,
         k0 |-> KEdge(t, nt, s.K), k1 |-> KEnd(t, nt, s.K)]

\* The whole product on the calling thread.
SoloTask(s) ==
    [s |-> s, solo |-> TRUE, tid |-> 0, nthr |-> 1, shared |-> FALSE, ksplit |-> FALSE,
     m0 |-> 0, m1 |-> s.M, n0 |-> 0, n1 |-> s.N, k0 |-> 0, k1 |-> s.K]
----------------------------------------------------------------------------
(* The caller *)

\* The thread has run its slice.
Finish(t) ==
    IF t # 0
    THEN at' = [at EXCEPT ![t] = "wait"] /\ done' = [done EXCEPT ![t] = wgen[t]]
    ELSE /\ at' = [at EXCEPT ![0] = IF task[0].solo THEN "idle" ELSE "join"]
         /\ UNCHANGED done

GoTo(t, where) == at' = [at EXCEPT ![t] = where] /\ UNCHANGED done

\* The lowered loop nest is called: emit_gemm_call's guards come first.
Call(s) ==
    /\ at[0] = "idle" /\ calls < MaxCalls
    /\ calls' = calls + 1
    /\ shape' = s
    /\ C' = [x \in Addr |-> Old]
    /\ GoTo(0, "guard")
    /\ UNCHANGED <<ceiling, task, pos, pool, scratch, gen, last, wgen, barrierN, arrived, sharedB>>

\* No rows or columns: nothing is stored.  No depth: rows are zeroed, at stride ldc.
GuardShape ==
    /\ at[0] = "guard"
    /\ IF Empty(shape) \/ shape.K <= 0
       THEN /\ C' = IF Empty(shape) THEN C
                    ELSE Stored(C, 0, Cells(0, shape.M, 0, shape.N), shape.ldc, LAMBDA c : {})
            /\ GoTo(0, "idle")
       ELSE GoTo(0, "entry") /\ UNCHANGED C
    /\ UNCHANGED <<call, task, pos, pool, scratch, gen, last, wgen, barrierN, arrived, sharedB>>

\* __y_gemm_tiny: in place, no pool.
Tiny ==
    /\ at[0] = "entry" /\ IsTiny(shape)
    /\ C' = Stored(C, 0, Cells(0, shape.M, 0, shape.N), shape.ldc,
                   LAMBDA c : Interval(0, shape.K))
    /\ GoTo(0, "idle")
    /\ UNCHANGED <<call, task, pos, pool, scratch, gen, last, wgen, barrierN, arrived, sharedB>>

\* One thread is enough.
Solo ==
    /\ at[0] = "entry" /\ ~IsTiny(shape)
    /\ \E cold \in BOOLEAN : ThreadsFor(shape, cold) <= 1
    /\ task' = [task EXCEPT ![0] = SoloTask(shape)]
    /\ GoTo(0, "enter")
    /\ UNCHANGED <<call, C, pos, pool, scratch, gen, last, wgen, barrierN, arrived, sharedB>>

\* The pool cannot get its scratch: this call runs on the reserved panel, the
\* next one tries again.
NoMemory ==
    /\ at[0] = "entry" /\ ~IsTiny(shape)
    /\ \E cold \in BOOLEAN : ThreadsFor(shape, cold) > 1
    /\ poolN = 0
    /\ task' = [task EXCEPT ![0] = SoloTask(shape)]
    /\ GoTo(0, "enter")
    /\ UNCHANGED <<call, C, pos, pool, scratch, gen, last, wgen, barrierN, arrived, sharedB>>

\* The barrier is made anew when a call that meets at it has another width.
Barrier(s, g) ==
    IF g.share \/ CutK(s) THEN g.ntm * g.ntn ELSE barrierN

\* Starts the pool if need be (the result of pthread_create is not looked at, so
\* the workers in missing never exist), partitions, sizes the barrier, and fills
\* every slot.  Packing and padding leave anything in the scratch slots.
Dispatch ==
    /\ at[0] = "entry" /\ ~IsTiny(shape)
    /\ \E cold \in BOOLEAN, missing \in SUBSET Workers :
          LET g == Grid(shape, ThreadsFor(shape, cold))
              n == IF poolN = 0 THEN ceiling ELSE poolN
          IN  /\ ThreadsFor(shape, cold) > 1
              /\ poolN = 0 \/ missing = {}
              /\ missing \subseteq Interval(1, n)
              /\ poolN' = n
              /\ slot' = [t \in Threads |-> IF t < n THEN TaskFor(shape, g, t) ELSE slot[t]]
              /\ barrierN' = Barrier(shape, g)
              /\ at' = [t \in Threads |->
                          IF t = 0 THEN "publish"
                          ELSE IF poolN = 0 /\ t < n /\ t \notin missing THEN "wait"
                          ELSE at[t]]
    /\ scratch' = [x \in DOMAIN scratch |-> Bad]
    /\ UNCHANGED <<call, C, task, pos, signal, arrived, sharedB>>

\* gen is advanced under the mutex, and sleepers are woken.
Publish ==
    /\ at[0] = "publish"
    /\ gen' = gen + 1
    /\ task' = [task EXCEPT ![0] = slot[0]]
    /\ at' = [t \in Threads |-> IF t = 0 THEN "enter"
                               ELSE IF at[t] = "asleep" THEN "woken" ELSE at[t]]
    /\ UNCHANGED <<call, C, pos, pool, scratch, done, last, wgen, barrierN, arrived, sharedB>>

JoinActive ==
    /\ at[0] = "join"
    /\ \A w \in Interval(1, task[0].nthr) : done[w] = gen
    /\ GoTo(0, "idle")
    /\ UNCHANGED <<call, C, task, pos, pool, scratch, gen, last, wgen, barrierN, arrived, sharedB>>
\* All workers have run this generation, the ones with an empty slice too.
Join ==
    /\ at[0] = "join"
    /\ \A w \in Interval(1, poolN) : done[w] = gen
    /\ GoTo(0, "idle")
    /\ UNCHANGED <<call, C, task, pos, pool, scratch, gen, last, wgen, barrierN, arrived, sharedB>>

----------------------------------------------------------------------------
(* __y_pool_worker *)

SeeWorkStale(w) ==
    /\ at[w] \in {"wait", "woken"}
    /\ gen # last[w]
    /\ wgen' = IF at[w] = "wait" THEN [wgen EXCEPT ![w] = gen] ELSE wgen
    /\ GoTo(w, "load")
    /\ UNCHANGED <<call, C, task, pos, pool, scratch, gen, last, barrierN, arrived, sharedB>>
\* The generation has changed: seen while spinning, or under the mutex after
\* blocking.  Either way it is the one this worker then runs and publishes.
SeeWork(w) ==
    /\ at[w] \in {"wait", "woken"}
    /\ gen # last[w]
    /\ wgen' = [wgen EXCEPT ![w] = gen]
    /\ GoTo(w, "load")
    /\ UNCHANGED <<call, C, task, pos, pool, scratch, gen, last, barrierN, arrived, sharedB>>

\* Spun for long enough, or woken for nothing: looks again under the mutex and
\* sleeps.
Sleep(w) ==
    /\ at[w] \in {"wait", "woken"}
    /\ gen = last[w]
    /\ GoTo(w, "asleep")
    /\ UNCHANGED <<call, C, task, pos, pool, scratch, gen, last, wgen, barrierN, arrived, sharedB>>

SpuriousWakeup(w) ==
    /\ at[w] = "asleep"
    /\ GoTo(w, "woken")
    /\ UNCHANGED <<call, C, task, pos, pool, scratch, gen, last, wgen, barrierN, arrived, sharedB>>

\* __y_gemm_worker reads its record.
Load(w) ==
    /\ at[w] = "load"
    /\ last' = [last EXCEPT ![w] = wgen[w]]
    /\ task' = [task EXCEPT ![w] = slot[w]]
    /\ GoTo(w, "enter")
    /\ UNCHANGED <<call, C, pos, pool, scratch, gen, wgen, barrierN, arrived, sharedB>>

----------------------------------------------------------------------------
(* __y_gemm_run, by thread t over its slice *)

\* Nothing to do, and no barrier to enter; else the small-M kernel or the blocks.
\* A K-split thread may have no column to reduce and still has a band to sum.
Enter(t) ==
    /\ at[t] = "enter"
    /\ LET T == task[t]
       IN  /\ IF T.m0 >= T.m1 \/ (T.n0 >= T.n1 /\ ~T.ksplit) THEN Finish(t)
              ELSE GoTo(t, CASE T.s.M > SM_MAX_M -> "pack"
                             [] T.ksplit         -> "sum"
                             [] OTHER            -> "small")
           /\ pos' = [pos EXCEPT ![t] = [jc |-> T.n0, pc |-> 0, ic |-> T.m0]]
    /\ UNCHANGED <<call, C, task, pool, scratch, gen, last, wgen, barrierN, arrived, sharedB>>

\* __y_gemm_small_m on the caller's buffer: clears its slice and sums all of K.
SmallM(t) ==
    /\ at[t] = "small"
    /\ LET T == task[t]
       IN  C' = Stored(C, 0, Cells(T.m0, T.m1, T.n0, T.n1), T.s.ldc,
                       LAMBDA c : Interval(0, T.s.K))
    /\ Finish(t)
    /\ UNCHANGED <<call, task, pos, pool, scratch, gen, last, wgen, barrierN, arrived, sharedB>>

PanelStrideOfC(T) == T.s.ldc
\* The private panels are packed M x N blocks, whatever the stride of C.
PanelStride(T) == T.s.N

\* __y_gemm_small_m on the thread's own panel, for its band of K.
SumBand(t) ==
    /\ at[t] = "sum"
    /\ LET T == task[t]
       IN  scratch' = Stored(scratch, T.tid * SCRATCH_FLOATS, Cells(0, T.s.M, 0, T.s.N),
                             PanelStride(T), LAMBDA c : Interval(T.k0, T.k1))
    /\ GoTo(t, "meet_reduce")
    /\ UNCHANGED <<call, C, task, pos, pool, gen, last, wgen, barrierN, arrived, sharedB>>

\* The sum of the panels of threads 0 .. n-1 at offset x of a slot.
PanelSum(n, x) ==
    LET v(u) == scratch[u * SCRATCH_FLOATS + x]
    IN  IF \/ \E u \in Interval(0, n) : v(u) \in {Old, Bad}
           \/ \E u, w \in Interval(0, n) : u # w /\ v(u) \cap v(w) # {}
        THEN Bad
        ELSE UNION {v(u) : u \in Interval(0, n)}

\* __y_gemm_small_reduce over the thread's columns: panels at stride N, C at ldc.
Reduce(t) ==
    /\ at[t] = "reduce"
    /\ LET T == task[t]
       IN  C' = Stored(C, 0, Cells(0, T.s.M, T.n0, T.n1), T.s.ldc,
                       LAMBDA c : PanelSum(T.nthr, At(c, T.s.N)))
    /\ Finish(t)
    /\ UNCHANGED <<call, task, pos, pool, scratch, gen, last, wgen, barrierN, arrived, sharedB>>

\* The block of B at a position: its columns and depth.
BlockN(T, p) == imin(T.n1 - p.jc, NC)
KcEff(T, p) ==
    imax(imin(L3_PANEL_FLOATS \div (T.nthr * BlockN(T, p)), KC_MAX), KC_MIN)
BlockK(T, p) == Interval(p.pc, p.pc + imin(T.s.K - p.pc, KcEff(T, p)))

BlockId(p) == <<calls, p.jc, p.pc>>

\* __y_gemm_pack_b: all panels of a private block, or every nthr'th panel of the
\* shared one, which all threads then wait for.
PackB(t) ==
    /\ at[t] = "pack"
    /\ LET T == task[t]
           p == pos[t]
       IN  IF ~T.shared
           THEN GoTo(t, "micro") /\ UNCHANGED sharedB
           ELSE /\ sharedB' = [i \in DOMAIN sharedB |->
                      IF i * NR < BlockN(T, p) /\ i % T.nthr = T.tid
                      THEN BlockId(p) ELSE sharedB[i]]
                /\ GoTo(t, "meet_micro")
    /\ UNCHANGED <<call, C, task, pos, pool, scratch, gen, last, wgen, barrierN, arrived>>

\* What the micro-kernel reads for column j of the block.
Terms(T, p, j) ==
    IF T.shared /\ sharedB[(j - p.jc) \div NR] # BlockId(p) THEN Bad ELSE BlockK(T, p)

AfterReadingAtOnce(T) == "next"
\* The next block overwrites the shared panel, so all threads meet first.
AfterReading(T) == IF T.shared THEN "meet_next" ELSE "next"

\* __y_gemm_pack_a and __y_gemm_micro over one row block: the first K block is
\* stored, the others are added.
Micro(t) ==
    /\ at[t] = "micro"
    /\ LET T == task[t]
           p == pos[t]
           cells == Cells(p.ic, imin(p.ic + MC, T.m1), p.jc, p.jc + BlockN(T, p))
           value(c) == IF p.pc = 0 THEN Terms(T, p, c[2])
                       ELSE Add(C[At(c, T.s.ldc)], Terms(T, p, c[2]))
       IN  /\ C' = Stored(C, 0, cells, T.s.ldc, value)
           /\ IF p.ic + MC < T.m1
              THEN GoTo(t, "micro") /\ pos' = [pos EXCEPT ![t].ic = p.ic + MC]
              ELSE GoTo(t, AfterReading(T)) /\ UNCHANGED pos
    /\ UNCHANGED <<call, task, pool, scratch, gen, last, wgen, barrierN, arrived, sharedB>>

\* The next depth block, else the next column block, else done.
Advance(t) ==
    /\ at[t] = "next"
    /\ LET T == task[t]
           p == pos[t]
           go(jc, pc) == /\ pos' = [pos EXCEPT ![t] = [jc |-> jc, pc |-> pc, ic |-> T.m0]]
                         /\ GoTo(t, "pack")
       IN  IF p.pc + KcEff(T, p) < T.s.K THEN go(p.jc, p.pc + KcEff(T, p))
           ELSE IF p.jc + NC < T.n1 THEN go(p.jc + NC, 0)
           ELSE Finish(t) /\ UNCHANGED pos
    /\ UNCHANGED <<call, C, task, pool, scratch, gen, last, wgen, barrierN, arrived, sharedB>>

\* pthread_barrier_wait: the last of barrierN threads lets all of them go on.
After(where) ==
    CASE where = "meet_reduce" -> "reduce"
      [] where = "meet_micro"  -> "micro"
      [] where = "meet_next"   -> "next"

Meet(t) ==
    /\ at[t] \in {"meet_reduce", "meet_micro", "meet_next"}
    /\ t \notin arrived
    /\ LET waiting == arrived \cup {t}
       IN  IF Cardinality(waiting) = barrierN
           THEN /\ arrived' = {}
                /\ at' = [u \in Threads |-> IF u \in waiting THEN After(at[u]) ELSE at[u]]
           ELSE arrived' = waiting /\ UNCHANGED at
    /\ UNCHANGED <<call, C, task, pos, pool, scratch, signal, barrierN, sharedB>>

----------------------------------------------------------------------------

NoTask == [solo |-> TRUE]
NoBlock == <<>>

Init ==
    /\ ceiling \in Ceilings
    /\ shape \in Shapes
    /\ calls = 0
    /\ C = [x \in Addr |-> Old]
    /\ at = [t \in Threads |-> IF t = 0 THEN "idle" ELSE "absent"]
    /\ task = [t \in Threads |-> NoTask]
    /\ pos = [t \in Threads |-> [jc |-> 0, pc |-> 0, ic |-> 0]]
    /\ poolN = 0
    /\ scratch = [x \in 0 .. MAX_THREADS * SCRATCH_FLOATS - 1 |-> Bad]
    /\ slot = [t \in Threads |-> NoTask]
    /\ gen = 0
    /\ done = [w \in Threads |-> 0]
    /\ last = [w \in Threads |-> 0]
    /\ wgen = [w \in Threads |-> 0]
    /\ barrierN = 0
    /\ arrived = {}
    /\ sharedB = [i \in 0 .. NC - 1 |-> NoBlock]

Caller == GuardShape \/ Tiny \/ Solo \/ NoMemory \/ Dispatch \/ Publish \/ Join

Worker(w) == SeeWork(w) \/ Load(w)

Run(t) ==
    Enter(t) \/ SmallM(t) \/ SumBand(t) \/ Reduce(t) \/ PackB(t) \/ Micro(t) \/ Advance(t) \/ Meet(t)

Next ==
    \/ \E s \in Shapes : Call(s)
    \/ Caller
    \/ \E w \in Workers : Worker(w) \/ Sleep(w) \/ SpuriousWakeup(w)
    \/ \E t \in Threads : Run(t)

\* The system schedules every thread that can go on.
Fairness ==
    /\ WF_vars(Caller)
    /\ \A w \in Workers : WF_vars(Worker(w))
    /\ \A t \in Threads : WF_vars(Run(t))

Spec == Init /\ [][Next]_vars /\ Fairness

----------------------------------------------------------------------------
(* Properties *)

Places == {"absent", "idle", "guard", "entry", "publish", "join", "wait", "asleep", "woken",
           "load", "enter", "small", "sum", "reduce", "pack", "micro", "next",
           "meet_reduce", "meet_micro", "meet_next"}
Meets == {"meet_reduce", "meet_micro", "meet_next"}

\* Where a worker has nothing to do with a call.
Resting == {"absent", "wait", "asleep", "woken"}

TypeOK ==
    /\ ceiling \in Ceilings /\ shape \in Shapes /\ calls \in 0 .. MaxCalls
    /\ \A x \in Addr : C[x] \subseteq Int
    /\ at \in [Threads -> Places]
    /\ poolN \in 0 .. MAX_THREADS
    /\ gen \in 0 .. MaxCalls
    /\ done \in [Threads -> 0 .. MaxCalls]
    /\ last \in [Threads -> 0 .. MaxCalls]
    /\ wgen \in [Threads -> 0 .. MaxCalls]
    /\ barrierN \in 0 .. MAX_THREADS
    /\ arrived \subseteq Threads

Busy == at[0] # "idle"

Contract == INSTANCE GemmCall WITH
    busy <- Busy,
    out <- IF Busy \/ calls = 0 THEN Pending ELSE C

\* The kernel keeps the contract of a call: whatever path, partition and
\* interleaving, it returns with every element the sum of all its terms, each
\* once, and the rest of the caller's buffer untouched, then and afterwards.
KeepsContract == Contract!Init /\ [][Contract!Next]_Contract!vars

\* A worker that pthread_create did not make.
Missing == \E w \in Interval(1, poolN) : at[w] = "absent"

\* Every call returns, empty reduction bands and idle workers included, unless
\* a worker could not be created: the dispatcher then waits for it for ever.
CallsReturn == Busy ~> (~Busy \/ Missing)

\* The team of a call works as one.  The micro-kernel never reads a shared panel
\* of another block: nobody packs the next block, of this call or of a later one,
\* while a thread still multiplies.  The barrier has the width of the call that
\* meets at it, and only threads that width counts come to it.
TeamInStep ==
    \A t \in Threads :
        /\ at[t] = "micro" /\ task[t].shared =>
              \A i \in DOMAIN sharedB :
                  i * NR < BlockN(task[t], pos[t]) => sharedB[i] = BlockId(pos[t])
        /\ at[t] \in Meets =>
              barrierN = task[t].nthr /\ t < barrierN /\ task[t] = slot[t]

\* The task records change, and the caller gets its buffer back, only when every
\* worker has caught up: none can run a record twice, or a half-written one, or
\* write into a buffer that is no longer its call's.
SlotsOwned ==
    [][slot' # slot \/ (Busy /\ ~Busy') =>
          \A w \in Interval(1, poolN) : at[w] \in Resting /\ last[w] = gen]_vars
=============================================================================
