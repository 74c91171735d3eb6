----------------------------- MODULE ExactGemm ------------------------------
(***************************************************************************)
(* The exact integer matrix product of src/cpu_gemm.rs and its call site   *)
(* in src/llvm_emitter.rs.  A nest is licensed from the bounds declared on *)
(* its operands, or keeps its scalar lowering.  The licensed kernel scans  *)
(* the operands, zeroes the output, and cuts either the rows or the sum    *)
(* over threads it forks and joins in every call.  Any number of           *)
(* application threads call it at once, each with its own buffers.         *)
(***************************************************************************)
EXTENDS Integers, GemmBuffer

CONSTANTS
    Callers,             \* the application threads
    Requests,            \* what Y_NUM_THREADS may give, already clamped
    KSPLIT_MIN_BAND, MSPLIT_MIN_ROWS,
    FLUSH_K_PAIRS,       \* k-pairs between two flushes into int64
    I32_MAX,
    Shapes,              \* calls: M, N, K, ldc, the declared bound, and the largest
                         \* magnitudes magA and magB in the operands
    MaxCalls, BufSize    \* bounds of the model

ASSUME RequestsAssumption ==
    Requests \subseteq Nat \ {0} /\ \E n \in Requests : \A m \in Requests : m <= n
ASSUME BandAssumption == KSPLIT_MIN_BAND \in Nat \ {0} /\ MSPLIT_MIN_ROWS \in Nat \ {0}
\* As in BLAS, the stride of C is at least its width.
ASSUME ShapesAssumption ==
    \A s \in Shapes :
        /\ s.M \in Int /\ s.N \in Int /\ s.K \in Int /\ s.ldc \in Int /\ s.N <= s.ldc
        /\ s.bound \in Nat /\ s.magA \in Nat /\ s.magB \in Nat
ASSUME SizesAssumption == FLUSH_K_PAIRS \in Nat \ {0} /\ I32_MAX \in Nat /\ BufSize \in Nat

MaxBands == CHOOSE n \in Requests : \A m \in Requests : m <= n
Bands == 0 .. MaxBands - 1
Addr == 0 .. BufSize - 1
Pending == <<>>
NoJob == <<>>

Product(s) == ProductIn(Addr, s)

VARIABLES
    memo,       \* __y_gemm_exact_nthreads: 0 until it is resolved
    exited,     \* whether the process has stopped itself, and why
    calls,      \* calls made
    shape,      \* the arguments of the call
    req,        \* the thread count this call was given
    ph,         \* where the caller is
    C,          \* its output buffer
    cut,        \* the axis that is cut, and into how many bands
    band,       \* loop counter t
    off,        \* where the next band starts
    arrays,     \* jobs, tids and live are allocated
    held,       \* the bands whose buffers are allocated
    job,        \* the job records
    panel,      \* the private outputs of the bands
    live,       \* the bands whose thread was started
    worker      \* the threads: none, new, run, done

NoCut == [axis |-> "sum", n |-> 1]

heap == <<arrays, held, job, panel>>
loop == <<cut, band, off>>
vars == <<memo, exited, calls, shape, req, ph, C, loop, heap, live, worker>>

----------------------------------------------------------------------------
(* Licence, bands *)

LicensedPerPair(bound) == FLUSH_K_PAIRS * bound * bound <= I32_MAX
\* VnniExact::license: one interval of 2 * FLUSH_K_PAIRS products fits int32.
Licensed(bound) == 2 * FLUSH_K_PAIRS * bound * bound <= I32_MAX

\* The sum of the terms k0 .. k0+len-1 by the micro-kernel: chunks of k-pairs in
\* int32, each flushed into int64.
ChunkSum(s, k0, len) ==
    LET kpairs == (len + 1) \div 2
        starts == {c \in Interval(0, kpairs) : c % FLUSH_K_PAIRS = 0}
        products(c) == imin(2 * (imin(c + FLUSH_K_PAIRS, kpairs) - c), len - 2 * c)
    IN  IF \E c \in starts : products(c) * s.magA * s.magB > I32_MAX
        THEN Bad ELSE Interval(k0, k0 + len)

\* __y_gemm_exact_threads and __y_gemm_exact_mthreads, which read the memo again.
KThreads(K) == AtLeast1(imin(K \div KSPLIT_MIN_BAND, memo))
MThreads(M) == AtLeast1(imin(M \div MSPLIT_MIN_ROWS, memo))

\* band_base_ix, band_rem_ix, band_len_ix.
BandLen(extent, n, t) == extent \div n + (IF t < extent % n THEN 1 ELSE 0)

\* A private output is compact, whatever the stride of C.
PanelStride(s) == s.N

\* The record of band t, from offset o: the destination, its rows, its stride,
\* and the terms to add.
JobFor(s, d, t, o) ==
    IF d.axis = "rows"
    THEN [own |-> FALSE, base |-> o * s.ldc, rows |-> BandLen(s.M, d.n, t), ld |-> s.ldc,
          k0 |-> 0, len |-> s.K]
    ELSE [own |-> TRUE, base |-> 0, rows |-> s.M, ld |-> PanelStride(s),
          k0 |-> o, len |-> BandLen(s.K, d.n, t)]

\* __y_gemm_exact_vnni: terms are added to what the destination holds.
Accumulated(mem, s, j) ==
    Stored(mem, j.base, Cells(0, j.rows, 0, s.N), j.ld,
           LAMBDA c : Add(mem[j.base + At(c, j.ld)], ChunkSum(s, j.k0, j.len)))

----------------------------------------------------------------------------
(* The call site, and the entry __y_gemm_exact_vnni_threaded, by caller p *)

Goto(p, where) == ph' = [ph EXCEPT ![p] = where]
Stop(why) == exited' = why
Running == exited = "no"

Call(p, s) ==
    /\ Running /\ ph[p] = "idle" /\ calls < MaxCalls
    /\ calls' = calls + 1
    /\ shape' = [shape EXCEPT ![p] = s]
    /\ C' = [C EXCEPT ![p] = [x \in Addr |-> Old]]
    /\ Goto(p, IF Licensed(s.bound) THEN "scan" ELSE "nest")
    /\ UNCHANGED <<memo, exited, req, loop, heap, live, worker>>

\* An element outside the declared bounds is met in rows x cols of an operand.
Outside(s) ==
    \/ s.M > 0 /\ s.K > 0 /\ s.magA > s.bound
    \/ s.K > 0 /\ s.N > 0 /\ s.magB > s.bound

\* The nest as written checks an operand where it reads it, and adds in int64.
Nest(p) ==
    /\ Running /\ ph[p] = "nest"
    /\ IF ~Empty(shape[p]) /\ Outside(shape[p])
       THEN Stop("bounds") /\ UNCHANGED <<C, ph>>
       ELSE C' = [C EXCEPT ![p] = Product(shape[p])] /\ Goto(p, "idle") /\ UNCHANGED exited
    /\ UNCHANGED <<memo, calls, shape, req, loop, heap, live, worker>>

\* __y_operand_bounds over A, then B: the program stops at an element outside.
Scan(p) ==
    /\ Running /\ ph[p] = "scan"
    /\ IF Outside(shape[p])
       THEN Stop("bounds") /\ UNCHANGED ph
       ELSE Goto(p, "zero") /\ UNCHANGED exited
    /\ UNCHANGED <<memo, calls, shape, req, C, loop, heap, live, worker>>

\* The live rectangle is zeroed row by row at the caller's stride.
Zero(p) ==
    /\ Running /\ ph[p] = "zero"
    /\ LET s == shape[p]
       IN  /\ C' = IF Empty(s) THEN C
                   ELSE [C EXCEPT ![p] = Stored(C[p], 0, Cells(0, s.M, 0, s.N), s.ldc,
                                                LAMBDA c : {})]
           /\ Goto(p, IF Empty(s) \/ s.K <= 0 THEN "idle" ELSE "request")
    /\ UNCHANGED <<memo, exited, calls, shape, req, loop, heap, live, worker>>

\* __y_gemm_exact_request: a relaxed load of the memo.
Request(p) ==
    /\ Running /\ ph[p] = "request"
    /\ req' = [req EXCEPT ![p] = memo]
    /\ Goto(p, IF memo = 0 THEN "resolve" ELSE "axis")
    /\ UNCHANGED <<memo, exited, calls, shape, C, loop, heap, live, worker>>

\* Another caller may be resolving it too, and the count of processors may change.
Resolve(p) ==
    /\ Running /\ ph[p] = "resolve"
    /\ memo' \in Requests
    /\ req' = [req EXCEPT ![p] = memo']
    /\ Goto(p, "axis")
    /\ UNCHANGED <<exited, calls, shape, C, loop, heap, live, worker>>

\* Rows are cut only when they saturate the request.
Axis(p) ==
    /\ Running /\ ph[p] = "axis"
    /\ LET n == MThreads(shape[p].M)
       IN  IF n >= req[p] /\ req[p] > 1
           THEN Goto(p, "many") /\ cut' = [cut EXCEPT ![p] = [axis |-> "rows", n |-> n]]
           ELSE Goto(p, "kpath") /\ UNCHANGED cut
    /\ UNCHANGED <<memo, exited, calls, shape, req, C, band, off, heap, live, worker>>

KPath(p) ==
    /\ Running /\ ph[p] = "kpath"
    /\ LET n == KThreads(shape[p].K)
       IN  /\ cut' = [cut EXCEPT ![p] = [axis |-> "sum", n |-> n]]
           /\ Goto(p, IF n <= 1 THEN "single" ELSE "many")
    /\ UNCHANGED <<memo, exited, calls, shape, req, C, band, off, heap, live, worker>>

\* One thread: its buffers are allocated, used and freed here.
Single(p) ==
    /\ Running /\ ph[p] = "single"
    /\ LET s == shape[p]
           whole == [own |-> FALSE, base |-> 0, rows |-> s.M, ld |-> s.ldc, k0 |-> 0, len |-> s.K]
       IN  C' = [C EXCEPT ![p] = Accumulated(C[p], s, whole)]
    /\ Goto(p, "idle")
    /\ req' = [req EXCEPT ![p] = 0]
    /\ UNCHANGED <<memo, exited, calls, shape, loop, heap, live, worker>>

\* The arrays jobs, tids and live.
Many(p) ==
    /\ Running /\ ph[p] = "many"
    /\ arrays' = [arrays EXCEPT ![p] = TRUE]
    /\ live' = [live EXCEPT ![p] = {}]
    /\ band' = [band EXCEPT ![p] = 0]
    /\ off' = [off EXCEPT ![p] = 0]
    /\ Goto(p, "spawn")
    /\ UNCHANGED <<memo, exited, calls, shape, req, C, cut, held, job, panel, worker>>

\* __y_gemm_exact_alloc prints and exits.
OutOfMemory(p) ==
    /\ Running /\ ph[p] \in {"single", "many", "spawn"}
    /\ ph[p] = "spawn" => band[p] < cut[p].n
    /\ Stop("memory")
    /\ UNCHANGED <<memo, calls, shape, req, ph, C, loop, heap, live, worker>>

\* A private output starts at zero.
NewPanel(s) == [x \in Interval(0, s.M * s.N) |-> {}]

\* One band: its buffers, its record, and a thread, or the band is run here.
Spawn(p) ==
    /\ Running /\ ph[p] = "spawn" /\ band[p] < cut[p].n
    /\ LET s == shape[p]
           t == band[p]
           j == JobFor(s, cut[p], t, off[p])
           fresh == IF j.own THEN NewPanel(s) ELSE <<>>
       IN  /\ held' = [held EXCEPT ![p] = @ \cup {t}]
           /\ job' = [job EXCEPT ![p][t] = j]
           /\ off' = [off EXCEPT ![p] = @ + (IF j.own THEN j.len ELSE j.rows)]
           /\ band' = [band EXCEPT ![p] = t + 1]
           /\ \/ \* pthread_create starts a thread
                 /\ live' = [live EXCEPT ![p] = @ \cup {t}]
                 /\ worker' = [worker EXCEPT ![p][t] = "new"]
                 /\ panel' = [panel EXCEPT ![p][t] = fresh]
                 /\ UNCHANGED C
              \/ \* pthread_create fails
                 /\ IF j.own
                    THEN panel' = [panel EXCEPT ![p][t] = Accumulated(fresh, s, j)] /\ UNCHANGED C
                    ELSE C' = [C EXCEPT ![p] = Accumulated(C[p], s, j)] /\ UNCHANGED panel
                 /\ UNCHANGED <<live, worker>>
    /\ UNCHANGED <<memo, exited, calls, shape, req, ph, cut, arrays>>

SpawnEnd(p) ==
    /\ Running /\ ph[p] = "spawn" /\ band[p] = cut[p].n
    /\ band' = [band EXCEPT ![p] = 0]
    /\ Goto(p, "join")
    /\ UNCHANGED <<memo, exited, calls, shape, req, C, cut, off, heap, live, worker>>

JoinByTid(p) ==
    /\ Running /\ ph[p] = "join" /\ band[p] < cut[p].n
    /\ band[p] \in live[p] \ {0} => worker[p][band[p]] = "done"
    /\ worker' = [worker EXCEPT ![p][band[p]] = IF @ = "done" THEN "none" ELSE @]
    /\ band' = [band EXCEPT ![p] = @ + 1]
    /\ UNCHANGED <<memo, exited, calls, shape, req, ph, C, cut, off, heap, live>>
JoinAll(p) ==
    /\ Running /\ ph[p] = "join" /\ band[p] < cut[p].n
    /\ worker[p][band[p]] = "done"
    /\ worker' = [worker EXCEPT ![p][band[p]] = "none"]
    /\ band' = [band EXCEPT ![p] = @ + 1]
    /\ UNCHANGED <<memo, exited, calls, shape, req, ph, C, cut, off, heap, live>>
\* pthread_join, for a band whose live flag is set.
Join(p) ==
    /\ Running /\ ph[p] = "join" /\ band[p] < cut[p].n
    /\ band[p] \in live[p] => worker[p][band[p]] = "done"
    /\ worker' = [worker EXCEPT ![p][band[p]] = "none"]
    /\ band' = [band EXCEPT ![p] = @ + 1]
    /\ UNCHANGED <<memo, exited, calls, shape, req, ph, C, cut, off, heap, live>>

JoinEnd(p) ==
    /\ Running /\ ph[p] = "join" /\ band[p] = cut[p].n
    /\ band' = [band EXCEPT ![p] = 0]
    /\ Goto(p, "reduce")
    /\ UNCHANGED <<memo, exited, calls, shape, req, C, cut, off, heap, live, worker>>

\* A private output, read at stride N, is added to C at its own stride; then the
\* buffers of the band are freed.
Reduce(p) ==
    /\ Running /\ ph[p] = "reduce" /\ band[p] < cut[p].n
    /\ LET s == shape[p]
           t == band[p]
       IN  /\ C' = IF ~job[p][t].own THEN C
                   ELSE [C EXCEPT ![p] = Stored(C[p], 0, Cells(0, s.M, 0, s.N), s.ldc,
                            LAMBDA c : Add(C[p][At(c, s.ldc)], panel[p][t][At(c, s.N)]))]
           /\ held' = [held EXCEPT ![p] = @ \ {t}]
           /\ panel' = [panel EXCEPT ![p][t] = <<>>]
           /\ band' = [band EXCEPT ![p] = t + 1]
    /\ UNCHANGED <<memo, exited, calls, shape, req, ph, cut, off, arrays, job, live, worker>>

\* The arrays are freed, and the locals of the call are gone.
Cleanup(p) ==
    /\ Running /\ ph[p] = "reduce" /\ band[p] = cut[p].n
    /\ arrays' = [arrays EXCEPT ![p] = FALSE]
    /\ job' = [job EXCEPT ![p] = [t \in Bands |-> NoJob]]
    /\ live' = [live EXCEPT ![p] = {}]
    /\ Goto(p, "idle")
    /\ req' = [req EXCEPT ![p] = 0]
    /\ cut' = [cut EXCEPT ![p] = NoCut]
    /\ band' = [band EXCEPT ![p] = 0]
    /\ off' = [off EXCEPT ![p] = 0]
    /\ UNCHANGED <<memo, exited, calls, shape, C, held, panel, worker>>

----------------------------------------------------------------------------
(* __y_gemm_exact_worker, the thread of band t of caller p *)

\* It reads its record, which the caller may have freed, and keeps it in registers.
WorkerLoad(p, t) ==
    /\ Running /\ worker[p][t] = "new"
    /\ worker' = [worker EXCEPT ![p][t] = "run"]
    /\ UNCHANGED <<memo, exited, calls, shape, req, ph, C, loop, heap, live>>

WorkerRun(p, t) ==
    /\ Running /\ worker[p][t] = "run"
    /\ LET j == job[p][t]
       IN  IF j.own
           THEN /\ panel' = [panel EXCEPT ![p][t] = Accumulated(@, shape[p], j)]
                /\ UNCHANGED C
           ELSE /\ C' = [C EXCEPT ![p] = Accumulated(@, shape[p], j)]
                /\ UNCHANGED panel
    /\ worker' = [worker EXCEPT ![p][t] = "done"]
    /\ UNCHANGED <<memo, exited, calls, shape, req, ph, loop, arrays, held, job, live>>

----------------------------------------------------------------------------

Init ==
    /\ memo = 0 /\ exited = "no" /\ calls = 0
    /\ \E s \in Shapes : shape = [p \in Callers |-> s]
    /\ req = [p \in Callers |-> 0]
    /\ ph = [p \in Callers |-> "idle"]
    /\ C = [p \in Callers |-> Pending]
    /\ cut = [p \in Callers |-> NoCut]
    /\ band = [p \in Callers |-> 0]
    /\ off = [p \in Callers |-> 0]
    /\ arrays = [p \in Callers |-> FALSE]
    /\ held = [p \in Callers |-> {}]
    /\ job = [p \in Callers |-> [t \in Bands |-> NoJob]]
    /\ panel = [p \in Callers |-> [t \in Bands |-> <<>>]]
    /\ live = [p \in Callers |-> {}]
    /\ worker = [p \in Callers |-> [t \in Bands |-> "none"]]

Caller(p) ==
    \/ Nest(p) \/ Scan(p) \/ Zero(p) \/ Request(p) \/ Resolve(p) \/ Axis(p) \/ KPath(p)
    \/ Single(p) \/ Many(p) \/ OutOfMemory(p) \/ Spawn(p) \/ SpawnEnd(p)
    \/ Join(p) \/ JoinEnd(p) \/ Reduce(p) \/ Cleanup(p)

Worker(p, t) == WorkerLoad(p, t) \/ WorkerRun(p, t)

Next ==
    \/ \E p \in Callers, s \in Shapes : Call(p, s)
    \/ \E p \in Callers : Caller(p)
    \/ \E p \in Callers, t \in Bands : Worker(p, t)

\* The system schedules every thread that can go on.
Fairness ==
    /\ \A p \in Callers : WF_vars(Caller(p))
    /\ \A p \in Callers, t \in Bands : WF_vars(Worker(p, t))

Spec == Init /\ [][Next]_vars /\ Fairness

----------------------------------------------------------------------------
(* Properties *)

Phases == {"idle", "nest", "scan", "zero", "request", "resolve", "axis", "kpath", "single",
           "many", "spawn", "join", "reduce"}

TypeOK ==
    /\ memo \in {0} \cup Requests
    /\ exited \in {"no", "bounds", "memory"}
    /\ calls \in 0 .. MaxCalls
    /\ shape \in [Callers -> Shapes]
    /\ ph \in [Callers -> Phases]
    /\ \A p \in Callers :
          /\ req[p] \in {0} \cup Requests
          /\ cut[p].axis \in {"rows", "sum"} /\ cut[p].n \in 1 .. MaxBands
          /\ band[p] \in 0 .. cut[p].n
          /\ off[p] \in 0 .. imax(0, imax(shape[p].M, shape[p].K))
          /\ held[p] \subseteq Bands /\ live[p] \subseteq Bands
    /\ worker \in [Callers -> [Bands -> {"none", "new", "run", "done"}]]

Busy(p) == ph[p] # "idle"

Contract(p) == INSTANCE GemmCall WITH
    busy <- Busy(p),
    shape <- shape[p],
    out <- IF Busy(p) THEN Pending ELSE C[p]

\* Every caller gets what a call promises, whatever the others do: a call that
\* returns has the exact sums, on both axes, with padded outputs, uneven bands
\* and threads that did not start, and no int32 partial sum has overflowed.
KeepsContract ==
    /\ \A p \in Callers : Contract(p)!Init
    /\ [][\A p \in Callers : [Contract(p)!Next]_(Contract(p)!vars)]_vars

\* Memory is freed after its last use: a thread's record and buffers are held
\* until it is done, its caller is still in the call, and a caller that has
\* returned holds nothing.
BuffersHeld ==
    \A p \in Callers :
        /\ \A t \in Bands :
              /\ worker[p][t] = "new" => arrays[p]
              /\ worker[p][t] \in {"new", "run"} => t \in held[p] /\ Busy(p)
        /\ ~Busy(p) => ~arrays[p] /\ held[p] = {} /\ live[p] = {}

\* Every call returns, or the process stops itself.
CallsReturn == \A p \in Callers : Busy(p) ~> (~Busy(p) \/ ~Running)

=============================================================================
