-------------------------- MODULE ExactGemmProofs ---------------------------
(***************************************************************************)
(* Proofs about ExactGemm, for any number of callers, bands and shapes.    *)
(* First, no record or private output is freed while a thread may still    *)
(* use it: the argument accounts for the bands of a call phase by phase,   *)
(* what is held while threads are started, joined and reduced.  Second,    *)
(* every call leaves the product: the invariant (Right) says what each row *)
(* of the output and each private output hold in every phase, from where   *)
(* the bands lie (Bases, BandsApart, BandsCover), which numbers of a       *)
(* buffer a write reaches (RowsApart, CellsRows, PanelCells), and what     *)
(* int32 can add up (ChunkExact).                                          *)
(***************************************************************************)
EXTENDS ExactGemm, WellFoundedInduction, TLAPS

Forked == {"spawn", "join", "reduce"}
Cuts == [axis : {"rows", "sum"}, n : 1 .. MaxBands]

Types ==
    /\ memo \in {0} \cup Requests
    /\ shape \in [Callers -> Shapes]
    /\ ph \in [Callers -> Phases]
    /\ cut \in [Callers -> Cuts]
    /\ band \in [Callers -> Nat]
    /\ arrays \in [Callers -> BOOLEAN]
    /\ held \in [Callers -> SUBSET Bands]
    /\ live \in [Callers -> SUBSET Bands]
    /\ worker \in [Callers -> [Bands -> {"none", "new", "run", "done"}]]

\* The bands of caller p that have a thread.
Threaded(p) == {t \in Bands : worker[p][t] # "none"}

\* Outside the fork and the join of a call nothing is allocated and no thread lives.
NothingLeft(p) == ~arrays[p] /\ held[p] = {} /\ live[p] = {} /\ Threaded(p) = {}

\* What caller p holds in each phase.
Team(p) ==
    /\ ph[p] \notin Forked => NothingLeft(p)
    /\ ph[p] \in Forked => arrays[p] /\ band[p] <= cut[p].n
    /\ ph[p] = "spawn" => /\ held[p] = Interval(0, band[p])
                          /\ Threaded(p) \subseteq live[p]
                          /\ live[p] \subseteq Interval(0, band[p])
    /\ ph[p] = "join" => /\ held[p] = Interval(0, cut[p].n)
                         /\ Threaded(p) \subseteq live[p] \cap Interval(band[p], cut[p].n)
    /\ ph[p] = "reduce" => /\ held[p] = Interval(band[p], cut[p].n)
                           /\ Threaded(p) = {}

Inv == Types /\ \A p \in Callers : Team(p)

LEMMA MaxBandsLemma == MaxBands \in Requests /\ \A m \in Requests : m <= MaxBands
BY RequestsAssumption DEF MaxBands

LEMMA NoCutLemma == NoCut \in Cuts
BY MaxBandsLemma, RequestsAssumption DEF NoCut, Cuts

\* The number of bands a thread count and a minimal band allow.
LEMMA ThreadsLemma ==
    ASSUME memo \in {0} \cup Requests, NEW x \in Int
    PROVE  KThreads(x) \in 1 .. MaxBands /\ MThreads(x) \in 1 .. MaxBands
<1>1. MaxBands \in Nat \ {0} /\ memo \in 0 .. MaxBands
  BY MaxBandsLemma, RequestsAssumption
<1>2. x \div KSPLIT_MIN_BAND \in Int /\ x \div MSPLIT_MIN_ROWS \in Int
  BY BandAssumption
<1> QED BY <1>1, <1>2 DEF KThreads, MThreads, AtLeast1, imin, imax

\* A loop over bands takes the first, or adds the next.
LEMMA IntervalLemma ==
    ASSUME NEW a \in Int, NEW b \in Int
    PROVE  /\ a < b => Interval(a, b) \ {a} = Interval(a + 1, b)
           /\ a <= b => Interval(a, b + 1) = Interval(a, b) \cup {b}
BY DEF Interval

LEMMA InitInv == Init => Inv
BY NoCutLemma DEF Init, Inv, Types, Team, NothingLeft, Threaded, Forked, Phases

\* A step of caller p or of its threads leaves the other callers' teams alone.
LEMMA OthersKept ==
    ASSUME Inv, NEW p \in Callers,
           \A q \in Callers \ {p} :
               /\ ph'[q] = ph[q] /\ cut'[q] = cut[q] /\ band'[q] = band[q]
               /\ arrays'[q] = arrays[q] /\ held'[q] = held[q] /\ live'[q] = live[q]
               /\ worker'[q] = worker[q],
           Team(p)'
    PROVE  \A q \in Callers : Team(q)'
<1> SUFFICES ASSUME NEW q \in Callers \ {p} PROVE Team(q)'
  OBVIOUS
<1> QED BY DEF Inv, Team, NothingLeft, Threaded

\* A step that changes neither the allocations nor the threads, outside the team's phases.
LEMMA AloneKept ==
    ASSUME Inv, NEW p \in Callers, ph[p] \notin Forked,
           NEW where \in Phases \ Forked, Goto(p, where),
           memo' \in {0} \cup Requests, shape' \in [Callers -> Shapes],
           cut' \in [Callers -> Cuts], \A q \in Callers \ {p} : cut'[q] = cut[q],
           UNCHANGED <<band, arrays, held, live, worker>>
    PROVE  Inv'
<1>1. Types'
  BY DEF Inv, Types, Goto
<1>2. Team(p)'
  BY DEF Inv, Types, Team, NothingLeft, Threaded, Forked, Goto
<1>3. \A q \in Callers \ {p} : ph'[q] = ph[q]
  BY DEF Inv, Types, Goto
<1> QED BY <1>1, <1>2, <1>3, OthersKept DEF Inv

LEMMA CallInv == ASSUME Inv, NEW p \in Callers, NEW s \in Shapes, Call(p, s) PROVE Inv'
<1>1. PICK where \in {"scan", "nest"} : Goto(p, where)
  BY DEF Call
<1>2. /\ ph[p] \notin Forked /\ where \in Phases \ Forked
      /\ shape' \in [Callers -> Shapes]
      /\ UNCHANGED <<memo, cut, band, arrays, held, live, worker>>
  BY DEF Call, Inv, Types, Forked, Phases, heap, loop
<1> QED BY <1>1, <1>2, AloneKept DEF Inv, Types

\* The steps of a caller that has no team.
LEMMA AloneInv ==
    ASSUME Inv, NEW p \in Callers,
           Nest(p) \/ Scan(p) \/ Zero(p) \/ Request(p) \/ Resolve(p) \/ Single(p)
    PROVE  Inv'
<1>1. ph[p] \notin Forked /\ ph[p] \in Phases
  BY DEF Nest, Scan, Zero, Request, Resolve, Single, Forked, Inv, Types
<1>2. \E where \in Phases \ Forked : Goto(p, where)
  <2>1. CASE UNCHANGED ph
    BY <1>1, <2>1 DEF Goto, Inv, Types
  <2>2. CASE ~UNCHANGED ph
    BY <2>2 DEF Nest, Scan, Zero, Request, Resolve, Single, Forked, Phases
  <2> QED BY <2>1, <2>2
<1>3. /\ memo' \in {0} \cup Requests
      /\ UNCHANGED <<shape, cut, band, arrays, held, live, worker>>
  BY DEF Nest, Scan, Zero, Request, Resolve, Single, heap, loop, Inv, Types
<1> QED BY <1>1, <1>2, <1>3, AloneKept DEF Inv, Types

LEMMA AxisInv == ASSUME Inv, NEW p \in Callers, Axis(p) \/ KPath(p) PROVE Inv'
<1>1. /\ ph[p] \in {"axis", "kpath"} /\ ph[p] \notin Forked
      /\ {"many", "kpath", "single"} \subseteq Phases \ Forked
  BY DEF Axis, KPath, Forked, Phases
<1>2. shape[p].M \in Int /\ shape[p].K \in Int
  BY ShapesAssumption DEF Inv, Types
<1>3. KThreads(shape[p].K) \in 1 .. MaxBands /\ MThreads(shape[p].M) \in 1 .. MaxBands
  BY <1>2, ThreadsLemma DEF Inv, Types
<1>4. /\ cut' \in [Callers -> Cuts]
      /\ \A q \in Callers \ {p} : cut'[q] = cut[q]
  <2>1. [axis |-> "rows", n |-> MThreads(shape[p].M)] \in Cuts
        /\ [axis |-> "sum", n |-> KThreads(shape[p].K)] \in Cuts
    BY <1>3 DEF Cuts
  <2> QED BY <2>1 DEF Axis, KPath, Inv, Types
<1>5. \E where \in {"many", "kpath", "single"} : Goto(p, where)
  BY DEF Axis, KPath
<1>6. /\ memo' \in {0} \cup Requests /\ shape' \in [Callers -> Shapes]
      /\ UNCHANGED <<band, arrays, held, live, worker>>
  BY DEF Axis, KPath, heap, Inv, Types
<1> QED BY <1>1, <1>4, <1>5, <1>6, AloneKept

LEMMA ManyInv == ASSUME Inv, NEW p \in Callers, Many(p) PROVE Inv'
<1> USE DEF Inv, Types, Many
<1>1. Types'
  BY DEF Goto, Phases
<1>2. Team(p)'
  <2>1. /\ ph'[p] = "spawn" /\ arrays'[p] /\ band'[p] = 0 /\ live'[p] = {}
        /\ cut'[p].n \in Nat
    BY DEF Goto, Cuts
  <2>2. held'[p] = {} /\ Threaded(p)' = {} /\ Interval(0, 0) = {}
    <3>1. held[p] = {} /\ Threaded(p) = {} /\ UNCHANGED <<held, worker>>
      BY DEF Team, NothingLeft, Forked
    <3>2. Threaded(p)' = {}
      BY <3>1 DEF Threaded
    <3> QED BY <3>1, <3>2 DEF Interval
  <2> QED BY <2>1, <2>2 DEF Team, Forked
<1>3. \A q \in Callers \ {p} : ph'[q] = ph[q]
  BY DEF Goto
<1> QED BY <1>1, <1>2, <1>3, OthersKept

\* A band is started: it is held, and only a started thread is in it.
LEMMA SpawnInv == ASSUME Inv, NEW p \in Callers, Spawn(p) PROVE Inv'
<1> USE DEF Inv, Types
<1>1. band[p] \in Bands /\ band[p] < cut[p].n /\ cut[p].n \in 1 .. MaxBands
  BY MaxBandsLemma, RequestsAssumption DEF Spawn, Cuts, Bands
<1>2. /\ held' = [held EXCEPT ![p] = @ \cup {band[p]}]
      /\ band' = [band EXCEPT ![p] = band[p] + 1]
      /\ \/ /\ live' = [live EXCEPT ![p] = @ \cup {band[p]}]
            /\ worker' = [worker EXCEPT ![p][band[p]] = "new"]
         \/ UNCHANGED <<live, worker>>
      /\ UNCHANGED <<memo, shape, ph, cut, arrays>>
      /\ ph[p] = "spawn"
  BY DEF Spawn
<1>3. Types'
  <2>1. held' \in [Callers -> SUBSET Bands] /\ band' \in [Callers -> Nat]
    BY <1>1, <1>2
  <2>2. /\ live' \in [Callers -> SUBSET Bands]
        /\ worker' \in [Callers -> [Bands -> {"none", "new", "run", "done"}]]
    <3>1. CASE UNCHANGED <<live, worker>>
      BY <3>1
    <3>2. CASE /\ live' = [live EXCEPT ![p] = @ \cup {band[p]}]
               /\ worker' = [worker EXCEPT ![p][band[p]] = "new"]
      BY <1>1, <3>2
    <3> QED BY <1>2, <3>1, <3>2
  <2> QED BY <1>2, <2>1, <2>2
<1>4. Team(p)'
  <2>1. /\ held[p] = Interval(0, band[p]) /\ Threaded(p) \subseteq live[p]
        /\ live[p] \subseteq Interval(0, band[p])
    BY <1>2 DEF Team
  <2>2. Interval(0, band[p] + 1) = Interval(0, band[p]) \cup {band[p]}
    <3>1. band[p] \in Int /\ 0 \in Int /\ 0 <= band[p]
      OBVIOUS
    <3> QED BY <3>1, IntervalLemma, Zenon
  <2>3. Threaded(p)' \subseteq live'[p] /\ live'[p] \subseteq live[p] \cup {band[p]}
    BY <1>1, <1>2, <2>1 DEF Threaded
  <2> QED BY <1>1, <1>2, <2>1, <2>2, <2>3 DEF Team, Forked
<1>5. \A q \in Callers \ {p} : worker'[q] = worker[q] /\ live'[q] = live[q]
                               /\ held'[q] = held[q] /\ band'[q] = band[q]
  BY <1>2
<1> QED BY <1>2, <1>3, <1>4, <1>5, OthersKept

\* The loops end: every band has been started, or joined, or freed.
LEMMA LoopEndInv ==
    ASSUME Inv, NEW p \in Callers, SpawnEnd(p) \/ JoinEnd(p) PROVE Inv'
<1> USE DEF Inv, Types
<1>1. /\ band' = [band EXCEPT ![p] = 0] /\ band[p] = cut[p].n
      /\ UNCHANGED <<memo, shape, cut, arrays, held, live, worker>>
      /\ \/ ph[p] = "spawn" /\ ph' = [ph EXCEPT ![p] = "join"]
         \/ ph[p] = "join" /\ ph' = [ph EXCEPT ![p] = "reduce"]
  BY DEF SpawnEnd, JoinEnd, Goto, heap
<1>2. Types'
  BY <1>1 DEF Phases
<1>3. Team(p)'
  <2>1. cut[p].n \in Nat /\ Threaded(p)' = Threaded(p) /\ Interval(cut[p].n, cut[p].n) = {}
    BY <1>1 DEF Cuts, Threaded, Interval
  <2>2. CASE ph[p] = "spawn"
    BY <1>1, <2>1, <2>2 DEF Team, Forked
  <2>3. CASE ph[p] = "join"
    BY <1>1, <2>1, <2>3 DEF Team, Forked
  <2> QED BY <1>1, <2>2, <2>3
<1> QED BY <1>1, <1>2, <1>3, OthersKept

LEMMA JoinInv == ASSUME Inv, NEW p \in Callers, Join(p) PROVE Inv'
<1> USE DEF Inv, Types
<1>1. /\ band[p] \in Bands /\ band[p] < cut[p].n
      /\ band[p] \in Int /\ cut[p].n \in Int
  BY MaxBandsLemma, RequestsAssumption DEF Join, Cuts, Bands
<1>2. /\ worker' = [worker EXCEPT ![p][band[p]] = "none"]
      /\ band' = [band EXCEPT ![p] = band[p] + 1]
      /\ UNCHANGED <<memo, shape, ph, cut, arrays, held, live>>
      /\ ph[p] = "join"
  BY DEF Join, heap
<1>3. Types'
  BY <1>1, <1>2
<1>4. Team(p)'
  <2>1. Threaded(p)' = Threaded(p) \ {band[p]}
    BY <1>1, <1>2 DEF Threaded
  <2>2. Interval(band[p], cut[p].n) \ {band[p]} = Interval(band[p] + 1, cut[p].n)
    BY <1>1, IntervalLemma, Zenon
  <2> QED BY <1>1, <1>2, <2>1, <2>2 DEF Team, Forked
<1> QED BY <1>2, <1>3, <1>4, OthersKept

LEMMA ReduceInv == ASSUME Inv, NEW p \in Callers, Reduce(p) PROVE Inv'
<1> USE DEF Inv, Types
<1>1. /\ band[p] < cut[p].n /\ band[p] \in Int /\ cut[p].n \in Int
  BY DEF Reduce, Cuts
<1>2. /\ held' = [held EXCEPT ![p] = @ \ {band[p]}]
      /\ band' = [band EXCEPT ![p] = band[p] + 1]
      /\ UNCHANGED <<memo, shape, ph, cut, arrays, live, worker>>
      /\ ph[p] = "reduce"
  BY DEF Reduce
<1>3. Types'
  BY <1>2
<1>4. Team(p)'
  <2>1. Interval(band[p], cut[p].n) \ {band[p]} = Interval(band[p] + 1, cut[p].n)
    BY <1>1, IntervalLemma, Zenon
  <2> QED BY <1>1, <1>2, <2>1 DEF Team, Forked, Threaded
<1> QED BY <1>2, <1>3, <1>4, OthersKept

\* Everything is freed: the last band was the last that was held.
LEMMA CleanupInv == ASSUME Inv, NEW p \in Callers, Cleanup(p) PROVE Inv'
<1> USE DEF Inv, Types
<1>1. /\ ph[p] = "reduce" /\ band[p] = cut[p].n /\ cut[p].n \in Nat
  BY DEF Cleanup, Cuts
<1>2. /\ arrays' = [arrays EXCEPT ![p] = FALSE] /\ live' = [live EXCEPT ![p] = {}]
      /\ ph' = [ph EXCEPT ![p] = "idle"] /\ cut' = [cut EXCEPT ![p] = NoCut]
      /\ band' = [band EXCEPT ![p] = 0]
      /\ UNCHANGED <<memo, shape, held, worker>>
  BY DEF Cleanup, Goto
<1>3. Types'
  BY <1>2, NoCutLemma DEF Phases
<1>4. Team(p)'
  <2>1. held[p] = {} /\ Threaded(p) = {}
    BY <1>1 DEF Team, Interval
  <2> QED BY <1>1, <1>2, <2>1 DEF Team, Forked, NothingLeft, Threaded
<1> QED BY <1>2, <1>3, <1>4, OthersKept

\* A thread only moves on, so the bands that have one stay the same.
LEMMA WorkerInv ==
    ASSUME Inv, NEW p \in Callers, NEW t \in Bands, Worker(p, t) PROVE Inv'
<1> USE DEF Inv, Types
<1>1. PICK state \in {"run", "done"} : worker' = [worker EXCEPT ![p][t] = state]
  BY DEF Worker, WorkerLoad, WorkerRun
<1>2. /\ worker[p][t] # "none"
      /\ UNCHANGED <<memo, shape, ph, cut, band, arrays, held, live>>
  BY DEF Worker, WorkerLoad, WorkerRun, heap, loop
<1>3. Types'
  BY <1>1, <1>2
<1>4. Threaded(p)' = Threaded(p)
  BY <1>1, <1>2 DEF Threaded
<1>5. Team(p)'
  BY <1>2, <1>4 DEF Team, NothingLeft
<1> QED BY <1>1, <1>2, <1>3, <1>5, OthersKept

LEMMA NextInv == Inv /\ [Next]_vars => Inv'
<1> SUFFICES ASSUME Inv, [Next]_vars PROVE Inv'
  OBVIOUS
<1>1. ASSUME NEW p \in Callers, NEW s \in Shapes, Call(p, s) PROVE Inv'
  BY <1>1, CallInv
<1>2. ASSUME NEW p \in Callers, Caller(p) PROVE Inv'
  <2>1. CASE Nest(p) \/ Scan(p) \/ Zero(p) \/ Request(p) \/ Resolve(p) \/ Single(p)
    BY <2>1, AloneInv
  <2>2. CASE Axis(p) \/ KPath(p)
    BY <2>2, AxisInv
  <2>3. CASE OutOfMemory(p)
    BY <2>3 DEF OutOfMemory, Inv, Types, Team, NothingLeft, Threaded, heap, loop
  <2> QED BY <1>2, <2>1, <2>2, <2>3, ManyInv, SpawnInv, LoopEndInv, JoinInv, ReduceInv,
             CleanupInv DEF Caller
<1>3. ASSUME NEW p \in Callers, NEW t \in Bands, Worker(p, t) PROVE Inv'
  BY <1>3, WorkerInv
<1>4. CASE UNCHANGED vars
  BY <1>4 DEF vars, heap, loop, Inv, Types, Team, NothingLeft, Threaded
<1> QED BY <1>1, <1>2, <1>3, <1>4 DEF Next

\* The accounting implies the property: a thread lives only in a band that is held.
LEMMA InvHolds == Inv => BuffersHeld
<1> SUFFICES ASSUME Inv, NEW p \in Callers
             PROVE  /\ \A t \in Bands :
                          /\ worker[p][t] = "new" => arrays[p]
                          /\ worker[p][t] \in {"new", "run"} => t \in held[p] /\ Busy(p)
                    /\ ~Busy(p) => NothingLeft(p)
  BY DEF BuffersHeld, NothingLeft
<1>1. Team(p) /\ cut[p].n \in Nat /\ band[p] \in Nat
  BY DEF Inv, Types, Cuts
<1>2. ASSUME NEW t \in Threaded(p) PROVE arrays[p] /\ t \in held[p] /\ Busy(p)
  <2>1. ph[p] \in {"spawn", "join"}
    BY <1>1 DEF Team, NothingLeft, Forked
  <2> QED BY <1>1, <2>1 DEF Team, Forked, Busy, Interval
<1> QED BY <1>1, <1>2 DEF Threaded, Team, Forked, Busy

\* Every thread of the exact product finds its record and its private output
\* allocated, and a caller has freed all of it when it returns
\* (emit_gemm_exact_threaded and emit_gemm_exact_worker in src/cpu_gemm.rs).
THEOREM BuffersOutliveThreads == Spec => []BuffersHeld
<1>1. Spec => []Inv
  BY InitInv, NextInv, PTL DEF Spec
<1> QED BY <1>1, InvHolds, PTL

----------------------------------------------------------------------------
(* Where the bands of a cut lie *)

\* Where band t of n bands of an extent starts.
Base(extent, n, t) == t * (extent \div n) + imin(t, extent % n)
Band(extent, n, t) == Interval(Base(extent, n, t), Base(extent, n, t + 1))

\* A band starts where the one before it ends, the first at zero; the last ends
\* at the extent.
LEMMA Bases ==
    ASSUME NEW e \in Nat, NEW n \in Nat \ {0}
    PROVE  /\ Base(e, n, 0) = 0 /\ Base(e, n, n) = e
           /\ \A t \in Nat : /\ Base(e, n, t) \in Nat /\ BandLen(e, n, t) \in Nat
                             /\ Base(e, n, t + 1) = Base(e, n, t) + BandLen(e, n, t)
<1> DEFINE q == e \div n  r == e % n
<1>1. q \in Nat /\ r \in 0 .. (n - 1) /\ e = n * q + r
  BY Z3
<1> HIDE DEF q, r
<1>2. 0 * q = 0 /\ imin(0, r) = 0 /\ imin(n, r) = r
  BY <1>1 DEF imin
<1>3. ASSUME NEW t \in Nat
      PROVE /\ t * q \in Nat /\ (t + 1) * q = (t * q) + q
            /\ imin(t, r) \in Nat
            /\ imin(t + 1, r) = imin(t, r) + (IF t < r THEN 1 ELSE 0)
  <2>1. t * q \in Nat /\ (t + 1) * q = (t * q) + q
    BY <1>1, Z3
  <2> QED BY <1>1, <2>1 DEF imin
<1>4. n * q \in Nat
  BY <1>1, Z3
<1>5. Base(e, n, 0) = 0 /\ Base(e, n, n) = e
  BY <1>1, <1>2, <1>4 DEF Base, q, r
<1>6. ASSUME NEW t \in Nat
      PROVE  /\ Base(e, n, t) \in Nat /\ BandLen(e, n, t) \in Nat
             /\ Base(e, n, t + 1) = Base(e, n, t) + BandLen(e, n, t)
  <2>1. /\ Base(e, n, t) = (t * q) + imin(t, r)
        /\ Base(e, n, t + 1) = ((t + 1) * q) + imin(t + 1, r)
        /\ BandLen(e, n, t) = q + (IF t < r THEN 1 ELSE 0)
    BY DEF Base, BandLen, q, r
  <2>2. /\ t * q \in Nat /\ (t + 1) * q = (t * q) + q
        /\ imin(t, r) \in Nat
        /\ imin(t + 1, r) = imin(t, r) + (IF t < r THEN 1 ELSE 0)
    BY <1>3
  <2>3. t \in Nat /\ q \in Nat /\ r \in Nat
    BY <1>1
  <2> DEFINE a == t * q  b == (t + 1) * q  c == imin(t, r)  d == imin(t + 1, r)
             x == Base(e, n, t)  y == Base(e, n, t + 1)  z == BandLen(e, n, t)
  <2>4. /\ x = a + c /\ y = b + d /\ z = q + (IF t < r THEN 1 ELSE 0)
        /\ a \in Nat /\ b = a + q /\ c \in Nat /\ d = c + (IF t < r THEN 1 ELSE 0)
    BY <2>1, <2>2
  <2> HIDE DEF a, b, c, d, x, y, z
  <2>5. x \in Nat /\ z \in Nat /\ y = x + z
    BY <2>3, <2>4
  <2> QED BY <2>5 DEF x, y, z
<1> QED BY <1>5, <1>6

\* Bands come in order,
LEMMA BasesGrow ==
    ASSUME NEW e \in Nat, NEW n \in Nat \ {0}, NEW t \in Nat, NEW u \in Nat, t <= u
    PROVE  Base(e, n, t) <= Base(e, n, u)
<1> DEFINE q == e \div n  r == e % n
<1>1. q \in Nat /\ r \in 0 .. (n - 1)
  BY Z3
<1> HIDE DEF q, r
<1>2. t * q <= u * q /\ t * q \in Nat /\ u * q \in Nat
  BY <1>1, Z3
<1>3. imin(t, r) <= imin(u, r) /\ imin(t, r) \in Nat /\ imin(u, r) \in Nat
  BY <1>1 DEF imin
<1> QED BY <1>2, <1>3 DEF Base, q, r

\* so no two share an element,
LEMMA BandsApart ==
    ASSUME NEW e \in Nat, NEW n \in Nat \ {0}, NEW t \in Nat, NEW u \in Nat,
           NEW i \in Band(e, n, t), i \in Band(e, n, u)
    PROVE  t = u
<1>1. /\ Base(e, n, t) \in Nat /\ Base(e, n, t + 1) \in Nat
      /\ Base(e, n, u) \in Nat /\ Base(e, n, u + 1) \in Nat
  BY Bases
<1>2. /\ i \in Int /\ Base(e, n, t) <= i /\ i < Base(e, n, t + 1)
      /\ Base(e, n, u) <= i /\ i < Base(e, n, u + 1)
  BY <1>1 DEF Band, Interval
<1>3. CASE t + 1 <= u
  <2>1. Base(e, n, t + 1) <= Base(e, n, u)
    BY <1>3, BasesGrow
  <2> QED BY <1>1, <1>2, <2>1
<1>4. CASE u + 1 <= t
  <2>1. Base(e, n, u + 1) <= Base(e, n, t)
    BY <1>4, BasesGrow
  <2> QED BY <1>1, <1>2, <2>1
<1> QED BY <1>3, <1>4

\* and every element of the extent is in one: the band before the first that
\* starts after it.
LEMMA BandsCover ==
    ASSUME NEW e \in Nat, NEW n \in Nat \ {0}, NEW i \in Interval(0, e)
    PROVE  \E t \in Interval(0, n) : i \in Band(e, n, t)
<1> DEFINE R == OpToRel(<, Nat)
           T == {t \in Nat : i < Base(e, n, t)}
<1>1. n \in T /\ i \in Nat
  BY Bases DEF Interval
<1>2. IsWellFoundedOn(R, Nat)
  BY NatLessThanWellFounded
<1>3. PICK x \in T : \A y \in T : <<y, x>> \notin R
  <2>1. T \subseteq Nat /\ T # {}
    BY <1>1
  <2> HIDE DEF R, T
  <2> QED BY <1>2, <2>1, WFMin
<1>4. x # 0
  BY <1>1, Bases
<1>5. x - 1 \in Nat /\ (x - 1) + 1 = x /\ x <= n
  <2>1. x \in Nat /\ (n < x => <<n, x>> \in R)
    BY DEF OpToRel
  <2>2. ~(n < x)
    BY <1>1, <1>3, <2>1
  <2> HIDE DEF R, T
  <2> QED BY <1>4, <2>1, <2>2
<1>6. ~(i < Base(e, n, x - 1))
  <2>1. <<x - 1, x>> \in R
    BY <1>5 DEF OpToRel
  <2> QED BY <1>3, <1>5, <2>1
<1>7. Base(e, n, x - 1) \in Nat /\ Base(e, n, x) \in Nat /\ i < Base(e, n, x)
  BY <1>5, Bases
<1>8. i \in Band(e, n, x - 1)
  BY <1>1, <1>5, <1>6, <1>7 DEF Band, Interval
<1>9. x - 1 \in Interval(0, n)
  BY <1>5 DEF Interval
<1> QED BY <1>8, <1>9

\* The bands lie within the extent.
LEMMA BandsWithin ==
    ASSUME NEW e \in Nat, NEW n \in Nat \ {0}, NEW t \in Interval(0, n)
    PROVE  Band(e, n, t) \subseteq Interval(0, e) /\ Base(e, n, t) <= e
<1>1. t \in Nat /\ t + 1 \in Nat /\ t + 1 <= n /\ t <= n
  BY DEF Interval
<1>2. Base(e, n, t) \in Nat /\ Base(e, n, t + 1) \in Nat
  BY <1>1, Bases
<1>3. Base(e, n, t + 1) <= Base(e, n, n) /\ Base(e, n, t) <= Base(e, n, n)
  BY <1>1, BasesGrow
<1>4. Base(e, n, n) = e
  BY Bases
<1> QED BY <1>2, <1>3, <1>4 DEF Band, Interval

----------------------------------------------------------------------------
(* What a buffer holds, row by row *)

Rows(s) == Interval(0, s.M)
\* Address x is in row i of the output.
InRow(s, x, i) == \E j \in Interval(0, s.N) : i * s.ldc + j = x
\* The terms are added to every number of some rows.
AddRows(mem, s, rows, terms) ==
    [x \in DOMAIN mem |->
        IF \E i \in rows : InRow(s, x, i) THEN Add(mem[x], terms) ELSE mem[x]]

\* A buffer holds val[i] throughout row i, and is otherwise as it was.
Holds(mem, s, val) ==
    /\ mem = [x \in Addr |-> mem[x]]
    /\ \A x \in Addr, i \in Rows(s) : InRow(s, x, i) => mem[x] = val[i]
    /\ \A x \in Addr : (\A i \in Rows(s) : ~InRow(s, x, i)) => mem[x] = Old

Untouched == [x \in Addr |-> Old]
\* A private output all of whose numbers are v.
Uniform(s, v) == [x \in Interval(0, s.M * s.N) |-> v]
\* A call that computes something, licensed, its operands within their bounds.
Proper(s) == Licensed(s.bound) /\ ~Outside(s) /\ ~Empty(s) /\ s.K > 0

\* Nothing between -k and k but 0 is a multiple of k,
LEMMA NoMultiple ==
    ASSUME NEW k \in Nat \ {0}, NEW d \in Int, k * d < k, 0 - k < k * d
    PROVE  d = 0
<1>1. CASE d >= 1
  BY <1>1, Z3
<1>2. CASE d <= 0 - 1
  BY <1>2, Z3
<1> QED BY <1>1, <1>2

\* so with a stride no smaller than the width an address is in one row.
LEMMA RowsApart ==
    ASSUME NEW s \in Shapes, NEW x, NEW i \in Int, NEW k \in Int,
           InRow(s, x, i), InRow(s, x, k)
    PROVE  i = k
<1>1. PICK j \in Interval(0, s.N) : i * s.ldc + j = x
  BY DEF InRow
<1>2. PICK l \in Interval(0, s.N) : k * s.ldc + l = x
  BY DEF InRow
<1>3. /\ s.ldc \in Nat \ {0} /\ j \in Int /\ l \in Int
      /\ 0 <= j /\ j < s.ldc /\ 0 <= l /\ l < s.ldc
  BY ShapesAssumption DEF Interval
<1> DEFINE w == s.ldc
<1>4. w \in Nat \ {0} /\ i * w + j = k * w + l
  BY <1>1, <1>2, <1>3
<1> HIDE DEF w
<1>5. i * w \in Int /\ k * w \in Int /\ w * (i - k) = (i * w) - (k * w)
  BY <1>4, Z3
<1>6. i - k \in Int /\ w * (i - k) < w /\ 0 - w < w * (i - k)
  BY <1>3, <1>4, <1>5 DEF w
<1>7. i - k = 0
  BY <1>4, <1>6, NoMultiple
<1> QED BY <1>7

\* The cells of r rows from row o on.
LEMMA CellsRows ==
    ASSUME NEW s \in Shapes, NEW o \in Nat, NEW r \in Int, NEW x
    PROVE  (\E c \in Cells(0, r, 0, s.N) : o * s.ldc + At(c, s.ldc) = x)
             <=> \E i \in Interval(o, o + r) : InRow(s, x, i)
<1>1. s.ldc \in Int /\ s.N \in Int
  BY ShapesAssumption
<1>2. ASSUME NEW i \in Int
      PROVE  (o + i) * s.ldc = o * s.ldc + i * s.ldc /\ o * s.ldc \in Int /\ i * s.ldc \in Int
  BY <1>1, Z3
<1>3. ASSUME NEW c \in Cells(0, r, 0, s.N), o * s.ldc + At(c, s.ldc) = x
      PROVE  \E i \in Interval(o, o + r) : InRow(s, x, i)
  <2>1. /\ c[1] \in Int /\ c[2] \in Int /\ c[2] \in Interval(0, s.N)
        /\ o + c[1] \in Interval(o, o + r)
    BY <1>1 DEF Cells, Interval
  <2>2. (o + c[1]) * s.ldc = o * s.ldc + c[1] * s.ldc /\ o * s.ldc \in Int /\ c[1] * s.ldc \in Int
    BY <1>2, <2>1
  <2>3. (o + c[1]) * s.ldc + c[2] = x
    BY <1>3, <2>1, <2>2 DEF At
  <2> QED BY <2>1, <2>3 DEF InRow
<1>4. ASSUME NEW i \in Interval(o, o + r), InRow(s, x, i)
      PROVE  \E c \in Cells(0, r, 0, s.N) : o * s.ldc + At(c, s.ldc) = x
  <2>1. PICK j \in Interval(0, s.N) : i * s.ldc + j = x
    BY <1>4 DEF InRow
  <2> DEFINE k == i - o  c == <<k, j>>
  <2>2. k \in Interval(0, r) /\ k \in Int /\ i = o + k /\ j \in Int
    BY <1>1 DEF Interval
  <2> HIDE DEF k
  <2>3. i * s.ldc = o * s.ldc + k * s.ldc /\ o * s.ldc \in Int /\ k * s.ldc \in Int
    BY <1>2, <2>2
  <2>4. c \in Cells(0, r, 0, s.N) /\ o * s.ldc + At(c, s.ldc) = x
    BY <2>1, <2>2, <2>3 DEF Cells, At
  <2> HIDE DEF c
  <2> QED BY <2>4
<1> QED BY <1>3, <1>4

\* The same for the whole output.
LEMMA CellsAll ==
    ASSUME NEW s \in Shapes, NEW x
    PROVE  (\E c \in Cells(0, s.M, 0, s.N) : 0 + At(c, s.ldc) = x)
             <=> \E i \in Rows(s) : InRow(s, x, i)
<1>1. s.M \in Int /\ s.ldc \in Int
  BY ShapesAssumption
<1>2. 0 * s.ldc = 0 /\ 0 + s.M = s.M
  BY <1>1, Z3
<1>3. (\E c \in Cells(0, s.M, 0, s.N) : 0 * s.ldc + At(c, s.ldc) = x)
             <=> \E i \in Interval(0, 0 + s.M) : InRow(s, x, i)
  BY <1>1, CellsRows
<1> QED BY <1>2, <1>3 DEF Rows

\* The kernel over r rows from row o on.
LEMMA AccumulatedRows ==
    ASSUME NEW s \in Shapes, NEW mem, NEW o \in Nat, NEW j,
           j.base = o * s.ldc, j.ld = s.ldc, j.rows \in Int
    PROVE  Accumulated(mem, s, j) =
              AddRows(mem, s, Interval(o, o + j.rows), ChunkSum(s, j.k0, j.len))
<1> DEFINE v == ChunkSum(s, j.k0, j.len)  cells == Cells(0, j.rows, 0, s.N)
           on(x) == \E c \in cells : j.base + At(c, j.ld) = x
           at(x) == CHOOSE c \in cells : j.base + At(c, j.ld) = x
<1>1. Accumulated(mem, s, j) =
        [x \in DOMAIN mem |-> IF on(x) THEN Add(mem[j.base + At(at(x), j.ld)], v) ELSE mem[x]]
  BY DEF Accumulated, Stored
<1>2. ASSUME NEW x, on(x) PROVE j.base + At(at(x), j.ld) = x
  BY <1>2
<1>3. ASSUME NEW x PROVE on(x) <=> \E i \in Interval(o, o + j.rows) : InRow(s, x, i)
  <2>1. (\E c \in Cells(0, j.rows, 0, s.N) : o * s.ldc + At(c, s.ldc) = x)
          <=> \E i \in Interval(o, o + j.rows) : InRow(s, x, i)
    BY CellsRows
  <2> QED BY <2>1
<1> HIDE DEF v, cells, on, at
<1>4. Accumulated(mem, s, j) = [x \in DOMAIN mem |-> IF on(x) THEN Add(mem[x], v) ELSE mem[x]]
  BY <1>1, <1>2
<1> QED BY <1>3, <1>4 DEF AddRows, v

\* It adds to what the rows hold.
LEMMA AddRowsHold ==
    ASSUME NEW s \in Shapes, NEW mem, NEW val, NEW rows, NEW v,
           rows \subseteq Rows(s), Holds(mem, s, val)
    PROVE  Holds(AddRows(mem, s, rows, v), s,
                 [i \in Rows(s) |-> IF i \in rows THEN Add(val[i], v) ELSE val[i]])
<1> DEFINE new == AddRows(mem, s, rows, v)
           val2 == [i \in Rows(s) |-> IF i \in rows THEN Add(val[i], v) ELSE val[i]]
<1>1. mem = [x \in Addr |-> mem[x]] /\ DOMAIN mem = Addr
  BY DEF Holds
<1>2. /\ new = [x \in Addr |-> new[x]]
      /\ \A x \in Addr : new[x] = IF \E i \in rows : InRow(s, x, i)
                                  THEN Add(mem[x], v) ELSE mem[x]
  BY <1>1 DEF AddRows
<1>3. ASSUME NEW x \in Addr, NEW i \in Rows(s), InRow(s, x, i) PROVE new[x] = val2[i]
  <2>1. mem[x] = val[i]
    BY <1>3 DEF Holds
  <2>2. ASSUME NEW k \in rows, InRow(s, x, k) PROVE k = i
    <3>1. k \in Int /\ i \in Int
      BY ShapesAssumption DEF Rows, Interval
    <3> QED BY <1>3, <2>2, <3>1, RowsApart
  <2>3. (\E k \in rows : InRow(s, x, k)) <=> i \in rows
    BY <1>3, <2>2
  <2> QED BY <1>2, <2>1, <2>3
<1>4. ASSUME NEW x \in Addr, \A i \in Rows(s) : ~InRow(s, x, i) PROVE new[x] = Old
  BY <1>2, <1>4 DEF Holds
<1> HIDE DEF new, val2
<1>5. Holds(new, s, val2)
  BY <1>2, <1>3, <1>4 DEF Holds
<1> QED BY <1>5 DEF new, val2

LEMMA HoldsSame ==
    ASSUME NEW s, NEW mem, NEW val, NEW val2, Holds(mem, s, val),
           \A i \in Rows(s) : val2[i] = val[i]
    PROVE  Holds(mem, s, val2)
BY DEF Holds

\* The zeroed rectangle.
LEMMA ZeroHeld ==
    ASSUME NEW s \in Shapes
    PROVE  Holds(Stored(Untouched, 0, Cells(0, s.M, 0, s.N), s.ldc, LAMBDA c : {}),
                 s, [i \in Rows(s) |-> {}])
<1> DEFINE new == Stored(Untouched, 0, Cells(0, s.M, 0, s.N), s.ldc, LAMBDA c : {})
<1>1. new = [x \in Addr |-> IF \E i \in Rows(s) : InRow(s, x, i) THEN {} ELSE Old]
  BY CellsAll DEF Stored, Untouched
<1> HIDE DEF new
<1>2. Holds(new, s, [i \in Rows(s) |-> {}])
  BY <1>1 DEF Holds
<1> QED BY <1>2 DEF new

\* A buffer whose rows hold every term is the product.
LEMMA ProductHeld ==
    ASSUME NEW s \in Shapes, NEW mem, ~Empty(s),
           Holds(mem, s, [i \in Rows(s) |-> Interval(0, s.K)])
    PROVE  mem = Product(s)
<1>1. Product(s) =
        [x \in Addr |-> IF \E i \in Rows(s) : InRow(s, x, i) THEN Interval(0, s.K) ELSE Old]
  BY CellsAll DEF Product, ProductIn, Stored
<1>2. \A x \in Addr : mem[x] = IF \E i \in Rows(s) : InRow(s, x, i)
                               THEN Interval(0, s.K) ELSE Old
  BY DEF Holds
<1>3. mem = [x \in Addr |-> mem[x]]
  BY DEF Holds
<1> QED BY <1>1, <1>2, <1>3

----------------------------------------------------------------------------
(* Sums *)

\* Terms are added to zero, or to the terms before them.
LEMMA AddTerms ==
    ASSUME NEW a \in Nat, NEW b \in Nat, a <= b
    PROVE  /\ Add({}, Interval(a, b)) = Interval(a, b)
           /\ Add(Interval(0, a), Interval(a, b)) = Interval(0, b)
<1>1. Interval(a, b) # Bad /\ Interval(0, a) \notin {Old, Bad} /\ {} \notin {Old, Bad}
  <2>1. -1 \in Old /\ -2 \in Bad /\ -1 \notin Nat /\ -2 \notin Nat
    BY DEF Old, Bad
  <2>2. Interval(a, b) \subseteq Nat /\ Interval(0, a) \subseteq Nat
    BY DEF Interval
  <2> QED BY <2>1, <2>2
<1>2. Interval(0, a) \cap Interval(a, b) = {} /\ Interval(0, a) \cup Interval(a, b) = Interval(0, b)
  BY DEF Interval
<1> QED BY <1>1, <1>2 DEF Add

\* A licensed nest on operands within their bounds never overflows int32: an
\* interval is 2 * FLUSH_K_PAIRS products of at most bound * bound.
LEMMA ChunkExact ==
    ASSUME NEW s \in Shapes, Proper(s), NEW k0 \in Int, NEW len \in Int
    PROVE  ChunkSum(s, k0, len) = Interval(k0, k0 + len)
<1> DEFINE f == FLUSH_K_PAIRS  b == s.bound  ma == s.magA  mb == s.magB
           kpairs == (len + 1) \div 2
           starts == {c \in Interval(0, kpairs) : c % FLUSH_K_PAIRS = 0}
           products(c) == imin(2 * (imin(c + FLUSH_K_PAIRS, kpairs) - c), len - 2 * c)
<1>1. /\ f \in Nat \ {0} /\ b \in Nat /\ ma \in Nat /\ mb \in Nat /\ ma <= b /\ mb <= b
      /\ 2 * f * b * b <= I32_MAX /\ I32_MAX \in Nat
  <2>1. s.M \in Int /\ s.N \in Int /\ s.K \in Int /\ s.M > 0 /\ s.N > 0 /\ s.K > 0
    BY ShapesAssumption DEF Proper, Empty
  <2> QED BY <2>1, ShapesAssumption, SizesAssumption DEF Proper, Licensed, Outside
<1>2. ASSUME NEW c \in starts
      PROVE  products(c) \in Int /\ products(c) <= 2 * f
  <2>1. c \in Int /\ kpairs \in Int
    BY DEF Interval
  <2> HIDE DEF kpairs
  <2> QED BY <1>1, <2>1 DEF imin
<1>3. ASSUME NEW n \in Int, n <= 2 * f
      PROVE  n * ma * mb <= I32_MAX
  <2> HIDE DEF f, b, ma, mb
  <2>1. ma * mb \in Nat /\ ma * mb <= b * b /\ b * b \in Nat
    <3>1. ma * mb <= b * mb /\ b * mb <= b * b /\ ma * mb \in Nat /\ b * mb \in Nat /\ b * b \in Nat
      BY <1>1, Z3
    <3> QED BY <3>1
  <2> DEFINE x == ma * mb  y == b * b
  <2>2. n * ma * mb = n * x /\ 2 * f * b * b = (2 * f) * y
    BY <1>1, Z3
  <2> HIDE DEF x, y
  <2>3. x \in Nat /\ y \in Nat /\ x <= y
    BY <2>1 DEF x, y
  <2>4. n * x <= (2 * f) * x /\ (2 * f) * x <= (2 * f) * y
        /\ n * x \in Int /\ (2 * f) * x \in Int /\ (2 * f) * y \in Int
    BY <1>1, <1>3, <2>3, Z3
  <2> QED BY <1>1, <2>2, <2>4
<1>4. \A c \in starts : ~(products(c) * s.magA * s.magB > I32_MAX)
  <2> SUFFICES ASSUME NEW c \in starts PROVE ~(products(c) * s.magA * s.magB > I32_MAX)
    OBVIOUS
  <2> DEFINE n == products(c)
  <2>1. n \in Int /\ n <= 2 * f
    BY <1>2
  <2> HIDE DEF n
  <2>2. n * ma * mb <= I32_MAX /\ n * ma * mb \in Int
    BY <1>1, <1>3, <2>1
  <2>3. ~(n * s.magA * s.magB > I32_MAX)
    BY <1>1, <2>2
  <2> QED BY <2>3 DEF n
<1> QED BY <1>4 DEF ChunkSum

----------------------------------------------------------------------------
(* Private outputs *)

\* Row i, column j of a compact output is at address i * N + j, and every address
\* of it is one.
LEMMA PanelCells ==
    ASSUME NEW s \in Shapes, ~Empty(s)
    PROVE  /\ \A c \in Cells(0, s.M, 0, s.N) : At(c, s.N) \in Interval(0, s.M * s.N)
           /\ \A x \in Interval(0, s.M * s.N) :
                 \E c \in Cells(0, s.M, 0, s.N) : 0 + At(c, s.N) = x
<1> DEFINE m == s.M  w == s.N
<1>1. m \in Nat \ {0} /\ w \in Nat \ {0}
  BY ShapesAssumption DEF Empty
<1> HIDE DEF m, w
<1>2. ASSUME NEW i \in Interval(0, m), NEW j \in Interval(0, w)
      PROVE  i * w + j \in Interval(0, m * w)
  <2>1. i \in Nat /\ i + 1 <= m /\ j \in Nat /\ j < w
    BY <1>1, <1>2 DEF Interval
  <2>2. i * w \in Nat /\ (i + 1) * w <= m * w /\ (i + 1) * w = (i * w) + w /\ m * w \in Nat
    BY <1>1, <2>1, Z3
  <2> QED BY <1>1, <2>1, <2>2 DEF Interval
<1>3. ASSUME NEW x \in Interval(0, m * w)
      PROVE  \E i \in Interval(0, m), j \in Interval(0, w) : i * w + j = x
  <2> DEFINE i == x \div w  j == x % w
  <2>1. x \in Nat /\ x < m * w
    BY <1>1, Z3 DEF Interval
  <2>2. i \in Nat /\ j \in 0 .. (w - 1) /\ x = w * i + j
    BY <1>1, <2>1, Z3
  <2> HIDE DEF i, j
  <2>3. i < m
    <3>1. m <= i => m * w <= w * i /\ m * w \in Int /\ w * i \in Int
      BY <1>1, <2>2, Z3
    <3> QED BY <1>1, <2>1, <2>2, <3>1
  <2>4. w * i = i * w /\ i * w \in Int
    BY <1>1, <2>2, Z3
  <2>5. i \in Interval(0, m) /\ j \in Interval(0, w) /\ i * w + j = x
    BY <1>1, <2>2, <2>3, <2>4 DEF Interval
  <2> QED BY <2>5
<1>4. \A c \in Cells(0, s.M, 0, s.N) : At(c, s.N) \in Interval(0, s.M * s.N)
  BY <1>2 DEF Cells, At, m, w
<1>5. ASSUME NEW x \in Interval(0, s.M * s.N)
      PROVE  \E c \in Cells(0, s.M, 0, s.N) : 0 + At(c, s.N) = x
  <2>1. PICK i \in Interval(0, m), j \in Interval(0, w) : i * w + j = x
    BY <1>3 DEF m, w
  <2> DEFINE c == <<i, j>>
  <2>2. c \in Cells(0, s.M, 0, s.N) /\ x \in Int /\ At(c, s.N) = x
    BY <1>1, <2>1, Z3 DEF Cells, At, m, w, Interval
  <2> HIDE DEF c
  <2> QED BY <2>2
<1> QED BY <1>4, <1>5

\* The kernel over a private output that is zero.
LEMMA AccumulatedPanel ==
    ASSUME NEW s \in Shapes, ~Empty(s), NEW j, j.base = 0, j.ld = s.N, j.rows = s.M
    PROVE  Accumulated(Uniform(s, {}), s, j) = Uniform(s, Add({}, ChunkSum(s, j.k0, j.len)))
<1> DEFINE v == ChunkSum(s, j.k0, j.len)  cells == Cells(0, s.M, 0, s.N)
           zero == Uniform(s, {})
           on(x) == \E c \in cells : 0 + At(c, s.N) = x
           at(x) == CHOOSE c \in cells : 0 + At(c, s.N) = x
<1>1. Accumulated(zero, s, j) =
        [x \in DOMAIN zero |-> IF on(x) THEN Add(zero[0 + At(at(x), s.N)], v) ELSE zero[x]]
  BY DEF Accumulated, Stored
<1>2. DOMAIN zero = Interval(0, s.M * s.N) /\ \A x \in DOMAIN zero : zero[x] = {}
  BY DEF Uniform
<1>3. ASSUME NEW x, on(x) PROVE 0 + At(at(x), s.N) = x
  BY <1>3
<1>4. \A x \in DOMAIN zero : on(x)
  BY <1>2, PanelCells
<1> HIDE DEF v, zero, on, at
<1>5. Accumulated(zero, s, j) = [x \in Interval(0, s.M * s.N) |-> Add({}, v)]
  BY <1>1, <1>2, <1>3, <1>4
<1> QED BY <1>5 DEF zero, v, Uniform

\* A private output is added to the output.
Merged(mem, s, out) ==
    Stored(mem, 0, Cells(0, s.M, 0, s.N), s.ldc,
           LAMBDA c : Add(mem[At(c, s.ldc)], out[At(c, s.N)]))

LEMMA PanelAdded ==
    ASSUME NEW s \in Shapes, ~Empty(s), NEW mem, NEW out, NEW v, out = Uniform(s, v)
    PROVE  Merged(mem, s, out) = AddRows(mem, s, Rows(s), v)
<1> DEFINE cells == Cells(0, s.M, 0, s.N)
           on(x) == \E c \in cells : 0 + At(c, s.ldc) = x
           at(x) == CHOOSE c \in cells : 0 + At(c, s.ldc) = x
           new == Merged(mem, s, out)
<1>1. new = [x \in DOMAIN mem |->
               IF on(x) THEN Add(mem[At(at(x), s.ldc)], out[At(at(x), s.N)]) ELSE mem[x]]
  BY DEF Merged, Stored
<1>2. ASSUME NEW x, on(x) PROVE at(x) \in cells /\ 0 + At(at(x), s.ldc) = x
  BY <1>2
<1>3. ASSUME NEW c \in cells PROVE out[At(c, s.N)] = v /\ 0 + At(c, s.ldc) = At(c, s.ldc)
  <2>1. out[At(c, s.N)] = v
    BY PanelCells DEF Uniform
  <2>2. At(c, s.ldc) \in Int
    BY ShapesAssumption, Z3 DEF Cells, At, Interval
  <2> QED BY <2>1, <2>2
<1>4. ASSUME NEW x PROVE on(x) <=> \E i \in Rows(s) : InRow(s, x, i)
  BY CellsAll
<1> HIDE DEF cells, on, at, new
<1>5. new = [x \in DOMAIN mem |-> IF on(x) THEN Add(mem[x], v) ELSE mem[x]]
  BY <1>1, <1>2, <1>3
<1>6. new = AddRows(mem, s, Rows(s), v)
  BY <1>4, <1>5 DEF AddRows
<1> QED BY <1>6 DEF new

----------------------------------------------------------------------------
(* What the buffers hold in each phase *)

\* The extent that is cut, the part of band t, and the bands that are computed.
Extent(p) == IF cut[p].axis = "rows" THEN shape[p].M ELSE shape[p].K
Start(p, t) == Base(Extent(p), cut[p].n, t)
Share(p, t) == Band(Extent(p), cut[p].n, t)
Begun(p) == IF ph[p] = "spawn" THEN band[p] ELSE cut[p].n
Finished(p) == {t \in Interval(0, Begun(p)) : worker[p][t] \notin {"new", "run"}}

\* What the output holds in row i: nothing, what the bands reduced so far have
\* summed, or everything once the band of the row is computed.
RowSum(p, i) ==
    IF ph[p] \notin Forked THEN {}
    ELSE IF cut[p].axis = "rows"
    THEN IF \E t \in Finished(p) : i \in Share(p, t) THEN Interval(0, shape[p].K) ELSE {}
    ELSE IF ph[p] = "reduce" THEN Interval(0, Start(p, band[p])) ELSE {}

Past == {"request", "resolve", "axis", "kpath", "single", "many"} \cup Forked
\* The bands whose private outputs have still to be added.
Unreduced(p) == Interval(IF ph[p] = "reduce" THEN band[p] ELSE 0, Begun(p))

Right(p) ==
    /\ ph[p] \in {"scan", "zero"} => Licensed(shape[p].bound) /\ C[p] = Untouched
    /\ ph[p] = "zero" => ~Outside(shape[p])
    /\ ph[p] \in Past =>
          /\ Proper(shape[p])
          /\ Holds(C[p], shape[p], [i \in Rows(shape[p]) |-> RowSum(p, i)])
    /\ ph[p] = "spawn" => off[p] = Start(p, band[p])
    /\ ph[p] \in Forked =>
          \A t \in Interval(0, Begun(p)) :
             job[p][t] = JobFor(shape[p], cut[p], t, Start(p, t))
    /\ ph[p] \in Forked /\ cut[p].axis = "sum" =>
          \A t \in Unreduced(p) :
             panel[p][t] = Uniform(shape[p], IF t \in Finished(p) THEN Share(p, t) ELSE {})

Memory ==
    /\ DOMAIN C = Callers /\ DOMAIN off = Callers
    /\ DOMAIN job = Callers /\ \A p \in Callers : DOMAIN job[p] = Bands
    /\ DOMAIN panel = Callers /\ \A p \in Callers : DOMAIN panel[p] = Bands

RightInv == Inv /\ Memory /\ \A p \in Callers : Right(p)

\* A step of caller p or of its threads changes nothing of another call.
OnlyOf(p) ==
    \A q \in Callers \ {p} :
        /\ shape'[q] = shape[q] /\ ph'[q] = ph[q] /\ C'[q] = C[q] /\ cut'[q] = cut[q]
        /\ band'[q] = band[q] /\ off'[q] = off[q] /\ job'[q] = job[q] /\ panel'[q] = panel[q]
        /\ worker'[q] = worker[q]

\* What caller p sees of a step is a step of the contract, or nothing.
Promised(p) == [Contract(p)!Next]_(Contract(p)!vars)

LEMMA InitRight == Init => RightInv
<1> SUFFICES ASSUME Init PROVE Memory /\ \A p \in Callers : Right(p)
  BY InitInv DEF RightInv
<1> QED BY DEF Init, Memory, Right, Past, Forked

LEMMA InitPromised == Init => \A p \in Callers : Contract(p)!Init
BY DEF Init, Contract!Init, Busy

\* The three things a caller may see: nothing, the call, and the return.
LEMMA Unseen ==
    ASSUME NEW p \in Callers, shape'[p] = shape[p],
           \/ ph[p] # "idle" /\ ph'[p] # "idle"
           \/ ph'[p] = ph[p] /\ C'[p] = C[p]
    PROVE  Promised(p)
BY DEF Promised, Contract!vars, Busy

LEMMA Called ==
    ASSUME NEW p \in Callers, ph[p] = "idle", ph'[p] # "idle", shape'[p] \in Shapes
    PROVE  Promised(p)
BY DEF Promised, Contract!Next, Contract!Call, Busy

LEMMA Returned ==
    ASSUME NEW p \in Callers, ph[p] # "idle", ph'[p] = "idle", shape'[p] = shape[p],
           C'[p] = Product(shape[p])
    PROVE  Promised(p)
BY DEF Promised, Contract!Next, Contract!Return, Busy

LEMMA StepRight ==
    ASSUME RightInv, Inv', Memory', NEW p \in Callers, OnlyOf(p), Right(p)', Promised(p)
    PROVE  RightInv' /\ \A q \in Callers : Promised(q)
<1> SUFFICES ASSUME NEW q \in Callers \ {p} PROVE Right(q)' /\ Promised(q)
  BY DEF RightInv
<1>1. Right(q)'
  BY DEF RightInv, OnlyOf, Right, RowSum, Finished, Unreduced, Begun, Share, Start, Extent
<1>2. Promised(q)
  BY Unseen DEF OnlyOf
<1> QED BY <1>1, <1>2

LEMMA ProperShape ==
    ASSUME NEW s \in Shapes, Proper(s)
    PROVE  s.M \in Nat \ {0} /\ s.N \in Nat \ {0} /\ s.K \in Nat \ {0} /\ ~Empty(s)
BY ShapesAssumption DEF Proper, Empty

\* The cut of a call that computes something.
LEMMA Cutting ==
    ASSUME RightInv, NEW p \in Callers, ph[p] \in Past
    PROVE  /\ shape[p] \in Shapes /\ Proper(shape[p])
           /\ shape[p].M \in Nat \ {0} /\ shape[p].N \in Nat \ {0} /\ shape[p].K \in Nat \ {0}
           /\ Extent(p) \in Nat /\ cut[p].n \in Nat \ {0} /\ cut[p].axis \in {"rows", "sum"}
<1>1. shape[p] \in Shapes /\ Proper(shape[p])
  BY DEF RightInv, Inv, Types, Right
<1>2. cut[p].n \in Nat \ {0} /\ cut[p].axis \in {"rows", "sum"}
  BY MaxBandsLemma, RequestsAssumption DEF RightInv, Inv, Types, Cuts
<1> QED BY <1>1, <1>2, ProperShape DEF Extent

----------------------------------------------------------------------------
(* The steps of a caller that has no team *)

Stepped(p) == Memory' /\ OnlyOf(p) /\ Right(p)' /\ Promised(p)

LEMMA CallRight ==
    ASSUME RightInv, NEW p \in Callers, NEW s \in Shapes, Call(p, s) PROVE Stepped(p)
<1>1. /\ shape' = [shape EXCEPT ![p] = s] /\ C' = [C EXCEPT ![p] = Untouched]
      /\ ph[p] = "idle"
      /\ UNCHANGED <<cut, band, off, job, panel, worker>>
  BY DEF Call, loop, heap, Untouched
<1>2. PICK where \in {"scan", "nest"} :
         /\ ph' = [ph EXCEPT ![p] = where]
         /\ where = "scan" => Licensed(s.bound)
  BY DEF Call, Goto
<1>3. p \in DOMAIN ph /\ p \in DOMAIN shape /\ p \in DOMAIN C
  BY DEF RightInv, Inv, Types, Memory
<1>4. Memory' /\ OnlyOf(p)
  BY <1>1, <1>2 DEF RightInv, Memory, OnlyOf
<1>5. shape'[p] = s /\ C'[p] = Untouched /\ ph'[p] = where
  BY <1>1, <1>2, <1>3
<1>6. Right(p)'
  BY <1>2, <1>5 DEF Right, Past, Forked
<1>7. Promised(p)
  BY <1>1, <1>2, <1>5, Called
<1> QED BY <1>4, <1>6, <1>7 DEF Stepped

\* The scalar nest returns, or stops the process.
LEMMA NestRight == ASSUME RightInv, NEW p \in Callers, Nest(p) PROVE Stepped(p)
<1>1. /\ ph[p] = "nest"
      /\ \/ UNCHANGED <<C, ph>>
         \/ C' = [C EXCEPT ![p] = Product(shape[p])] /\ ph' = [ph EXCEPT ![p] = "idle"]
      /\ UNCHANGED <<shape, cut, band, off, job, panel, worker>>
  BY DEF Nest, Goto, loop, heap
<1>2. p \in DOMAIN ph /\ p \in DOMAIN C
  BY DEF RightInv, Inv, Types, Memory
<1>3. Memory' /\ OnlyOf(p)
  BY <1>1 DEF RightInv, Inv, Types, Memory, OnlyOf
<1>4. Right(p)'
  BY <1>1, <1>2 DEF Right, Past, Forked
<1>5. Promised(p)
  <2>1. CASE UNCHANGED <<C, ph>>
    BY <1>1, <2>1, Unseen
  <2>2. CASE C' = [C EXCEPT ![p] = Product(shape[p])] /\ ph' = [ph EXCEPT ![p] = "idle"]
    BY <1>1, <1>2, <2>2, Returned
  <2> QED BY <1>1, <2>1, <2>2
<1> QED BY <1>3, <1>4, <1>5 DEF Stepped

LEMMA ScanRight == ASSUME RightInv, NEW p \in Callers, Scan(p) PROVE Stepped(p)
<1>1. /\ ph[p] = "scan"
      /\ \/ UNCHANGED ph
         \/ ph' = [ph EXCEPT ![p] = "zero"] /\ ~Outside(shape[p])
      /\ UNCHANGED <<C, shape, cut, band, off, job, panel, worker>>
  BY DEF Scan, Goto, loop, heap
<1>2. p \in DOMAIN ph
  BY DEF RightInv, Inv, Types
<1>3. Memory' /\ OnlyOf(p)
  BY <1>1 DEF RightInv, Inv, Types, Memory, OnlyOf
<1>4. Right(p)
  BY DEF RightInv
<1>5. ph'[p] \in {"scan", "zero"} /\ (ph'[p] = "zero" => ~Outside(shape[p]))
  BY <1>1, <1>2
<1>6. Right(p)'
  BY <1>1, <1>4, <1>5 DEF Right, Past, Forked
<1> QED BY <1>1, <1>3, <1>5, <1>6, Unseen DEF Stepped

\* The rectangle is zeroed: without terms that is the product.
LEMMA ZeroRight == ASSUME RightInv, NEW p \in Callers, Zero(p) PROVE Stepped(p)
<1> DEFINE s == shape[p]
           zeroed == Stored(C[p], 0, Cells(0, s.M, 0, s.N), s.ldc, LAMBDA c : {})
<1>1. /\ ph[p] = "zero"
      /\ C' = IF Empty(s) THEN C ELSE [C EXCEPT ![p] = zeroed]
      /\ ph' = [ph EXCEPT ![p] = IF Empty(s) \/ s.K <= 0 THEN "idle" ELSE "request"]
      /\ UNCHANGED <<shape, cut, band, off, job, panel, worker>>
  BY DEF Zero, Goto, loop, heap
<1>2. p \in DOMAIN ph /\ p \in DOMAIN C /\ s \in Shapes
  BY DEF RightInv, Inv, Types, Memory
<1>3. C[p] = Untouched /\ ~Outside(s) /\ Licensed(s.bound)
  BY <1>1 DEF RightInv, Right
<1>4. Holds(zeroed, s, [i \in Rows(s) |-> {}])
  BY <1>2, <1>3, ZeroHeld
<1> HIDE DEF s, zeroed
<1>5. Memory' /\ OnlyOf(p)
  BY <1>1, <1>2 DEF RightInv, Memory, OnlyOf, s
<1>6. CASE Empty(s) \/ s.K <= 0
  <2>1. ph'[p] = "idle" /\ C'[p] = IF Empty(s) THEN C[p] ELSE zeroed
    BY <1>1, <1>2, <1>6
  <2>2. C'[p] = Product(s)
    <3>1. CASE Empty(s)
      BY <1>3, <2>1, <3>1 DEF Product, ProductIn, Untouched
    <3>2. CASE ~Empty(s)
      <4>1. {} = Interval(0, s.K)
        BY <1>2, <1>6, <3>2, ShapesAssumption DEF Interval
      <4>2. Holds(zeroed, s, [i \in Rows(s) |-> Interval(0, s.K)])
        BY <1>4, <4>1
      <4> QED BY <1>2, <2>1, <3>2, <4>2, ProductHeld
    <3> QED BY <3>1, <3>2
  <2>3. Right(p)'
    BY <2>1 DEF Right, Past, Forked
  <2> QED BY <1>1, <1>5, <2>1, <2>2, <2>3, Returned DEF Stepped, s
<1>7. CASE ~(Empty(s) \/ s.K <= 0)
  <2>1. ph'[p] = "request" /\ C'[p] = zeroed /\ shape'[p] = s
    BY <1>1, <1>2, <1>7 DEF s
  <2>2. Proper(s)
    BY <1>2, <1>3, <1>7, ShapesAssumption DEF Proper
  <2>3. [i \in Rows(s) |-> RowSum(p, i)'] = [i \in Rows(s) |-> {}]
    BY <2>1 DEF RowSum, Forked
  <2>4. Holds(C'[p], s, [i \in Rows(s) |-> RowSum(p, i)'])
    BY <1>4, <2>1, <2>3
  <2>5. Right(p)'
    BY <2>1, <2>2, <2>4 DEF Right, Forked
  <2>6. Promised(p)
    BY <1>1, <2>1, Unseen DEF s
  <2> QED BY <1>5, <2>5, <2>6 DEF Stepped
<1> QED BY <1>6, <1>7

\* The choice of an axis and a thread count.
LEMMA ChoiceRight ==
    ASSUME RightInv, NEW p \in Callers,
           Request(p) \/ Resolve(p) \/ Axis(p) \/ KPath(p)
    PROVE  Stepped(p)
<1>1. /\ ph[p] \in Past \ Forked
      /\ UNCHANGED <<C, shape, band, off, job, panel, worker>>
      /\ \A q \in Callers \ {p} : cut'[q] = cut[q]
  BY DEF Request, Resolve, Axis, KPath, loop, heap, Past, Forked, RightInv, Inv, Types
<1>2. PICK where \in Past \ Forked : ph' = [ph EXCEPT ![p] = where]
  BY DEF Request, Resolve, Axis, KPath, Goto, Past, Forked
<1>3. ph'[p] = where
  BY <1>2 DEF RightInv, Inv, Types
<1>4. Memory' /\ OnlyOf(p)
  BY <1>1, <1>2 DEF RightInv, Memory, OnlyOf
<1>5. Right(p)
  BY DEF RightInv
<1>6. [i \in Rows(shape[p]) |-> RowSum(p, i)'] = [i \in Rows(shape[p]) |-> RowSum(p, i)]
  BY <1>1, <1>3 DEF RowSum
<1>7. Right(p)'
  <2>1. Proper(shape[p]) /\ Holds(C[p], shape[p], [i \in Rows(shape[p]) |-> RowSum(p, i)'])
    BY <1>1, <1>5, <1>6 DEF Right
  <2>2. shape'[p] = shape[p] /\ C'[p] = C[p]
    BY <1>1
  <2> QED BY <1>3, <2>1, <2>2 DEF Right, Past, Forked
<1>8. Promised(p)
  BY <1>1, <1>3, Unseen DEF Past, Forked
<1> QED BY <1>4, <1>7, <1>8 DEF Stepped

\* One thread adds every term to the zeroed rectangle.
LEMMA SingleRight == ASSUME RightInv, NEW p \in Callers, Single(p) PROVE Stepped(p)
<1> DEFINE s == shape[p]
           whole == [own |-> FALSE, base |-> 0, rows |-> s.M, ld |-> s.ldc, k0 |-> 0, len |-> s.K]
<1>1. /\ ph[p] = "single"
      /\ C' = [C EXCEPT ![p] = Accumulated(C[p], s, whole)]
      /\ ph' = [ph EXCEPT ![p] = "idle"]
      /\ UNCHANGED <<shape, cut, band, off, job, panel, worker>>
  BY DEF Single, Goto, loop, heap
<1>2. p \in DOMAIN ph /\ p \in DOMAIN C
  BY DEF RightInv, Inv, Types, Memory
<1>3. ph'[p] = "idle" /\ C'[p] = Accumulated(C[p], s, whole)
  BY <1>1, <1>2
<1>4. /\ s \in Shapes /\ Proper(s) /\ ~Empty(s) /\ s.M \in Nat \ {0} /\ s.K \in Nat \ {0}
  BY <1>1, Cutting, ProperShape DEF Past
<1>5. Holds(C[p], s, [i \in Rows(s) |-> {}])
  <2>1. Holds(C[p], s, [i \in Rows(s) |-> RowSum(p, i)])
    BY <1>1 DEF RightInv, Right, Past
  <2>2. [i \in Rows(s) |-> RowSum(p, i)] = [i \in Rows(s) |-> {}]
    BY <1>1 DEF RowSum, Forked
  <2> QED BY <2>1, <2>2
<1> DEFINE v == Interval(0, s.K)
<1>6. Accumulated(C[p], s, whole) = AddRows(C[p], s, Rows(s), v)
  <2>1. /\ whole.base = 0 * s.ldc /\ whole.ld = s.ldc /\ whole.rows = s.M /\ whole.rows \in Int
        /\ 0 \in Nat /\ whole.k0 = 0 /\ whole.len = s.K
    BY <1>4, ShapesAssumption, Z3
  <2> HIDE DEF s, whole
  <2>2. Accumulated(C[p], s, whole) =
           AddRows(C[p], s, Interval(0, 0 + whole.rows), ChunkSum(s, whole.k0, whole.len))
    BY <1>4, <2>1, AccumulatedRows
  <2>3. ChunkSum(s, 0, s.K) = Interval(0, 0 + s.K)
    BY <1>4, ChunkExact
  <2> QED BY <1>4, <2>1, <2>2, <2>3 DEF Rows
<1> HIDE DEF s, whole
<1>7. Holds(C'[p], s, [i \in Rows(s) |-> v])
  <2> DEFINE val == [i \in Rows(s) |-> {}]
             val2 == [i \in Rows(s) |-> IF i \in Rows(s) THEN Add(val[i], v) ELSE val[i]]
  <2>1. Holds(C'[p], s, val2)
    BY <1>3, <1>4, <1>5, <1>6, AddRowsHold
  <2>2. Add({}, v) = v
    BY <1>4, AddTerms
  <2>3. val2 = [i \in Rows(s) |-> v]
    BY <2>2
  <2> QED BY <2>1, <2>3
<1>8. C'[p] = Product(s)
  BY <1>4, <1>7, ProductHeld
<1>9. Memory' /\ OnlyOf(p) /\ Right(p)'
  BY <1>1, <1>2, <1>3 DEF RightInv, Memory, OnlyOf, Right, Past, Forked
<1> QED BY <1>1, <1>3, <1>8, <1>9, Returned DEF Stepped, s

----------------------------------------------------------------------------
(* The steps of a team *)

\* What band t of caller p computes: every term of its own rows, or its own terms
\* of every row.
LEMMA BandComputed ==
    ASSUME RightInv, NEW p \in Callers, ph[p] \in Past, NEW t \in Interval(0, cut[p].n), NEW mem
    PROVE  LET s == shape[p]
               j == JobFor(s, cut[p], t, Start(p, t))
           IN  IF cut[p].axis = "rows"
               THEN /\ Accumulated(mem, s, j) = AddRows(mem, s, Share(p, t), Interval(0, s.K))
                    /\ Share(p, t) \subseteq Rows(s)
               ELSE Accumulated(Uniform(s, {}), s, j) = Uniform(s, Share(p, t))
<1> DEFINE s == shape[p]  o == Start(p, t)  j == JobFor(s, cut[p], t, o)
<1>1. /\ s \in Shapes /\ Proper(s) /\ ~Empty(s)
      /\ s.M \in Nat \ {0} /\ s.N \in Nat \ {0} /\ s.K \in Nat \ {0}
      /\ Extent(p) \in Nat /\ cut[p].n \in Nat \ {0} /\ cut[p].axis \in {"rows", "sum"}
      /\ t \in Nat
  BY Cutting, ProperShape DEF Interval
<1>2. /\ o \in Nat /\ BandLen(Extent(p), cut[p].n, t) \in Nat
      /\ Start(p, t + 1) = o + BandLen(Extent(p), cut[p].n, t)
  <2> DEFINE e == Extent(p)  n == cut[p].n
  <2>1. e \in Nat /\ n \in Nat \ {0}
    BY <1>1
  <2> HIDE DEF e, n
  <2>2. /\ Base(e, n, t) \in Nat /\ BandLen(e, n, t) \in Nat
        /\ Base(e, n, t + 1) = Base(e, n, t) + BandLen(e, n, t)
    BY <1>1, <2>1, Bases
  <2> QED BY <2>2 DEF Start, e, n
<1>3. Share(p, t) = Interval(o, o + BandLen(Extent(p), cut[p].n, t))
  BY <1>2 DEF Share, Band, Start
<1> HIDE DEF o
<1>4. CASE cut[p].axis = "rows"
  <2>1. /\ j.base = o * s.ldc /\ j.ld = s.ldc /\ j.rows = BandLen(s.M, cut[p].n, t)
        /\ j.k0 = 0 /\ j.len = s.K /\ Extent(p) = s.M
    BY <1>4 DEF JobFor, Extent
  <2> HIDE DEF s, j
  <2>2. Accumulated(mem, s, j) = AddRows(mem, s, Interval(o, o + j.rows), ChunkSum(s, j.k0, j.len))
    BY <1>1, <1>2, <2>1, AccumulatedRows
  <2>3. ChunkSum(s, 0, s.K) = Interval(0, 0 + s.K)
    BY <1>1, ChunkExact
  <2>4. Share(p, t) \subseteq Interval(0, Extent(p))
    BY <1>1, BandsWithin DEF Share
  <2> QED BY <1>1, <1>3, <1>4, <2>1, <2>2, <2>3, <2>4 DEF s, j, o, Rows
<1>5. CASE cut[p].axis = "sum"
  <2>1. /\ j.base = 0 /\ j.ld = s.N /\ j.rows = s.M
        /\ j.k0 = o /\ j.len = BandLen(s.K, cut[p].n, t) /\ Extent(p) = s.K
    BY <1>5 DEF JobFor, PanelStride, Extent
  <2> HIDE DEF s, j
  <2>2. Accumulated(Uniform(s, {}), s, j) = Uniform(s, Add({}, ChunkSum(s, j.k0, j.len)))
    BY <1>1, <2>1, AccumulatedPanel
  <2>3. ChunkSum(s, j.k0, j.len) = Interval(j.k0, j.k0 + j.len)
    BY <1>1, <1>2, <2>1, ChunkExact
  <2>4. Add({}, Interval(o, o + j.len)) = Interval(o, o + j.len)
    BY <1>1, <1>2, <2>1, AddTerms
  <2> QED BY <1>1, <1>3, <1>5, <2>1, <2>2, <2>3, <2>4 DEF s, j, o
<1> QED BY <1>1, <1>4, <1>5

\* A step of the loops that computes nothing.
LEMMA LoopRight ==
    ASSUME RightInv, NEW p \in Callers, ph[p] \in Forked, ph'[p] \in Forked,
           shape'[p] = shape[p], C'[p] = C[p], cut'[p] = cut[p], job'[p] = job[p],
           panel'[p] = panel[p], Begun(p)' = Begun(p), Finished(p)' = Finished(p),
           ph'[p] = "spawn" => ph[p] = "spawn" /\ band'[p] = band[p] /\ off'[p] = off[p],
           ph[p] = "reduce" => ph'[p] = "reduce" /\ band'[p] = band[p],
           ph'[p] = "reduce" => ph[p] = "reduce" \/ band'[p] = 0
    PROVE  Right(p)'
<1>1. Right(p)
  BY DEF RightInv
<1>2. /\ Extent(p)' = Extent(p) /\ (\A t : Start(p, t)' = Start(p, t))
      /\ \A t : Share(p, t)' = Share(p, t)
  BY DEF Extent, Start, Share
<1>3. Start(p, 0) = 0 /\ Interval(0, 0) = {}
  BY Cutting, Bases DEF Start, Past, Interval
<1>4. \A i : RowSum(p, i)' = RowSum(p, i)
  BY <1>2, <1>3 DEF RowSum, Start
<1>5. Unreduced(p)' = Unreduced(p)
  BY DEF Unreduced
<1>6. Holds(C'[p], shape'[p], [i \in Rows(shape'[p]) |-> RowSum(p, i)'])
  <2>1. Holds(C[p], shape[p], [i \in Rows(shape[p]) |-> RowSum(p, i)])
    BY <1>1 DEF Right, Past
  <2>2. [i \in Rows(shape[p]) |-> RowSum(p, i)'] = [i \in Rows(shape[p]) |-> RowSum(p, i)]
    BY <1>4
  <2> QED BY <2>1, <2>2
<1>7. Proper(shape[p])
  BY <1>1 DEF Right, Past
<1>8. ph'[p] = "spawn" => off'[p] = Start(p, band[p])
  BY <1>1 DEF Right
<1> QED BY <1>1, <1>2, <1>5, <1>6, <1>7, <1>8 DEF Right, Past, Forked, Start

\* The team's records are empty, and no band is computed.
LEMMA ManyRight == ASSUME RightInv, NEW p \in Callers, Many(p) PROVE Stepped(p)
<1>1. /\ ph[p] = "many" /\ ph' = [ph EXCEPT ![p] = "spawn"]
      /\ band' = [band EXCEPT ![p] = 0] /\ off' = [off EXCEPT ![p] = 0]
      /\ UNCHANGED <<shape, C, cut, job, panel, worker>>
  BY DEF Many, Goto
<1>2. DOMAIN ph = Callers /\ DOMAIN band = Callers /\ DOMAIN off = Callers
  BY DEF RightInv, Inv, Types, Memory
<1>3. ph'[p] = "spawn" /\ band'[p] = 0 /\ off'[p] = 0
  BY <1>1, <1>2
<1>4. Memory' /\ OnlyOf(p)
  BY <1>1, <1>2 DEF RightInv, Memory, OnlyOf
<1>5. Start(p, 0)' = 0
  <2>1. Start(p, 0) = 0
    BY <1>1, Cutting, Bases DEF Start, Past
  <2> QED BY <1>1, <2>1 DEF Start, Extent
<1>6. Interval(0, 0) = {} /\ Begun(p)' = 0 /\ Finished(p)' = {} /\ Unreduced(p)' = {}
  BY <1>3 DEF Interval, Begun, Finished, Unreduced
<1>7. [i \in Rows(shape[p]) |-> RowSum(p, i)'] = [i \in Rows(shape[p]) |-> RowSum(p, i)]
  BY <1>1, <1>3, <1>6 DEF RowSum, Forked
<1>8. Proper(shape[p]) /\ Holds(C[p], shape[p], [i \in Rows(shape[p]) |-> RowSum(p, i)'])
  BY <1>1, <1>7 DEF RightInv, Right, Past
<1>9. Right(p)'
  BY <1>1, <1>3, <1>5, <1>6, <1>8 DEF Right, Start
<1> QED BY <1>1, <1>3, <1>4, <1>9, Unseen DEF Stepped

LEMMA LoopEndRight ==
    ASSUME RightInv, NEW p \in Callers, SpawnEnd(p) \/ JoinEnd(p) PROVE Stepped(p)
<1>1. /\ band' = [band EXCEPT ![p] = 0] /\ band[p] = cut[p].n
      /\ UNCHANGED <<shape, C, cut, off, job, panel, worker>>
      /\ \/ ph[p] = "spawn" /\ ph' = [ph EXCEPT ![p] = "join"]
         \/ ph[p] = "join" /\ ph' = [ph EXCEPT ![p] = "reduce"]
  BY DEF SpawnEnd, JoinEnd, Goto, heap
<1>2. DOMAIN ph = Callers /\ DOMAIN band = Callers
  BY DEF RightInv, Inv, Types
<1>3. band'[p] = 0 /\ (\/ ph[p] = "spawn" /\ ph'[p] = "join"
                       \/ ph[p] = "join" /\ ph'[p] = "reduce")
  BY <1>1, <1>2
<1>4. Memory' /\ OnlyOf(p)
  BY <1>1, <1>2 DEF RightInv, Memory, OnlyOf
<1>5. Begun(p)' = Begun(p)
  BY <1>1, <1>3 DEF Begun
<1>6. Finished(p)' = Finished(p)
  BY <1>1, <1>5 DEF Finished
<1>7. Right(p)'
  BY <1>1, <1>3, <1>5, <1>6, LoopRight DEF Forked
<1> QED BY <1>1, <1>3, <1>4, <1>7, Unseen DEF Stepped

\* A thread that is joined had ended, and a band without one was computed.
LEMMA JoinRight == ASSUME RightInv, NEW p \in Callers, Join(p) PROVE Stepped(p)
<1>1. /\ ph[p] = "join" /\ band[p] < cut[p].n
      /\ band[p] \in live[p] => worker[p][band[p]] = "done"
      /\ worker' = [worker EXCEPT ![p][band[p]] = "none"]
      /\ band' = [band EXCEPT ![p] = @ + 1]
      /\ UNCHANGED <<shape, ph, C, cut, off, job, panel>>
  BY DEF Join, heap
<1>2. /\ DOMAIN ph = Callers /\ DOMAIN band = Callers /\ DOMAIN worker = Callers
      /\ DOMAIN worker[p] = Bands
  BY DEF RightInv, Inv, Types
<1>3. Memory' /\ OnlyOf(p)
  BY <1>1, <1>2 DEF RightInv, Memory, OnlyOf
<1>4. worker[p][band[p]] \notin {"new", "run"} /\ band[p] \in Bands
  <2>1. band[p] \in Bands
    BY <1>1, MaxBandsLemma, RequestsAssumption DEF RightInv, Inv, Types, Cuts, Bands
  <2>2. Threaded(p) \subseteq live[p]
    BY <1>1 DEF RightInv, Inv, Team
  <2> QED BY <1>1, <2>1, <2>2 DEF Threaded
<1>5. \A t : (worker'[p][t] \in {"new", "run"}) <=> (worker[p][t] \in {"new", "run"})
  BY <1>1, <1>2, <1>4
<1>6. Begun(p)' = Begun(p)
  BY <1>1 DEF Begun
<1>7. Finished(p)' = Finished(p)
  BY <1>5, <1>6 DEF Finished
<1>8. Right(p)'
  BY <1>1, <1>6, <1>7, LoopRight DEF Forked
<1> QED BY <1>1, <1>3, <1>8, Unseen DEF Stepped

LEMMA WorkerLoadRight ==
    ASSUME RightInv, NEW p \in Callers, NEW t \in Bands, WorkerLoad(p, t) PROVE Stepped(p)
<1>1. /\ worker[p][t] = "new" /\ worker' = [worker EXCEPT ![p][t] = "run"]
      /\ UNCHANGED <<shape, ph, C, cut, band, off, job, panel>>
  BY DEF WorkerLoad, heap, loop
<1>2. DOMAIN worker = Callers /\ DOMAIN worker[p] = Bands
  BY DEF RightInv, Inv, Types
<1>3. Memory' /\ OnlyOf(p)
  BY <1>1, <1>2 DEF RightInv, Memory, OnlyOf
<1>4. ph[p] \in Forked
  BY <1>1 DEF RightInv, Inv, Team, NothingLeft, Threaded
<1>5. \A u : (worker'[p][u] \in {"new", "run"}) <=> (worker[p][u] \in {"new", "run"})
  BY <1>1, <1>2
<1>6. Begun(p)' = Begun(p)
  BY <1>1 DEF Begun
<1>7. Finished(p)' = Finished(p)
  BY <1>5, <1>6 DEF Finished
<1>8. Right(p)'
  BY <1>1, <1>4, <1>6, <1>7, LoopRight
<1> QED BY <1>1, <1>3, <1>8, Unseen DEF Stepped

\* One more band is computed: its rows, or its private output, now hold its terms.
LEMMA BandRight ==
    ASSUME RightInv, NEW p \in Callers, ph[p] \in {"spawn", "join"}, ph'[p] = ph[p],
           shape'[p] = shape[p], cut'[p] = cut[p],
           NEW t \in Interval(0, cut[p].n), t \notin Finished(p),
           Interval(0, Begun(p)') = Interval(0, Begun(p)) \cup {t},
           Finished(p)' = Finished(p) \cup {t},
           ph[p] = "spawn" => off'[p] = Start(p, band'[p]),
           \A u \in Interval(0, Begun(p)') :
               job'[p][u] = JobFor(shape[p], cut[p], u, Start(p, u)),
           IF cut[p].axis = "rows"
           THEN C'[p] = Accumulated(C[p], shape[p], JobFor(shape[p], cut[p], t, Start(p, t)))
           ELSE /\ C'[p] = C[p]
                /\ \A u \in Interval(0, Begun(p)) \ {t} : panel'[p][u] = panel[p][u]
                /\ panel'[p][t] = Accumulated(Uniform(shape[p], {}), shape[p],
                                              JobFor(shape[p], cut[p], t, Start(p, t)))
    PROVE  Right(p)'
<1> DEFINE s == shape[p]  v == Interval(0, s.K)
<1>1. Right(p) /\ ph[p] \in Past /\ ph[p] \in Forked /\ ph[p] # "reduce"
  BY DEF RightInv, Past, Forked
<1>2. /\ s \in Shapes /\ Proper(s) /\ s.K \in Nat \ {0}
      /\ Extent(p) \in Nat /\ cut[p].n \in Nat \ {0} /\ cut[p].axis \in {"rows", "sum"}
  BY <1>1, Cutting
<1>3. /\ Extent(p)' = Extent(p) /\ (\A u : Start(p, u)' = Start(p, u))
      /\ \A u : Share(p, u)' = Share(p, u)
  BY DEF Extent, Start, Share
<1>4. Holds(C[p], s, [i \in Rows(s) |-> RowSum(p, i)])
  BY <1>1 DEF Right
<1>5. Unreduced(p)' = Interval(0, Begun(p)') /\ Unreduced(p) = Interval(0, Begun(p))
  BY <1>1 DEF Unreduced
<1>6. CASE cut[p].axis = "rows"
  <2>1. /\ C'[p] = AddRows(C[p], s, Share(p, t), v) /\ Share(p, t) \subseteq Rows(s)
    BY <1>1, <1>6, BandComputed
  <2>2. ASSUME NEW i \in Rows(s)
        PROVE  RowSum(p, i)' = IF i \in Share(p, t) THEN Add(RowSum(p, i), v) ELSE RowSum(p, i)
    <3>1. RowSum(p, i) = IF \E u \in Finished(p) : i \in Share(p, u) THEN v ELSE {}
      BY <1>1, <1>6 DEF RowSum
    <3>2. RowSum(p, i)' = IF \E u \in Finished(p) \cup {t} : i \in Share(p, u) THEN v ELSE {}
      BY <1>1, <1>3, <1>6 DEF RowSum
    <3>3. ASSUME NEW u \in Finished(p), i \in Share(p, u), i \in Share(p, t) PROVE FALSE
      <4>1. u \in Nat /\ t \in Nat
        BY DEF Finished, Interval
      <4>2. u = t
        BY <1>2, <3>3, <4>1, BandsApart DEF Share
      <4> QED BY <4>2
    <3>4. Add({}, v) = v
      BY <1>2, AddTerms
    <3> QED BY <3>1, <3>2, <3>3, <3>4
  <2> DEFINE val == [i \in Rows(s) |-> RowSum(p, i)]
             val2 == [i \in Rows(s) |-> IF i \in Share(p, t) THEN Add(val[i], v) ELSE val[i]]
             val3 == [i \in Rows(s) |-> RowSum(p, i)']
  <2>3. Holds(C'[p], s, val2)
    <3>1. Holds(C[p], s, val)
      BY <1>4
    <3> HIDE DEF val, v, s
    <3> QED BY <1>2, <2>1, <3>1, AddRowsHold
  <2>4. val2 = val3
    BY <2>2
  <2>5. Holds(C'[p], shape'[p], val3)
    BY <2>3, <2>4
  <2> QED BY <1>1, <1>2, <1>3, <1>6, <2>5 DEF Right, Start
<1>7. CASE cut[p].axis = "sum"
  <2>1. panel'[p][t] = Uniform(s, Share(p, t)) /\ C'[p] = C[p]
    BY <1>1, <1>7, BandComputed
  <2>2. \A u \in Interval(0, Begun(p)') :
           panel'[p][u] = Uniform(s, IF u \in Finished(p)' THEN Share(p, u) ELSE {})
    <3>1. \A u \in Interval(0, Begun(p)) :
             panel[p][u] = Uniform(s, IF u \in Finished(p) THEN Share(p, u) ELSE {})
      BY <1>1, <1>5, <1>7 DEF Right
    <3> QED BY <1>7, <2>1, <3>1
  <2>3. [i \in Rows(s) |-> RowSum(p, i)'] = [i \in Rows(s) |-> RowSum(p, i)]
    BY <1>1, <1>7 DEF RowSum
  <2>4. Holds(C'[p], s, [i \in Rows(s) |-> RowSum(p, i)'])
    BY <1>4, <2>1, <2>3
  <2> QED BY <1>1, <1>2, <1>3, <1>5, <2>2, <2>4 DEF Right, Start
<1> QED BY <1>2, <1>6, <1>7

\* The thread of a band computes it, as its record says.
LEMMA WorkerRunRight ==
    ASSUME RightInv, NEW p \in Callers, NEW t \in Bands, WorkerRun(p, t) PROVE Stepped(p)
<1> DEFINE s == shape[p]  j == job[p][t]
<1>1. /\ worker[p][t] = "run" /\ worker' = [worker EXCEPT ![p][t] = "done"]
      /\ IF j.own
         THEN panel' = [panel EXCEPT ![p][t] = Accumulated(@, s, j)] /\ UNCHANGED C
         ELSE C' = [C EXCEPT ![p] = Accumulated(@, s, j)] /\ UNCHANGED panel
      /\ UNCHANGED <<shape, ph, cut, band, off, job>>
  BY DEF WorkerRun, loop
<1>2. /\ DOMAIN worker = Callers /\ DOMAIN worker[p] = Bands /\ DOMAIN C = Callers
      /\ DOMAIN panel = Callers /\ DOMAIN panel[p] = Bands
  BY DEF RightInv, Inv, Types, Memory
<1>3. Memory' /\ OnlyOf(p)
  BY <1>1, <1>2 DEF RightInv, Memory, OnlyOf
<1>4. t \in Threaded(p)
  BY <1>1 DEF Threaded
<1>5. ph[p] \in {"spawn", "join"} /\ t \in Interval(0, Begun(p)) /\ Begun(p) <= cut[p].n
      /\ Begun(p) \in Nat /\ cut[p].n \in Nat
  <2>1. Team(p) /\ band[p] \in Nat /\ cut[p].n \in Nat
    BY DEF RightInv, Inv, Types, Cuts
  <2> QED BY <1>4, <2>1 DEF Team, NothingLeft, Forked, Interval, Begun
<1>6. t \in Interval(0, cut[p].n)
  BY <1>5 DEF Interval
<1>7. Begun(p)' = Begun(p) /\ Finished(p)' = Finished(p) \cup {t} /\ t \notin Finished(p)
  <2>1. Begun(p)' = Begun(p)
    BY <1>1 DEF Begun
  <2>2. \A u : (worker'[p][u] \in {"new", "run"}) <=> (worker[p][u] \in {"new", "run"} /\ u # t)
    BY <1>1, <1>2
  <2> QED BY <1>1, <1>5, <2>1, <2>2 DEF Finished
<1>8. Right(p)
  BY DEF RightInv
<1>9. j = JobFor(s, cut[p], t, Start(p, t)) /\ (j.own <=> cut[p].axis # "rows")
  BY <1>5, <1>8 DEF Right, Forked, JobFor
<1>10. cut[p].axis # "rows" => panel[p][t] = Uniform(s, {})
  BY <1>5, <1>7, <1>8, Cutting DEF Right, Forked, Past, Unreduced
<1>11. IF cut[p].axis = "rows"
       THEN C'[p] = Accumulated(C[p], s, JobFor(s, cut[p], t, Start(p, t)))
       ELSE /\ C'[p] = C[p]
            /\ \A u \in Interval(0, Begun(p)) \ {t} : panel'[p][u] = panel[p][u]
            /\ panel'[p][t] = Accumulated(Uniform(s, {}), s, JobFor(s, cut[p], t, Start(p, t)))
  <2> HIDE DEF s, j
  <2>1. CASE cut[p].axis = "rows"
    BY <1>1, <1>2, <1>9, <2>1
  <2>2. CASE cut[p].axis # "rows"
    <3>1. panel' = [panel EXCEPT ![p][t] = Accumulated(panel[p][t], s, j)] /\ C' = C
      BY <1>1, <1>9, <2>2
    <3>2. /\ panel'[p][t] = Accumulated(panel[p][t], s, j)
          /\ \A u \in Bands \ {t} : panel'[p][u] = panel[p][u]
      BY <1>2, <3>1
    <3>3. Interval(0, Begun(p)) \subseteq Bands
      BY <1>5, MaxBandsLemma, RequestsAssumption DEF Interval, Bands, RightInv, Inv, Types, Cuts
    <3> QED BY <1>9, <1>10, <2>2, <3>1, <3>2, <3>3
  <2> QED BY <2>1, <2>2
<1>12. Right(p)'
  <2>1. \A u \in Interval(0, Begun(p)') :
           job'[p][u] = JobFor(shape[p], cut[p], u, Start(p, u))
    BY <1>1, <1>5, <1>7, <1>8 DEF Right, Forked
  <2>2. ph[p] = "spawn" => off'[p] = Start(p, band'[p])
    BY <1>1, <1>8 DEF Right
  <2>3. Interval(0, Begun(p)') = Interval(0, Begun(p)) \cup {t}
    BY <1>5, <1>7
  <2> QED BY <1>1, <1>5, <1>6, <1>7, <1>11, <2>1, <2>2, <2>3, BandRight
<1>13. Promised(p)
  BY <1>1, <1>5, Unseen
<1> QED BY <1>3, <1>12, <1>13 DEF Stepped

\* A band is given its record, and a thread or none.
LEMMA SpawnRight == ASSUME RightInv, NEW p \in Callers, Spawn(p) PROVE Stepped(p)
<1> DEFINE s == shape[p]  t == band[p]  j == JobFor(s, cut[p], t, off[p])
           fresh == IF j.own THEN NewPanel(s) ELSE <<>>
           Started == /\ worker' = [worker EXCEPT ![p][t] = "new"]
                      /\ panel' = [panel EXCEPT ![p][t] = fresh]
                      /\ UNCHANGED C
           Failed == /\ IF j.own
                        THEN panel' = [panel EXCEPT ![p][t] = Accumulated(fresh, s, j)]
                             /\ UNCHANGED C
                        ELSE C' = [C EXCEPT ![p] = Accumulated(C[p], s, j)] /\ UNCHANGED panel
                     /\ UNCHANGED worker
<1>1. /\ ph[p] = "spawn" /\ t < cut[p].n
      /\ job' = [job EXCEPT ![p][t] = j]
      /\ off' = [off EXCEPT ![p] = @ + (IF j.own THEN j.len ELSE j.rows)]
      /\ band' = [band EXCEPT ![p] = t + 1]
      /\ Started \/ Failed
      /\ UNCHANGED <<shape, ph, cut>>
  BY DEF Spawn
<1>2. /\ DOMAIN worker = Callers /\ DOMAIN worker[p] = Bands /\ DOMAIN C = Callers
      /\ DOMAIN panel = Callers /\ DOMAIN panel[p] = Bands
      /\ DOMAIN job = Callers /\ DOMAIN job[p] = Bands
      /\ DOMAIN off = Callers /\ DOMAIN band = Callers
  BY DEF RightInv, Inv, Types, Memory
<1>3. Right(p) /\ ph[p] \in Past /\ ph[p] \in Forked /\ ph[p] # "reduce"
  BY <1>1 DEF RightInv, Past, Forked
<1>4. /\ s \in Shapes /\ Proper(s) /\ Extent(p) \in Nat /\ cut[p].n \in Nat \ {0}
      /\ cut[p].axis \in {"rows", "sum"} /\ t \in Nat
  BY <1>3, Cutting DEF RightInv, Inv, Types
<1>5. t \in Interval(0, cut[p].n) /\ t \in Bands /\ Interval(0, t + 1) = Interval(0, t) \cup {t}
      /\ t \notin Interval(0, t)
  BY <1>1, <1>4, MaxBandsLemma, RequestsAssumption DEF Interval, Bands, RightInv, Inv, Types, Cuts
<1>6. /\ off[p] = Start(p, t) /\ j = JobFor(s, cut[p], t, Start(p, t))
      /\ (j.own <=> cut[p].axis # "rows")
  BY <1>1, <1>3 DEF Right, JobFor
<1>7. off'[p] = Start(p, t + 1) /\ band'[p] = t + 1
  <2>1. /\ IF j.own THEN j.len = BandLen(s.K, cut[p].n, t) /\ Extent(p) = s.K
                    ELSE j.rows = BandLen(s.M, cut[p].n, t) /\ Extent(p) = s.M
    BY DEF JobFor, Extent
  <2>2. off'[p] = off[p] + BandLen(Extent(p), cut[p].n, t)
    BY <1>1, <1>2, <2>1
  <2>3. Base(Extent(p), cut[p].n, t + 1)
           = Base(Extent(p), cut[p].n, t) + BandLen(Extent(p), cut[p].n, t)
    <3> DEFINE e == Extent(p)  n == cut[p].n
    <3>1. e \in Nat /\ n \in Nat \ {0}
      BY <1>4
    <3> HIDE DEF e, n, t
    <3>2. Base(e, n, t + 1) = Base(e, n, t) + BandLen(e, n, t)
      BY <1>4, <3>1, Bases
    <3> QED BY <3>2 DEF e, n
  <2> QED BY <1>1, <1>2, <1>6, <2>2, <2>3 DEF Start
<1>8. worker[p][t] = "none"
  <2>1. Threaded(p) \subseteq Interval(0, t)
    BY <1>1 DEF RightInv, Inv, Team
  <2> QED BY <1>5, <2>1 DEF Threaded
<1>9. Begun(p) = t /\ Begun(p)' = t + 1 /\ t \notin Finished(p)
  BY <1>1, <1>5, <1>7 DEF Begun, Finished
<1>10. \A u \in Interval(0, Begun(p)') : job'[p][u] = JobFor(s, cut[p], u, Start(p, u))
  <2>1. job'[p] = [job[p] EXCEPT ![t] = j]
    BY <1>1, <1>2
  <2>2. \A u \in Interval(0, t) : job[p][u] = JobFor(s, cut[p], u, Start(p, u)) /\ u # t
    BY <1>3, <1>5, <1>9 DEF Right
  <2> QED BY <1>2, <1>5, <1>6, <1>9, <2>1, <2>2
<1>11. j.own => fresh = Uniform(s, {})
  BY DEF NewPanel, Uniform
<1>12. Memory' /\ OnlyOf(p)
  <2>1. /\ DOMAIN C' = Callers /\ DOMAIN panel' = Callers /\ DOMAIN worker' = Callers
        /\ \A q \in Callers \ {p} : C'[q] = C[q] /\ panel'[q] = panel[q] /\ worker'[q] = worker[q]
        /\ \A q \in Callers : DOMAIN panel'[q] = DOMAIN panel[q]
    <3> HIDE DEF s, t, j, fresh
    <3> QED BY <1>1, <1>2
  <2> QED BY <1>1, <1>2, <2>1 DEF RightInv, Memory, OnlyOf
<1>13. Promised(p)
  BY <1>1, Unseen
<1>14. CASE Started
  <2>1. Finished(p)' = Finished(p)
    BY <1>2, <1>5, <1>9, <1>14 DEF Finished
  <2>2. /\ Extent(p)' = Extent(p) /\ (\A u : Start(p, u)' = Start(p, u))
        /\ \A u : Share(p, u)' = Share(p, u)
    BY <1>1 DEF Extent, Start, Share
  <2>3. [i \in Rows(s) |-> RowSum(p, i)'] = [i \in Rows(s) |-> RowSum(p, i)]
    BY <1>1, <1>3, <2>1, <2>2 DEF RowSum
  <2>4. Holds(C'[p], s, [i \in Rows(s) |-> RowSum(p, i)'])
    BY <1>3, <1>14, <2>3 DEF Right
  <2>5. cut[p].axis = "sum" =>
           \A u \in Unreduced(p)' :
              panel'[p][u] = Uniform(s, IF u \in Finished(p)' THEN Share(p, u) ELSE {})
    <3>1. Unreduced(p)' = Interval(0, t) \cup {t} /\ Unreduced(p) = Interval(0, t)
      BY <1>1, <1>5, <1>9 DEF Unreduced
    <3>2. panel'[p] = [panel[p] EXCEPT ![t] = fresh]
      BY <1>2, <1>14
    <3> QED BY <1>2, <1>3, <1>5, <1>6, <1>9, <1>11, <2>1, <3>1, <3>2 DEF Right
  <2>6. Right(p)'
    BY <1>1, <1>3, <1>4, <1>7, <1>10, <2>2, <2>4, <2>5 DEF Right, Start
  <2> QED BY <1>12, <1>13, <2>6 DEF Stepped
<1>15. CASE Failed
  <2>1. Finished(p)' = Finished(p) \cup {t}
    BY <1>5, <1>8, <1>9, <1>15 DEF Finished
  <2>2. IF cut[p].axis = "rows"
        THEN C'[p] = Accumulated(C[p], s, JobFor(s, cut[p], t, Start(p, t)))
        ELSE /\ C'[p] = C[p]
             /\ \A u \in Interval(0, Begun(p)) \ {t} : panel'[p][u] = panel[p][u]
             /\ panel'[p][t] = Accumulated(Uniform(s, {}), s, JobFor(s, cut[p], t, Start(p, t)))
    <3>1. CASE cut[p].axis = "rows"
      BY <1>2, <1>6, <1>15, <3>1
    <3>2. CASE cut[p].axis # "rows"
      <4>1. panel' = [panel EXCEPT ![p][t] = Accumulated(Uniform(s, {}), s, j)] /\ C' = C
        BY <1>6, <1>11, <1>15, <3>2
      <4>2. /\ panel'[p][t] = Accumulated(Uniform(s, {}), s, j)
            /\ \A u \in Bands \ {t} : panel'[p][u] = panel[p][u]
        BY <1>2, <1>5, <4>1
      <4>3. Interval(0, Begun(p)) \subseteq Bands
        BY <1>4, <1>5, <1>9, MaxBandsLemma, RequestsAssumption
        DEF Interval, Bands, RightInv, Inv, Types, Cuts
      <4> QED BY <1>6, <3>2, <4>1, <4>2, <4>3
    <3> QED BY <3>1, <3>2
  <2>3. Interval(0, Begun(p)') = Interval(0, Begun(p)) \cup {t}
    BY <1>5, <1>9
  <2>4. Right(p)'
    BY <1>1, <1>5, <1>7, <1>9, <1>10, <2>1, <2>2, <2>3, BandRight
  <2> QED BY <1>12, <1>13, <2>4 DEF Stepped
<1> QED BY <1>1, <1>14, <1>15

\* A private output is added to the output, and freed.
LEMMA ReduceRight == ASSUME RightInv, NEW p \in Callers, Reduce(p) PROVE Stepped(p)
<1> DEFINE s == shape[p]  t == band[p]  v == Share(p, t)
           added == Stored(C[p], 0, Cells(0, s.M, 0, s.N), s.ldc,
                           LAMBDA c : Add(C[p][At(c, s.ldc)], panel[p][t][At(c, s.N)]))
<1>1. /\ ph[p] = "reduce" /\ t < cut[p].n
      /\ C' = IF ~job[p][t].own THEN C ELSE [C EXCEPT ![p] = added]
      /\ panel' = [panel EXCEPT ![p][t] = <<>>]
      /\ band' = [band EXCEPT ![p] = t + 1]
      /\ UNCHANGED <<shape, ph, cut, off, job, worker>>
  BY DEF Reduce
<1>2. /\ DOMAIN C = Callers /\ DOMAIN panel = Callers /\ DOMAIN panel[p] = Bands
      /\ DOMAIN band = Callers
  BY DEF RightInv, Inv, Types, Memory
<1>3. Right(p) /\ ph[p] \in Past /\ ph[p] \in Forked
  BY <1>1 DEF RightInv, Past, Forked
<1>4. /\ s \in Shapes /\ Proper(s) /\ ~Empty(s) /\ Extent(p) \in Nat /\ cut[p].n \in Nat \ {0}
      /\ cut[p].axis \in {"rows", "sum"} /\ t \in Nat
  BY <1>3, Cutting, ProperShape DEF RightInv, Inv, Types
<1>5. /\ t \in Interval(0, cut[p].n)
      /\ Interval(t + 1, cut[p].n) = Interval(t, cut[p].n) \ {t}
  BY <1>1, <1>4 DEF Interval
<1>6. band'[p] = t + 1 /\ (\A u \in Bands \ {t} : panel'[p][u] = panel[p][u])
  BY <1>1, <1>2
<1>7. Memory' /\ OnlyOf(p)
  <2>1. /\ DOMAIN C' = Callers /\ \A q \in Callers \ {p} : C'[q] = C[q]
    <3> HIDE DEF added
    <3> QED BY <1>1, <1>2
  <2> QED BY <1>1, <1>2, <2>1 DEF RightInv, Memory, OnlyOf
<1>8. Promised(p)
  BY <1>1, Unseen
<1>9. /\ Extent(p)' = Extent(p) /\ (\A u : Start(p, u)' = Start(p, u))
      /\ (\A u : Share(p, u)' = Share(p, u)) /\ Begun(p)' = Begun(p) /\ Finished(p)' = Finished(p)
      /\ Begun(p) = cut[p].n
  BY <1>1 DEF Extent, Start, Share, Begun, Finished
<1>10. Holds(C[p], s, [i \in Rows(s) |-> RowSum(p, i)])
  BY <1>3 DEF Right
<1>11. job[p][t] = JobFor(s, cut[p], t, Start(p, t)) /\ (job[p][t].own <=> cut[p].axis # "rows")
  BY <1>3, <1>5, <1>9 DEF Right, JobFor
<1>12. Holds(C'[p], s, [i \in Rows(s) |-> RowSum(p, i)'])
  <2>1. CASE cut[p].axis = "rows"
    <3>1. C'[p] = C[p]
      BY <1>1, <1>11, <2>1
    <3>2. [i \in Rows(s) |-> RowSum(p, i)'] = [i \in Rows(s) |-> RowSum(p, i)]
      BY <1>1, <1>9, <2>1 DEF RowSum
    <3> QED BY <1>10, <3>1, <3>2
  <2>2. CASE cut[p].axis = "sum"
    <3>1. panel[p][t] = Uniform(s, v)
      <4>1. t \in Unreduced(p) /\ t \in Finished(p)
        <5>1. Threaded(p) = {}
          BY <1>1 DEF RightInv, Inv, Team
        <5>2. t \in Bands
          BY <1>1, <1>4, MaxBandsLemma, RequestsAssumption
          DEF RightInv, Inv, Types, Cuts, Bands
        <5> QED BY <1>1, <1>4, <1>5, <1>9, <5>1, <5>2
                DEF Unreduced, Finished, Threaded, Interval
      <4> QED BY <1>3, <2>2, <4>1 DEF Right
    <3>2. C'[p] = added
      BY <1>1, <1>2, <1>11, <2>2
    <3>3. added = AddRows(C[p], s, Rows(s), v)
      <4> DEFINE mem == C[p]  out == panel[p][t]
      <4>1. out = Uniform(s, v)
        BY <3>1
      <4>2. added = Merged(mem, s, out)
        BY DEF Merged
      <4> HIDE DEF mem, out, s, v, added
      <4>3. Merged(mem, s, out) = AddRows(mem, s, Rows(s), v)
        BY <1>4, <4>1, PanelAdded
      <4> QED BY <4>2, <4>3 DEF mem
    <3>4. Add(Interval(0, Start(p, t)), v) = Interval(0, Start(p, t + 1))
      <4> DEFINE e == Extent(p)  n == cut[p].n  a == Base(e, n, t)  b == Base(e, n, t + 1)
      <4>1. e \in Nat /\ n \in Nat \ {0}
        BY <1>4
      <4> HIDE DEF e, n, t
      <4>2. a \in Nat /\ BandLen(e, n, t) \in Nat /\ b = a + BandLen(e, n, t)
        BY <1>4, <4>1, Bases
      <4> HIDE DEF a, b
      <4>3. Add(Interval(0, a), Interval(a, b)) = Interval(0, b)
        BY <4>2, AddTerms
      <4> QED BY <4>3 DEF a, b, e, n, Start, Share, Band
    <3> DEFINE val == [i \in Rows(s) |-> RowSum(p, i)]
               val2 == [i \in Rows(s) |-> IF i \in Rows(s) THEN Add(val[i], v) ELSE val[i]]
               val3 == [i \in Rows(s) |-> RowSum(p, i)']
    <3>5. Holds(C'[p], s, val2)
      <4>1. Holds(C[p], s, val)
        BY <1>10
      <4> HIDE DEF val, v, s, added
      <4> QED BY <1>4, <3>2, <3>3, <4>1, AddRowsHold
    <3>6. \A i : /\ RowSum(p, i) = Interval(0, Start(p, t))
                 /\ RowSum(p, i)' = Interval(0, Start(p, t + 1))
      BY <1>1, <1>3, <1>6, <1>9, <2>2 DEF RowSum
    <3>7. val2 = val3
      BY <3>4, <3>6
    <3> QED BY <3>5, <3>7
  <2> QED BY <1>4, <2>1, <2>2
<1>13. cut[p].axis = "sum" =>
          \A u \in Unreduced(p)' :
             panel'[p][u] = Uniform(s, IF u \in Finished(p)' THEN Share(p, u) ELSE {})
  <2>1. Unreduced(p) = Interval(t, cut[p].n) /\ Unreduced(p)' = Interval(t, cut[p].n) \ {t}
    BY <1>1, <1>5, <1>6, <1>9 DEF Unreduced
  <2>2. Interval(t, cut[p].n) \subseteq Bands
    BY <1>4, MaxBandsLemma, RequestsAssumption DEF RightInv, Inv, Types, Cuts, Bands, Interval
  <2> QED BY <1>3, <1>6, <1>9, <2>1, <2>2 DEF Right
<1>14. Right(p)'
  BY <1>1, <1>3, <1>4, <1>9, <1>12, <1>13 DEF Right
<1> QED BY <1>7, <1>8, <1>14 DEF Stepped

\* Every band is computed and added: that is the product.
LEMMA CleanupRight == ASSUME RightInv, NEW p \in Callers, Cleanup(p) PROVE Stepped(p)
<1> DEFINE s == shape[p]  v == Interval(0, s.K)
<1>1. /\ ph[p] = "reduce" /\ band[p] = cut[p].n
      /\ job' = [job EXCEPT ![p] = [t \in Bands |-> NoJob]]
      /\ ph' = [ph EXCEPT ![p] = "idle"] /\ cut' = [cut EXCEPT ![p] = NoCut]
      /\ band' = [band EXCEPT ![p] = 0] /\ off' = [off EXCEPT ![p] = 0]
      /\ UNCHANGED <<shape, C, panel, worker>>
  BY DEF Cleanup, Goto
<1>2. /\ DOMAIN ph = Callers /\ DOMAIN cut = Callers /\ DOMAIN band = Callers
      /\ DOMAIN off = Callers /\ DOMAIN job = Callers
  BY DEF RightInv, Inv, Types, Memory
<1>3. ph'[p] = "idle"
  BY <1>1, <1>2
<1>4. Memory' /\ OnlyOf(p)
  BY <1>1, <1>2 DEF RightInv, Memory, OnlyOf
<1>5. Right(p)'
  BY <1>3 DEF Right, Past, Forked
<1>6. Right(p) /\ ph[p] \in Past /\ ph[p] \in Forked
  BY <1>1 DEF RightInv, Past, Forked
<1>7. /\ s \in Shapes /\ Proper(s) /\ ~Empty(s) /\ Extent(p) \in Nat /\ cut[p].n \in Nat \ {0}
      /\ cut[p].axis \in {"rows", "sum"}
  BY <1>6, Cutting, ProperShape
<1>8. ASSUME NEW i \in Rows(s) PROVE RowSum(p, i) = v
  <2>1. CASE cut[p].axis = "rows"
    <3>1. Extent(p) = s.M
      BY <2>1 DEF Extent
    <3>2. PICK t \in Interval(0, cut[p].n) : i \in Share(p, t)
      BY <1>7, <1>8, <3>1, BandsCover DEF Rows, Share
    <3>3. t \in Finished(p)
      <4>1. Threaded(p) = {} /\ Begun(p) = cut[p].n
        BY <1>1 DEF RightInv, Inv, Team, Begun
      <4>2. t \in Bands
        BY <1>7, MaxBandsLemma, RequestsAssumption
        DEF RightInv, Inv, Types, Cuts, Bands, Interval
      <4> QED BY <4>1, <4>2 DEF Finished, Threaded
    <3> QED BY <1>6, <2>1, <3>2, <3>3 DEF RowSum
  <2>2. CASE cut[p].axis = "sum"
    <3>1. Extent(p) = s.K
      BY <2>2 DEF Extent
    <3>2. Start(p, band[p]) = Extent(p)
      BY <1>1, <1>7, Bases DEF Start
    <3> QED BY <1>1, <1>6, <2>2, <3>1, <3>2 DEF RowSum
  <2> QED BY <1>7, <2>1, <2>2
<1>9. C[p] = Product(s)
  <2>1. Holds(C[p], s, [i \in Rows(s) |-> RowSum(p, i)])
    BY <1>6 DEF Right
  <2>2. [i \in Rows(s) |-> RowSum(p, i)] = [i \in Rows(s) |-> v]
    BY <1>8
  <2>3. Holds(C[p], s, [i \in Rows(s) |-> v])
    BY <2>1, <2>2
  <2> HIDE DEF s
  <2> QED BY <1>7, <2>3, ProductHeld
<1>10. Promised(p)
  BY <1>1, <1>3, <1>9, Returned
<1> QED BY <1>4, <1>5, <1>10 DEF Stepped

LEMMA OutOfMemoryRight ==
    ASSUME RightInv, NEW p \in Callers, OutOfMemory(p) PROVE Stepped(p)
<1>1. UNCHANGED <<shape, ph, C, cut, band, off, job, panel, worker>>
  BY DEF OutOfMemory, loop, heap
<1>2. Memory' /\ OnlyOf(p)
  BY <1>1 DEF RightInv, Memory, OnlyOf
<1>3. Right(p)'
  BY <1>1 DEF RightInv, Right, RowSum, Finished, Unreduced, Begun, Share, Start, Extent
<1> QED BY <1>1, <1>2, <1>3, Unseen DEF Stepped

LEMMA NextRight ==
    RightInv /\ [Next]_vars => RightInv' /\ \A p \in Callers : [Contract(p)!Next]_(Contract(p)!vars)
<1> SUFFICES ASSUME RightInv, [Next]_vars
             PROVE  RightInv' /\ \A p \in Callers : Promised(p)
  BY DEF Promised
<1>1. Inv'
  BY NextInv DEF RightInv
<1>2. ASSUME NEW p \in Callers, Stepped(p)
      PROVE  RightInv' /\ \A q \in Callers : Promised(q)
  BY <1>1, <1>2, StepRight DEF Stepped
<1>3. ASSUME NEW p \in Callers, NEW s \in Shapes, Call(p, s) PROVE Stepped(p)
  BY <1>3, CallRight
<1>4. ASSUME NEW p \in Callers, Caller(p) PROVE Stepped(p)
  BY <1>4, NestRight, ScanRight, ZeroRight, ChoiceRight, SingleRight, ManyRight,
     OutOfMemoryRight, SpawnRight, LoopEndRight, JoinRight, ReduceRight, CleanupRight DEF Caller
<1>5. ASSUME NEW p \in Callers, NEW t \in Bands, Worker(p, t) PROVE Stepped(p)
  BY <1>5, WorkerLoadRight, WorkerRunRight DEF Worker
<1>6. CASE UNCHANGED vars
  <2>1. UNCHANGED <<shape, ph, C, cut, band, off, job, panel, worker>>
    BY <1>6 DEF vars, loop, heap
  <2>2. Memory' /\ \A p \in Callers : Promised(p)
    BY <2>1, Unseen DEF RightInv, Memory
  <2>3. ASSUME NEW p \in Callers PROVE Right(p)'
    BY <2>1 DEF RightInv, Right, RowSum, Finished, Unreduced, Begun, Share, Start, Extent
  <2> QED BY <1>1, <2>2, <2>3 DEF RightInv
<1>7. CASE Next
  BY <1>2, <1>3, <1>4, <1>5, <1>7 DEF Next
<1> QED BY <1>6, <1>7

\* Every caller of the exact product gets the exact sums, and nothing else of its
\* buffer changes, for every shape, thread count and stride, both axes of the cut,
\* any number of concurrent callers, and threads that fail to start: each step is a
\* step of the contract GemmCall, or nothing (emit_gemm_exact_threaded and
\* VnniExact in src/cpu_gemm.rs).
THEOREM ExactProducts == Spec => KeepsContract
<1>1. Init => RightInv /\ \A p \in Callers : Contract(p)!Init
  BY InitRight, InitPromised
<1> QED BY <1>1, NextRight, PTL DEF Spec, KeepsContract
=============================================================================
