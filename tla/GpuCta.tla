------------------------------- MODULE GpuCta -------------------------------
(***************************************************************************)
(* A launch of a kernel of GpuKernels.  Its blocks run one at a time, in   *)
(* any order: they share nothing but C, of which they write disjoint parts *)
(* or to which they add.  The warps of a block interleave, and copies into *)
(* shared memory land at any moment between their issue and the wait for   *)
(* them: until then the slot holds nothing that can be relied on.          *)
(***************************************************************************)
EXTENDS GpuKernels, FiniteSets

CONSTANTS
    Shapes,                           \* the launches
    MaxM, MaxN, MaxWarps, MaxRaw, MaxSplits   \* bounds of the model

\* Warps, K-tiles and grids are never empty; the product may be.
Launches ==
    [kind: {"f16", "swiglu", "fp8", "int8", "rmsnorm", "attention"},
     wm: Nat \ {0}, wn: Nat \ {0}, M: Int, N: Int, K: Int, ck: Nat \ {0}, fit: Int,
     spread: BOOLEAN, padded: BOOLEAN, fp8stages: 0 .. MaxRaw, fused: BOOLEAN,
     split: BOOLEAN, gqa: Nat \ {0}, gx: Nat \ {0}, gy: Nat \ {0}, gz: Nat \ {0}]

ASSUME LaunchAssumption ==
    /\ {MaxM, MaxN, MaxWarps, MaxRaw, MaxSplits, RequestedStages} \subseteq Nat
    /\ Shapes \subseteq Launches

Pending == <<>>
NoBlock == <<>>
NoTile == -1        \* a register or a slot nobody has filled
Dirty == -2         \* a slot overwritten while it was in use
Nothing == [h |-> 0, v |-> Bad]

Warps == 0 .. MaxWarps - 1
\* The fp8 kernel has two slots whatever the pipeline.
Slots == {Tile(s) : s \in 0 .. imax(RequestedStages, 2) - 1} \cup {Raw(s) : s \in 0 .. MaxRaw - 1}
ScratchCells == (0 .. MaxWarps - 1) \X (0 .. MaxN - 1)
OutCells == (0 .. MaxM) \X (0 .. MaxN) \X Warps
Parts == (0 .. MaxM - 1) \X (0 .. MaxSplits - 1)

VARIABLES
    shape,      \* the launch
    entry,      \* "none", or the entry point that runs: main, reduce
    todo,       \* blocks not started
    block,      \* the block that runs
    code,       \* what each of its warps has left to execute
    smem,       \* the tile in each slot, as each warp's share of it
    flying,     \* the shares that copies in flight will overwrite
    scratch,    \* what warps exchange through shared memory: the column band or head h
                \* of the values v; in the epilogues it lies over the slots
    groups,     \* committed groups of copies, oldest first
    open,       \* copies issued since the last commit
    regs,       \* the tile in each warp's staging registers
    acc,        \* accumulators: the products summed so far
    arrived,    \* warps at the barrier
    C,          \* the output, by row band, column band and share
    part        \* the partial softmax states of a split attention

shared == <<smem, flying, scratch>>
queues == <<groups, open>>
grid == <<shape, entry, todo, block>>
vars == <<grid, code, shared, queues, regs, acc, arrived, C, part>>

InBlock == {w \in Warps : w < NumWarps(shape)}

Initially(l) == IF l.kind = "int8" /\ ~l.fused THEN {} ELSE Old

\* Term k of operand b, as a number; all of them.
Term(l, b, k) == (b - 1) * l.K + k
Terms(l) == {Term(l, b, k) : b \in Operands(l), k \in Interval(0, l.K)}

\* What a launch leaves: in the rows and columns of the product, all terms of
\* every operand.
Product(l) ==
    [o \in OutCells |->
        IF o[1] < l.M /\ o[2] < l.N /\ o[3] < NumWarps(l)
        THEN Terms(l) ELSE Initially(l)]

Idle ==
    /\ todo = {} /\ block = NoBlock
    /\ code = [w \in Warps |-> <<>>]
    /\ smem = [s \in Slots |-> [w \in Warps |-> NoTile]]
    /\ flying = {}
    /\ scratch = [c \in ScratchCells |-> Nothing]
    /\ groups = [w \in Warps |-> <<>>]
    /\ open = [w \in Warps |-> {}]
    /\ regs = [w \in Warps |-> NoTile]
    /\ acc = [w \in Warps |-> <<>>]
    /\ arrived = {}

Init ==
    /\ shape \in Shapes /\ entry = "none" /\ Idle
    /\ C = Pending
    /\ part = [p \in Parts |-> Bad]

----------------------------------------------------------------------------
(* The stream *)

Launch(l) ==
    /\ entry = "none"
    /\ shape' = l
    /\ entry' = "main"
    /\ todo' = Grid(l, "main")
    /\ C' = [o \in OutCells |-> Initially(l)]
    /\ part' = [p \in Parts |-> Bad]
    /\ UNCHANGED <<block, code, shared, queues, regs, acc, arrived>>

StartBlock(b) ==
    /\ entry # "none" /\ block = NoBlock /\ b \in todo
    /\ block' = b
    /\ todo' = todo \ {b}
    /\ code' = [w \in Warps |-> IF w \in InBlock THEN Code(shape, entry, b, w) ELSE <<>>]
    /\ acc' = [w \in Warps |-> [h \in 0 .. 1 |-> {}]]
    /\ UNCHANGED <<shape, entry, shared, queues, regs, arrived, C, part>>

\* A block ends with its warps: its shared memory is gone.
EndBlock ==
    /\ block # NoBlock /\ \A w \in Warps : code[w] = <<>>
    /\ block' = NoBlock
    /\ smem' = [s \in Slots |-> [w \in Warps |-> NoTile]]
    /\ flying' = {}
    /\ scratch' = [c \in ScratchCells |-> Nothing]
    /\ groups' = [w \in Warps |-> <<>>]
    /\ open' = [w \in Warps |-> {}]
    /\ regs' = [w \in Warps |-> NoTile]
    /\ acc' = [w \in Warps |-> <<>>]
    /\ UNCHANGED <<shape, entry, todo, code, arrived, C, part>>

\* The grid is done: the next entry point of the kernel, or the end.
EndGrid ==
    /\ entry # "none" /\ block = NoBlock /\ todo = {}
    /\ IF entry = "main" /\ HasReduce(shape)
       THEN entry' = "reduce" /\ todo' = Grid(shape, "reduce")
       ELSE entry' = "none" /\ UNCHANGED todo
    /\ UNCHANGED <<shape, block, code, shared, queues, regs, acc, arrived, C, part>>

----------------------------------------------------------------------------
(* One instruction of warp w *)

AtOp(w, op) == code[w] # <<>> /\ Head(code[w]).op = op
Instr(w) == Head(code[w])
Advance(w) == code' = [code EXCEPT ![w] = Tail(@)]

\* A write to the slots by a warp, which the scratch lies over.
Overwrite == scratch' = [c \in ScratchCells |-> Nothing]

StoreTile(w) ==
    /\ AtOp(w, "store") /\ Advance(w)
    /\ LET i == Instr(w)
       IN  smem' = [smem EXCEPT ![i.slot][w] = IF <<i.slot, w>> \in flying THEN Dirty ELSE i.tile]
    /\ Overwrite
    /\ UNCHANGED <<grid, flying, queues, regs, acc, arrived, C, part>>

\* From here on the share may change at any time.
CopyAsync(w) ==
    /\ AtOp(w, "copy") /\ Advance(w)
    /\ LET i == Instr(w)
       IN  /\ open' = [open EXCEPT ![w] = @ \cup {<<i.slot, i.tile>>}]
           /\ flying' = flying \cup {<<i.slot, w>>}
           /\ smem' = [smem EXCEPT ![i.slot][w] =
                          IF <<i.slot, w>> \in flying THEN Dirty ELSE NoTile]
    /\ Overwrite
    /\ UNCHANGED <<grid, groups, regs, acc, arrived, C, part>>

CommitGroup(w) ==
    /\ AtOp(w, "commit") /\ Advance(w)
    /\ groups' = [groups EXCEPT ![w] = Append(@, open[w])]
    /\ open' = [open EXCEPT ![w] = {}]
    /\ UNCHANGED <<grid, shared, regs, acc, arrived, C, part>>

\* All but the n newest groups have landed: each copy holds its share, unless
\* something else was written there meanwhile.
WaitGroup(w) ==
    /\ AtOp(w, "wait") /\ Advance(w)
    /\ LET n == imin(Instr(w).n, Len(groups[w]))
           landed == UNION {groups[w][g] : g \in 1 .. Len(groups[w]) - n}
           tile(s) == (CHOOSE c \in landed : c[1] = s)[2]
       IN  /\ groups' = [groups EXCEPT ![w] = SubSeq(@, Len(@) - n + 1, Len(@))]
           /\ flying' = flying \ {<<c[1], w>> : c \in landed}
           /\ smem' = [s \in Slots |->
                          IF \E c \in landed : c[1] = s
                          THEN [smem[s] EXCEPT ![w] = IF @ = NoTile THEN tile(s) ELSE Dirty]
                          ELSE smem[s]]
    /\ UNCHANGED <<grid, scratch, open, regs, acc, arrived, C, part>>

\* bar.sync 0, by the last warp of the block or another.
BarSync(w) ==
    /\ AtOp(w, "bar") /\ w \notin arrived
    /\ IF arrived \cup {w} = InBlock
       THEN arrived' = {} /\ code' = [u \in Warps |-> IF u \in InBlock THEN Tail(code[u]) ELSE <<>>]
       ELSE arrived' = arrived \cup {w} /\ UNCHANGED code
    /\ UNCHANGED <<grid, shared, queues, regs, acc, C, part>>

LoadTile(w) ==
    /\ AtOp(w, "ldreg") /\ Advance(w)
    /\ regs' = [regs EXCEPT ![w] = Instr(w).tile]
    /\ UNCHANGED <<grid, shared, queues, acc, arrived, C, part>>

StoreTileRegs(w) ==
    /\ AtOp(w, "streg") /\ Advance(w)
    /\ smem' = [smem EXCEPT ![Instr(w).slot][w] = regs[w]]
    /\ Overwrite
    /\ UNCHANGED <<grid, flying, queues, regs, acc, arrived, C, part>>

\* The tile whose shares a slot holds.
TileIn(s) ==
    LET t == smem[s][0]
    IN  IF t >= 0 /\ \A w \in InBlock : smem[s][w] = t THEN t ELSE Dirty

\* A raw tile is read across shares, quantized and stored.
Quantize(w) ==
    /\ AtOp(w, "convert") /\ Advance(w)
    /\ smem' = [smem EXCEPT ![Instr(w).slot][w] = TileIn(Instr(w).from)]
    /\ UNCHANGED <<grid, flying, scratch, queues, regs, acc, arrived, C, part>>

Accumulate(w, h, terms) == acc' = [acc EXCEPT ![w][h] = Add(@, terms)]

\* The chunks past the end of K are zeros.
MmaStep(w) ==
    /\ AtOp(w, "mma") /\ Advance(w)
    /\ LET i == Instr(w)
           t == TileIn(i.slot)
           k == t * shape.ck + i.step
       IN  Accumulate(w, 0, CASE t = Dirty   -> Bad
                                 [] k >= shape.K -> {}
                                 [] OTHER        -> {Term(shape, i.b, k)})
    /\ UNCHANGED <<grid, shared, queues, regs, arrived, C, part>>

SumGlobal(w) ==
    /\ AtOp(w, "sum") /\ Advance(w)
    /\ Accumulate(w, 0, {Instr(w).k})
    /\ UNCHANGED <<grid, shared, queues, regs, arrived, C, part>>

----------------------------------------------------------------------------
(* Epilogues *)

\* The scratch lies over the slots: a copy in flight may land in it.
StageAcc(w) ==
    /\ AtOp(w, "stage") /\ Advance(w)
    /\ scratch' = [scratch EXCEPT ![<<WarpM(shape, w), Instr(w).c>>] =
                      IF flying # {} THEN Nothing ELSE [h |-> WarpN(shape, w), v |-> acc[w][0]]]
    /\ smem' = [s \in Slots |-> [u \in Warps |-> Dirty]]
    /\ UNCHANGED <<grid, flying, queues, regs, acc, arrived, C, part>>

InC(r, c) == r < shape.M /\ c < shape.N

\* The scratch has to hold column band n.
InScratch(r, c, n) == IF scratch[<<r, c>>].h = n THEN scratch[<<r, c>>].v ELSE Bad

\* A warp's share of a column band, rows and columns past the end left alone.
CopyBand(w) ==
    /\ AtOp(w, "copyout") /\ Advance(w)
    /\ LET i == Instr(w)
           t == TileOf(shape, block)
           col == t.n * shape.wn + i.n
       IN  C' = [o \in OutCells |->
                    IF o[2] = col /\ o[3] = w /\ InC(o[1], o[2]) /\ o[1] \div shape.wm = t.m
                    THEN InScratch(o[1] % shape.wm, i.c, i.n) ELSE C[o]]
    /\ UNCHANGED <<grid, shared, queues, regs, acc, arrived, part>>

\* The shares of a part of C that belong to warps of the block.
Put(r, c, v(_)) ==
    C' = [o \in OutCells |->
             IF o[1] = r /\ o[2] = c /\ o[3] \in InBlock /\ InC(r, c) THEN v(C[o]) ELSE C[o]]

StoreAcc(w) ==
    /\ AtOp(w, "storec") /\ Advance(w)
    /\ LET t == TileOf(shape, block)
       IN  Put(t.m * shape.wm + WarpM(shape, w), t.n * shape.wn + WarpN(shape, w),
               LAMBDA old : acc[w][0])
    /\ UNCHANGED <<grid, shared, queues, regs, acc, arrived, part>>

\* red.global.add, or the store of a fused epilogue; the next tile starts at zero.
Finish(w) ==
    /\ AtOp(w, "redc") \/ AtOp(w, "putc")
    /\ Advance(w)
    /\ Put(Instr(w).row, Instr(w).col,
           LAMBDA old : IF Instr(w).op = "redc" THEN Add(old, acc[w][0]) ELSE acc[w][0])
    /\ acc' = [acc EXCEPT ![w][0] = {}]
    /\ UNCHANGED <<grid, shared, queues, regs, arrived, part>>

----------------------------------------------------------------------------
(* Paged attention *)

\* One token's score and value enter the online softmax of a head.
AttendToken(w) ==
    /\ AtOp(w, "token") /\ Advance(w)
    /\ Accumulate(w, Instr(w).h, {Instr(w).k})
    /\ UNCHANGED <<grid, shared, queues, regs, arrived, C, part>>

PutState(w) ==
    /\ AtOp(w, "partial") /\ Advance(w)
    /\ scratch' = [scratch EXCEPT ![<<w, 0>>] = [h |-> Instr(w).h, v |-> acc[w][Instr(w).h]]]
    /\ UNCHANGED <<grid, smem, flying, queues, regs, acc, arrived, C, part>>

\* The states of the warps, rescaled and summed: Bad unless all are of head h.
Merged(h) ==
    LET state(u) == scratch[<<u, 0>>]
    IN  IF \E u \in InBlock : state(u).v = Bad \/ state(u).h # h THEN Bad
        ELSE UNION {state(u).v : u \in InBlock}

MergeStates(w) ==
    /\ AtOp(w, "merge") /\ Advance(w)
    /\ LET i == Instr(w)
       IN  IF shape.split
           THEN part' = [part EXCEPT ![<<i.q, i.z>>] = Merged(i.h)] /\ UNCHANGED C
           ELSE Put(i.q, 0, LAMBDA old : Merged(i.h)) /\ UNCHANGED part
    /\ UNCHANGED <<grid, shared, queues, regs, acc, arrived>>

\* A warp's share of a normalized row, scaled by the merged sum.
NormRow(w) ==
    /\ AtOp(w, "norm") /\ Advance(w)
    /\ C' = [o \in OutCells |-> IF o = <<Instr(w).q, 0, w>> THEN Merged(0) ELSE C[o]]
    /\ UNCHANGED <<grid, shared, queues, regs, acc, arrived, part>>

\* A sequence without tokens.
StoreZeros(w) ==
    /\ AtOp(w, "zeroc") /\ Advance(w)
    /\ Put(Instr(w).q, 0, LAMBDA old : {})
    /\ UNCHANGED <<grid, shared, queues, regs, acc, arrived, part>>

CombineSplits(w) ==
    /\ AtOp(w, "combine") /\ Advance(w)
    /\ LET of(z) == part[<<Instr(w).q, z>>]
           zs == Interval(0, shape.gz)
       IN  Put(Instr(w).q, 0, LAMBDA old :
               IF \/ \E z \in zs : of(z) = Bad
                  \/ \E y, z \in zs : y # z /\ of(y) \cap of(z) # {}
               THEN Bad ELSE UNION {of(z) : z \in zs})
    /\ UNCHANGED <<grid, shared, queues, regs, acc, arrived, part>>

----------------------------------------------------------------------------

Step(w) ==
    \/ StoreTile(w) \/ CopyAsync(w) \/ CommitGroup(w) \/ WaitGroup(w) \/ BarSync(w)
    \/ LoadTile(w) \/ StoreTileRegs(w) \/ Quantize(w) \/ MmaStep(w) \/ SumGlobal(w)
    \/ StageAcc(w) \/ CopyBand(w) \/ StoreAcc(w) \/ Finish(w)
    \/ AttendToken(w) \/ PutState(w) \/ MergeStates(w) \/ NormRow(w) \/ StoreZeros(w) \/ CombineSplits(w)

Stream == (\E b \in todo : StartBlock(b)) \/ EndBlock \/ EndGrid

Next ==
    \/ \E l \in Shapes : Launch(l)
    \/ Stream
    \/ \E w \in Warps : Step(w)

\* The device schedules every warp that can issue, and every block.
Spec ==
    /\ Init /\ [][Next]_vars
    /\ WF_vars(Stream)
    /\ \A w \in Warps : WF_vars(Step(w))

----------------------------------------------------------------------------
(* Properties *)

Busy == entry # "none"

TypeOK ==
    /\ shape \in Shapes /\ entry \in {"none", "main", "reduce"}
    /\ flying \subseteq Slots \X Warps
    /\ arrived \subseteq Warps
    /\ \A w \in Warps : \A i \in DOMAIN code[w] :
          "slot" \in DOMAIN code[w][i] =>
              code[w][i].slot \in Slots

Contract == INSTANCE GemmCall WITH
    busy <- Busy,
    out <- IF Busy THEN Pending ELSE C

\* Whatever the kernel, its pipeline depth, its grid and the interleaving of its
\* warps, a launch leaves the product: every element has each term once.
KeepsContract == Contract!Init /\ [][Contract!Next]_Contract!vars

\* The warps of a block all reach each barrier.
LaunchesReturn == Busy ~> ~Busy

\* A warp that has ended has no copy in flight into the block's shared memory.
NoCopyOutlives ==
    \A w \in Warps : code[w] = <<>> => open[w] = {} /\ \A x \in flying : x[2] # w
=============================================================================
