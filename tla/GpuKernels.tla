----------------------------- MODULE GpuKernels -----------------------------
(***************************************************************************)
(* The kernels that src/ptx_emitter.rs writes for matrix products and      *)
(* paged attention, as the instructions each warp of a block executes.     *)
(* Loops are unrolled over the K-tiles of the launch; an instruction under *)
(* a predicate is left out of the warps it is false in.  Rows and columns  *)
(* are counted in the bands one warp covers, depth in the chunks one mma   *)
(* step covers, so a K-tile of ck chunks takes ck steps.                   *)
(***************************************************************************)
EXTENDS Integers, Sequences, SequencesExt, GemmBuffer

CONSTANTS
    GROUP,        \* GEMM_SWIZZLE_GROUP_SIZE, FP8_GEMM_GROUP_M
    RequestedStages

(* A launch l: kind, warps wm x wn, the product M x N x K, chunks per K-tile  *)
(* ck, stages that fit the shared memory, grid gx x gy x gz.                  *)

KTilesFloor(l) == l.K \div l.ck
\* The last tile of K may be partial.
KTiles(l) == (l.K + l.ck - 1) \div l.ck

\* effective_stages
Stages(l) == imax(imin(imin(RequestedStages, KTiles(l)), l.fit), 1)

WarpM(l, w) == w % l.wm
WarpN(l, w) == w \div l.wm
NumWarps(l) == l.wm * l.wn

\* The B operands: gate and up for the SwiGLU kernel.
Operands(l) == 1 .. (IF l.kind = "swiglu" THEN 2 ELSE 1)

Loop(n, body(_)) == FlattenSeq([i \in 1 .. n |-> body(i - 1)])
When(cond, code) == IF cond THEN code ELSE <<>>

----------------------------------------------------------------------------
(* Instructions *)

Bar == [op |-> "bar"]
Commit == [op |-> "commit"]
Wait(n) == [op |-> "wait", n |-> n]

Tile(s) == <<"tile", s>>
Raw(s) == <<"raw", s>>

\* The warp's share of K-tile t of every operand: stored into a slot, copied
\* asynchronously into it, or kept in registers.
Store(s, t) == [op |-> "store", slot |-> s, tile |-> t]
Copy(s, t) == [op |-> "copy", slot |-> s, tile |-> t]
LoadRegs(t) == [op |-> "ldreg", tile |-> t]
StoreRegs(s) == [op |-> "streg", slot |-> s]
\* The same by the loaders of the spread pipeline and of the fp8 kernel, which
\* quantizes a tile on its way to the slot, or later from a raw copy.
SpreadCopy(s, t) == Copy(s, t)
QuantizeTile(s, t) == Store(s, t)
RawCopy(s, t) == Copy(Raw(s), t)
Convert(from, s) == [op |-> "convert", from |-> from, slot |-> s]

\* One mma step of a slot against operand b; all of them.
Mma(s, step, b) == [op |-> "mma", slot |-> s, step |-> step, b |-> b]
Steps(l, s, from) ==
    FlattenSeq([b \in Operands(l) |-> Loop(l.ck - from, LAMBDA i : <<Mma(s, from + i, b)>>)])

\* Accumulators to row band WarpM of a column of the scratch, and from the scratch
\* to a column band of C.
Stage(c) == [op |-> "stage", c |-> c]
CopyOut(c, n) == [op |-> "copyout", c |-> c, n |-> n]
StoreC == [op |-> "storec"]

----------------------------------------------------------------------------
(* The f16 and SwiGLU kernels *)

\* One slot, filled and consumed between barriers.
SyncLoop(l) ==
    Loop(KTiles(l), LAMBDA k :
        <<Store(Tile(0), k), Bar>> \o Steps(l, Tile(0), 0) \o <<Bar>>)

BodyLateWait(l, k) ==
    LET n == Stages(l)
        next == k + n - 1
    IN  <<Copy(Tile(next % n), next), Commit>> \o Steps(l, Tile(k % n), 0)
        \o <<Wait(n - 1), Bar>>
\* cp.async into n slots, the copy of tile k+n-1 in flight while tile k is
\* multiplied; spread, the copies are issued between the mma steps.
Body(l, k) ==
    LET n == Stages(l)
        next == k + n - 1
        write == Tile(next % n)
    IN  IF l.spread
        THEN <<Wait(n - 2), Bar, Mma(Tile(k % n), 0, 1), SpreadCopy(write, next)>>
             \o Steps(l, Tile(k % n), 1) \o <<Commit>>
        ELSE <<Copy(write, next), Commit>> \o Steps(l, Tile(k % n), 0) \o <<Wait(n - 2), Bar>>

Prologue(l) ==
    Loop(Stages(l) - 1, LAMBDA s : <<Copy(Tile(s), s), Commit>>)
    \o When(~l.spread, <<Wait(Stages(l) - 2), Bar>>)

DrainNothing(l) == <<>>
\* No copy outlives the loop.
Drain(l) == <<Wait(0), Bar>>

PipelinedLoop(l) ==
    Prologue(l) \o Loop(KTiles(l), LAMBDA k : Body(l, k)) \o Drain(l)

BandEpilogueOnce(l, w) ==
    Loop(l.wn, LAMBDA n : When(WarpN(l, w) = n, <<Stage(0)>>) \o <<Bar, CopyOut(0, n)>>)
\* One column band at a time goes through the scratch, which all warps then copy.
BandEpilogue(l, w) ==
    Loop(l.wn, LAMBDA n :
        When(WarpN(l, w) = n, <<Stage(0)>>) \o <<Bar, CopyOut(0, n), Bar>>)

GemmCode(l, w) ==
    (IF Stages(l) < 2 THEN SyncLoop(l) ELSE PipelinedLoop(l)) \o BandEpilogue(l, w)

\* Two products of one A, never spread, staged and combined in one epilogue.
SwigluCode(l, w) == GemmCode([l EXCEPT !.spread = FALSE], w)

----------------------------------------------------------------------------
(* The fp8 kernel *)

PaddedSteps(l, s) == Steps(l, s, 0)

\* Two quantized slots; the padded path holds the next tile in registers while
\* this one is multiplied.
Fp8Body(l, k) ==
    LET write == Tile((k + 1) % 2)
        valid == k + 1 < KTiles(l)
    IN  IF l.padded
        THEN When(valid, <<LoadRegs(k + 1)>>) \o PaddedSteps(l, Tile(k % 2))
             \o When(valid, <<StoreRegs(write)>>) \o <<Bar>>
        ELSE <<QuantizeTile(write, k + 1)>> \o Steps(l, Tile(k % 2), 0) \o <<Bar>>

Fp8DoubleLoop(l) ==
    <<QuantizeTile(Tile(0), 0), Bar>> \o Loop(KTiles(l), LAMBDA k : Fp8Body(l, k))

\* emit_fp8_k_loop_async: raw tiles are copied stages ahead, one group per
\* iteration even past the end, and quantized one ahead.
Fp8AsyncPrologue(l) ==
    Loop(l.fp8stages, LAMBDA t : When(t < KTiles(l), <<RawCopy(t, t)>>) \o <<Commit>>)
    \o <<Wait(l.fp8stages - 1), Bar, Convert(Raw(0), Tile(0)), Bar>>

Fp8AsyncBody(l, k) ==
    When(k + l.fp8stages < KTiles(l), <<RawCopy(k % l.fp8stages, k + l.fp8stages)>>)
    \o <<Commit>> \o PaddedSteps(l, Tile(k % 2)) \o <<Wait(l.fp8stages - 1), Bar>>
    \o When(k + 1 < KTiles(l), <<Convert(Raw((k + 1) % l.fp8stages), Tile((k + 1) % 2))>>)
    \o <<Bar>>

\* The whole tile of C goes through the scratch at once.
StagedEpilogue(l, w) ==
    <<Wait(0), Stage(WarpN(l, w)), Bar>> \o Loop(l.wn, LAMBDA n : <<CopyOut(n, n)>>)

Fp8Code(l, w) ==
    IF l.fp8stages > 0
    THEN Fp8AsyncPrologue(l) \o Loop(KTiles(l), LAMBDA k : Fp8AsyncBody(l, k))
         \o StagedEpilogue(l, w)
    ELSE Fp8DoubleLoop(l) \o <<StoreC>>

----------------------------------------------------------------------------
(* The int8 kernel: one warp per block, any grid *)

Sum(k) == [op |-> "sum", b |-> 1, k |-> k]
RedC(r, c) == [op |-> "redc", row |-> r, col |-> c]
PutC(r, c) == [op |-> "putc", row |-> r, col |-> c]

\* The values lo, lo+step, ... below hi.
Stride(lo, step, hi) ==
    [i \in 1 .. imax(0, (hi - lo + step - 1) \div step) |-> lo + (i - 1) * step]
ForEach(s, body(_)) == FlattenSeq([i \in DOMAIN s |-> body(s[i])])

\* The block at (x, y, z) takes every gx'th column tile, every gy'th row tile and
\* every gz'th step of K, and adds its sums to C; a fused epilogue stores, so
\* there z does not split the sum.
Int8Code(l, block, w) ==
    LET z == IF l.fused THEN 0 ELSE block[3]
        nz == IF l.fused THEN 1 ELSE l.gz
        tile(r, c) == ForEach(Stride(z, nz, l.K), LAMBDA k : <<Sum(k)>>)
                      \o (IF l.fused THEN <<PutC(r, c)>> ELSE <<RedC(r, c)>>)
    IN  When(w = 0, ForEach(Stride(block[1], l.gx, l.N), LAMBDA c :
                        ForEach(Stride(block[2], l.gy, l.M), LAMBDA r : tile(r, c))))

----------------------------------------------------------------------------
(* Paged attention: rows are query heads, the sum is over tokens *)

Token(h, t) == [op |-> "token", h |-> h, k |-> t]
PutPartial(h) == [op |-> "partial", h |-> h]
Merge(h, q, z) == [op |-> "merge", h |-> h, q |-> q, z |-> z]
ZeroC(q) == [op |-> "zeroc", q |-> q]
Combine(q) == [op |-> "combine", q |-> q]

HeadsPerCta(l) == IF l.split THEN l.gqa ELSE 1

\* Warp w takes every nw'th token of the block's part of the sequence; then the
\* warps' partial softmax states are merged by warp 0, head by head, through the
\* same shared memory.
AttentionCode(l, block, w) ==
    LET chunk == (l.K + l.gz - 1) \div l.gz
        lo == IF l.split THEN block[3] * chunk ELSE 0
        hi == IF l.split THEN imin(lo + chunk, l.K) ELSE l.K
        heads == HeadsPerCta(l)
    IN  IF l.K <= 0 THEN When(~l.split /\ w = 0, <<ZeroC(block[1])>>)
        ELSE ForEach(Stride(lo + w, NumWarps(l), hi),
                     LAMBDA t : Loop(heads, LAMBDA h : <<Token(h, t)>>))
             \o Loop(heads, LAMBDA h :
                    When(h > 0, <<Bar>>) \o <<PutPartial(h), Bar>>
                    \o When(w = 0, <<Merge(h, block[1] * heads + h, block[3])>>))

\* emit_attention_split_reduce_entry: one warp per query head.
CombineCode(l, block, w) ==
    When(w = 0, IF l.K <= 0 THEN <<ZeroC(block[1])>> ELSE <<Combine(block[1])>>)

----------------------------------------------------------------------------
(* RMSNorm over a residual: a row of the output per block *)

Norm(q) == [op |-> "norm", q |-> q]

NormCodeIdleExit(l, block, w) ==
    When(w < l.K, ForEach(Stride(w, NumWarps(l), l.K), LAMBDA k : <<Token(0, k)>>)
                  \o <<PutPartial(0)>> \o When(NumWarps(l) > 1, <<Bar>>) \o <<Norm(block[1])>>)
\* Every warp sums its elements' squares; each then totals the partial sums of all,
\* and scales its own share of the row.
NormCode(l, block, w) ==
    ForEach(Stride(w, NumWarps(l), l.K), LAMBDA k : <<Token(0, k)>>)
    \o <<PutPartial(0)>> \o When(NumWarps(l) > 1, <<Bar>>) \o <<Norm(block[1])>>

----------------------------------------------------------------------------
(* Grids *)

\* emit_grid_swizzle_code: GROUP rows of tiles at a time, column by column, the
\* last group being shorter.
SwizzleFullGroup(l, x, y) ==
    LET tile == y * l.gx + x
        first == (tile \div (l.gx * GROUP)) * GROUP
        off == tile % (l.gx * GROUP)
    IN  [m |-> first + (off % GROUP), n |-> off \div GROUP]
Swizzle(l, x, y) ==
    LET tile == y * l.gx + x
        first == (tile \div (l.gx * GROUP)) * GROUP
        off == tile % (l.gx * GROUP)
        size == imin(l.gy - first, GROUP)
    IN  [m |-> first + (off % size), n |-> off \div size]

\* The fp8 kernel has its M-tiles along x.
Fp8Swizzle(l, x, y) ==
    LET tile == y * l.gx + x
        first == (tile \div (l.gy * GROUP)) * GROUP
        off == tile % (l.gy * GROUP)
        size == imin(l.gx - first, GROUP)
    IN  IF l.gx > 1 /\ l.gy > 1
        THEN [m |-> first + (off % size), n |-> off \div size]
        ELSE [m |-> x, n |-> y]

\* The tile of C a block computes.
TileOf(l, block) ==
    IF l.kind = "fp8" THEN Fp8Swizzle(l, block[1], block[2]) ELSE Swizzle(l, block[1], block[2])

Code(l, entry, block, w) ==
    CASE l.kind = "f16" -> GemmCode(l, w)
      [] l.kind = "swiglu" -> SwigluCode(l, w)
      [] l.kind = "fp8" -> Fp8Code(l, w)
      [] l.kind = "int8" -> Int8Code(l, block, w)
      [] l.kind = "rmsnorm" -> NormCode(l, block, w)
      [] l.kind = "attention" ->
            IF entry = "reduce" THEN CombineCode(l, block, w) ELSE AttentionCode(l, block, w)

\* The blocks of an entry point.
Grid(l, entry) ==
    IF entry = "reduce" THEN Interval(0, l.M) \X {0} \X {0}
    ELSE Interval(0, l.gx) \X Interval(0, l.gy) \X Interval(0, l.gz)

\* A split attention is two launches on one stream.
HasReduce(l) == l.kind = "attention" /\ l.split
=============================================================================
