------------------------------ MODULE MCGpuCta ------------------------------
(* Instances of GpuCta for TLC. *)
EXTENDS GpuCta

L(kind, wm, wn, m, n, k, ck, fit) ==
    [kind |-> kind, wm |-> wm, wn |-> wn, M |-> m, N |-> n, K |-> k, ck |-> ck, fit |-> fit,
     spread |-> FALSE, padded |-> FALSE, fp8stages |-> 0, fused |-> FALSE, split |-> FALSE, gqa |-> 1,
     gx |-> 1, gy |-> 1, gz |-> 1]

Spread(l) == [l EXCEPT !.spread = TRUE]
On(l, x, y, z) == [l EXCEPT !.gx = x, !.gy = y, !.gz = z]

\* Synchronous: partial K-tile, 2 x 2 warps; a short last group of a 2 x 3 grid with
\* rows and columns past the end.  Pipelined: fewer tiles than stages, as many, more;
\* two slots and three; spread; SwiGLU.
Gemms ==
    {L("f16", 2, 2, 2, 2, 3, 2, 1), On(L("f16", 1, 1, 3, 2, 1, 1, 1), 2, 3, 1),
     L("f16", 2, 1, 2, 1, 4, 2, 4), L("f16", 2, 1, 2, 1, 3, 1, 4), L("f16", 1, 2, 1, 2, 5, 1, 4),
     L("f16", 2, 1, 1, 1, 4, 1, 2), L("f16", 2, 2, 2, 2, 5, 1, 4), L("f16", 2, 2, 2, 1, 6, 2, 2),
     On(L("f16", 1, 2, 3, 4, 2, 1, 2), 2, 3, 1),
     Spread(L("f16", 2, 1, 2, 1, 6, 2, 2)), Spread(L("f16", 1, 2, 1, 2, 8, 2, 4)),
     L("swiglu", 1, 2, 1, 2, 3, 1, 4), L("swiglu", 2, 1, 2, 1, 2, 1, 1)}

Fp8(l, padded, s) == [l EXCEPT !.padded = padded, !.fp8stages = s]
Fp8s ==
    {Fp8(L("fp8", 2, 1, 2, 1, 3, 1, 1), FALSE, 0), Fp8(L("fp8", 1, 2, 1, 2, 3, 1, 1), TRUE, 0),
     Fp8(L("fp8", 2, 2, 2, 2, 2, 2, 1), TRUE, 0),
     Fp8(L("fp8", 2, 1, 2, 1, 4, 1, 1), TRUE, 2), Fp8(L("fp8", 1, 2, 1, 2, 4, 1, 1), TRUE, 3),
     Fp8(L("fp8", 2, 1, 1, 1, 1, 1, 1), TRUE, 2),
     On(Fp8(L("fp8", 1, 1, 3, 2, 1, 1, 1), FALSE, 0), 3, 2, 1),
     On(Fp8(L("fp8", 1, 1, 3, 1, 1, 1, 1), TRUE, 2), 3, 1, 1)}

Int8(m, n, k, fused) == [L("int8", 2, 1, m, n, k, 1, 1) EXCEPT !.fused = fused]
Int8s ==
    {On(Int8(3, 2, 4, FALSE), 1, 2, 3), On(Int8(2, 3, 3, FALSE), 2, 1, 2),
     On(Int8(2, 2, 3, TRUE), 2, 1, 2), On(Int8(1, 1, 1, FALSE), 2, 2, 2)}

\* M query heads, of gqa to a key-value head; K tokens.
Attention(m, k, warps, split, gqa) ==
    [L("attention", warps, 1, m, 1, k, 1, 1) EXCEPT !.split = split, !.gqa = gqa]
Attentions ==
    {On(Attention(2, 3, 2, FALSE, 1), 2, 1, 1), On(Attention(2, 0, 2, FALSE, 1), 2, 1, 1),
     On(Attention(1, 1, 2, FALSE, 1), 1, 1, 1),
     On(Attention(2, 5, 2, TRUE, 2), 1, 1, 2), On(Attention(2, 3, 2, TRUE, 1), 2, 1, 2),
     On(Attention(2, 1, 2, TRUE, 2), 1, 1, 2), On(Attention(2, 0, 2, TRUE, 2), 1, 1, 2)}

Norms == {On(L("rmsnorm", 2, 2, 2, 1, 6, 1, 1), 2, 1, 1), L("rmsnorm", 1, 1, 1, 1, 2, 1, 1),
          L("rmsnorm", 2, 1, 1, 1, 1, 1, 1)}

MCShapes == Norms \cup Gemms \cup Fp8s \cup Int8s \cup Attentions
=============================================================================
