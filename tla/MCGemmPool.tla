----------------------------- MODULE MCGemmPool -----------------------------
(* Instances of GemmPool for TLC. *)
EXTENDS GemmPool

S(m, n, k, ld) == [M |-> m, N |-> n, K |-> k, ldc |-> ld]

\* No rows; no depth; tiny; a 2 x 2 grid or solo; a K-split with one column and a spare
\* worker, and one with fewer vectors of columns than threads; shared B over ragged
\* bands and blocks.
MCShapes == {S(0, 1, 1, 1), S(1, 1, 0, 2), S(3, 1, 1, 1), S(4, 4, 1, 5),
             S(1, 1, 3, 1), S(2, 3, 4, 4), S(5, 3, 2, 4)}
=============================================================================
