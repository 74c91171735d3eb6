---------------------------- MODULE MCExactGemm -----------------------------
(* Instances of ExactGemm for TLC. *)
EXTENDS ExactGemm

S(m, n, k, ld, b, ma, mb) ==
    [M |-> m, N |-> n, K |-> k, ldc |-> ld, bound |-> b, magA |-> ma, magB |-> mb]

\* No rows, with an operand out of bounds; an operand out of bounds; a bound too
\* large to license; no depth; a sum over bands with a padded output, at the
\* largest licensed magnitude; rows over bands; one thread.
MCShapes == {S(0, 1, 1, 1, 1, 0, 2), S(1, 1, 2, 1, 2, 4, 2), S(1, 1, 2, 1, 3, 3, 3),
             S(1, 2, 0, 3, 2, 0, 0), S(2, 1, 5, 2, 2, 2, 2), S(3, 1, 3, 2, 2, 2, 2),
             S(1, 1, 1, 1, 2, 1, 1)}
=============================================================================
