---------------------------- MODULE MCGemmTuner -----------------------------
(* Instances of GemmTuner for TLC. *)
EXTENDS GemmTuner, TLC

CONSTANTS k1, k2, k3, k4, k5, k6

\* k3 generates the code of k2; the kernel of k5 is wrong.
MCCode == (k1 :> 1) @@ (k2 :> 2) @@ (k3 :> 2) @@ (k4 :> 3) @@ (k5 :> 4) @@ (k6 :> 5)
\* k1 and k2 differ in their dimensions only, k6 in its depth, k4 in its warps.
MCWarps == [c \in Candidates |-> IF c = k4 THEN 8 ELSE 4]
MCDepth == [c \in Candidates |-> IF c \in {k4, k6} THEN 64 ELSE 32]
MCRows == [c \in Candidates |-> IF c \in {k2, k3} THEN 128 ELSE 64]
MCColumns == [c \in Candidates |-> IF c \in {k2, k3} THEN 64 ELSE 128]

T(best, median, max) == [best |-> best, median |-> median, max |-> max]

\* In half nanoseconds: fast with a slow outlier, fast but noisy, slow, within
\* the same nanosecond and the 0.25% band of slow, and slow with an outlier.
ValidTimings == {T(300, 300, 400), T(300, 400, 400), T(400, 400, 400),
                 T(401, 401, 401), T(400, 400, 600)}

\* A timer that returned zero as well.
AllTimings == ValidTimings \cup {T(0, 0, 0)}
=============================================================================
