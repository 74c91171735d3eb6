----------------------------- MODULE GemmBuffer -----------------------------
(***************************************************************************)
(* Output buffers of the CPU matrix products of src/cpu_gemm.rs.  A number *)
(* in a buffer is the set of the k whose products have been summed in it:  *)
(* {} is zero, Old what the caller had there, Bad a sum in which a term is *)
(* repeated, or which was added to old contents, or took a term from the   *)
(* wrong place.  Memory is addressed as in the code, by row and stride.    *)
(***************************************************************************)
EXTENDS Integers

imin(a, b) == IF a < b THEN a ELSE b
imax(a, b) == IF a > b THEN a ELSE b
AtLeast1(x) == imax(x, 1)

Old == {-1}
Bad == {-2}

Add(v, terms) ==
    IF v \in {Old, Bad} \/ terms = Bad THEN Bad
    ELSE IF v \cap terms # {} THEN Bad ELSE v \cup terms

Interval(lo, hi) == lo .. hi - 1

\* The rows and columns of a rectangle, at the addresses a stride gives them.
Cells(r0, r1, c0, c1) == Interval(r0, r1) \X Interval(c0, c1)
At(cell, ld) == cell[1] * ld + cell[2]

\* f(c) is stored at every cell c of a rectangle.
Stored(mem, base, cells, ld, f(_)) ==
    [x \in DOMAIN mem |->
        IF \E c \in cells : base + At(c, ld) = x
        THEN f(CHOOSE c \in cells : base + At(c, ld) = x)
        ELSE mem[x]]

Empty(s) == s.M <= 0 \/ s.N <= 0
\* The buffer of the given size that a product of shape s leaves.
ProductIn(Addresses, s) ==
    IF Empty(s) THEN [x \in Addresses |-> Old]
    ELSE Stored([x \in Addresses |-> Old], 0, Cells(0, s.M, 0, s.N), s.ldc,
                LAMBDA c : Interval(0, s.K))
=============================================================================
