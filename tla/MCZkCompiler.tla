---------------------------- MODULE MCZkCompiler ----------------------------
(* Instances of ZkCompiler for TLC: small programs over a small prime field. *)
EXTENDS ZkCompiler

V(i) == [lit |-> FALSE, n |-> i]
K(n) == [lit |-> TRUE, n |-> n]
St(o, x, y) == [op |-> o, l |-> x, r |-> y, c |-> K(0)]
If(c, x, y) == [op |-> "if", l |-> x, r |-> y, c |-> c]
ReturnIf(c, x, y) == [op |-> "returnIf", l |-> x, r |-> y, c |-> c]
Let(x, lo, hi) == [op |-> "let", l |-> x, r |-> K(0), c |-> K(0), lo |-> lo, hi |-> hi]
Return(x) == St("return", x, K(0))

\* Compilations of codes with two inputs: the optimizer as it is, or with passes off.
Compile(codes, budgets, merging, compacting) ==
    {[code |-> code, inputs |-> 2, n |-> 2, budget |-> b, cse |-> m, compact |-> k] :
        code \in codes, b \in budgets, m \in merging, k \in compacting}
Default == 16

\* Values 1 and 2 are the inputs.  A gadget on one of them and a sum, and its result
\* returned, offset, or multiplied.
Gadgets == {"mul", "eq", "lt", "div", "mod", "bitand"}
OneGadget ==
    {<<St("add", V(1), K(k)), St(g, V(3), V(2)), St(f, V(4), K(1)), Return(V(5))>> :
        g \in Gadgets, f \in {"add", "mul"}, k \in {0, 1}}
TwoGadgets ==
    {<<St(g, V(1), V(2)), St(h, V(3), V(2)), Return(V(4))>> :
        g \in Gadgets, h \in {"mul", "eq", "lt", "div"}}
\* A gadget on a product that is computed twice, in either order of the factors.
Shared ==
    {<<St("mul", V(1), V(2)), St("mul", V(2), V(1)), St(g, V(4), V(3)), Return(V(5))>> :
        g \in Gadgets}
\* The other operators.
Others ==
    {<<St(g, V(1), V(2)), St("mul", V(3), V(1)), Return(V(4))>> :
        g \in {"ne", "le", "gt", "ge", "bitor", "bitxor"}}
    \cup {<<St(g, V(1), K(k)), St("eq", V(3), V(2)), Return(V(4))>> :
            g \in {"shl", "shr"}, k \in 1 .. 2}
\* Branches, && and ||: on a comparison, or on a bare input.
Branches ==
    {<<St("eq", V(1), V(2)), If(V(3), K(1), V(1)), St("mul", V(4), V(x)), Return(V(5))>> :
        x \in {3, 4}}
    \cup {<<St("lt", V(1), V(2)), St("eq", V(2), K(1)), St(g, V(3), V(4)), Return(V(5))>> :
            g \in {"and", "or"}}
    \cup {<<St("add", V(2), K(k)), ReturnIf(V(1), V(3), V(2))>> : k \in {0, 1}}
    \cup {<<St("mul", V(1), V(2)), St("eq", V(3), V(2)), ReturnIf(V(4), V(3), V(1))>>}
Bounds ==
    {<<St("sub", V(1), K(k)), Let(V(3), lo, 3), St("mul", V(4), V(2)), Return(V(5))>> :
        k \in {0, 1}, lo \in {0, 1}}

\* Compiled with every choice of passes.
Toggled ==
    {<<St("mul", V(1), V(2)), St("mul", V(2), V(1)), St(g, V(4), V(3)), Return(V(5))>> :
        g \in {"eq", "div"}}
    \cup {<<St("add", V(2), K(1)), ReturnIf(V(1), V(3), V(2))>>}

\* A comparison has 32 bits in the code and 2 here; its recomposition is then as far
\* from the fill-in budget as it is there when the budget is 0.
AllPrograms ==
    Compile(OneGadget \cup TwoGadgets \cup Others \cup Shared \cup Branches \cup Bounds,
            {0}, {TRUE}, {TRUE})
    \cup Compile(Toggled, {0, Off}, BOOLEAN, BOOLEAN)
    \cup Compile(Bounds, {Default}, {TRUE}, {TRUE})

\* x*y is computed twice; in between its square is computed, and then it is bounded.
Chained ==
    {<<St("mul", V(1), V(2)), St("mul", V(3), V(3)), Let(V(3), 0, 1),
       St("mul", V(1), V(2)), St("add", V(6), V(4)), Return(V(7))>>}
ChainedPrograms == Compile(Chained, {Default}, {TRUE}, {TRUE})
\* A bound on a computed value.
BoundedLocal == {<<St("mul", V(1), V(2)), Let(V(3), 0, 3), Return(V(4))>>}
BoundedPrograms == Compile(BoundedLocal, {Default}, {TRUE}, {TRUE})
=============================================================================
