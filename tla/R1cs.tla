-------------------------------- MODULE R1cs --------------------------------
(***************************************************************************)
(* Rank-1 constraint systems and their witnesses: the linear combinations  *)
(* and constraints of src/zk_emitter.rs, and the witness pass of           *)
(* src/zk_witness.rs.  A linear combination maps the wires it mentions to  *)
(* their coefficients, which are not zero; wire 0 is the constant 1.  A    *)
(* circuit has wires 1 .. next-1, constraints a * b = c, the recipes that  *)
(* the front end recorded, and the wires of its inputs and of its output.  *)
(***************************************************************************)
EXTENDS Integers, Sequences, FiniteSets, FiniteSetsExt, SequencesExt, Functions

CONSTANT P      \* the modulus of the scalar field
ASSUME PrimeModulus == P \in Nat /\ P > 2 /\ \A d \in 2 .. P - 1 : P % d # 0

Field == 0 .. P - 1
Plus(x, y) == (x + y) % P
Times(x, y) == (x * y) % P
Negated(x) == (P - x) % P
Inverted(x) == CHOOSE y \in Field : Times(x, y) = 1

Pow2[n \in Nat] == IF n = 0 THEN 1 ELSE 2 * Pow2[n - 1]

\* The function that maps x to y; f, and g where f has no value.
Mapping(x, y) == [v \in {x} |-> y]
Over(f, g) == [x \in DOMAIN f \cup DOMAIN g |-> IF x \in DOMAIN f THEN f[x] ELSE g[x]]

----------------------------------------------------------------------------
(* Linear combinations *)

Zero == <<>>
Const(v) == IF v % P = 0 THEN Zero ELSE Mapping(0, v % P)
One == Const(1)
Unit(w) == Mapping(w, 1)

Wires(f) == DOMAIN f
Coef(f, w) == IF w \in Wires(f) THEN f[w] ELSE 0
IsConst(f) == Wires(f) \subseteq {0}
IsSingle(f) == Cardinality(Wires(f)) = 1 /\ ~IsConst(f)
SoleWire(f) == CHOOSE w \in Wires(f) : TRUE
IsUnit(f) == Cardinality(Wires(f)) = 1 /\ f[SoleWire(f)] = 1

\* f + k*g
AddLinear(f, g, k) ==
    LET sum(w) == Plus(Coef(f, w), Times(k, Coef(g, w)))
    IN  [w \in {v \in Wires(f) \cup Wires(g) : sum(v) # 0} |-> sum(w)]
Minus(f, g) == AddLinear(f, g, P - 1)
Scaled(f, k) == AddLinear(Zero, f, k)

\* Each wire that sub defines is replaced by its linear combination.
Substituted(f, sub) ==
    IF Wires(f) \cap DOMAIN sub = {} THEN f
    ELSE LET part(v) == IF v \in DOMAIN sub THEN sub[v] ELSE Unit(v)
             sum(w) == SumFunction([v \in Wires(f) |-> f[v] * Coef(part(v), w)]) % P
         IN  [w \in {x \in UNION {Wires(part(v)) : v \in Wires(f)} : sum(x) # 0} |-> sum(w)]

EvalLc(f, w) == SumFunction([v \in Wires(f) |-> f[v] * w[v]]) % P

Constraint(a, b, c) == [a |-> a, b |-> b, c |-> c]
Mentioned(k) == Wires(k.a) \cup Wires(k.b) \cup Wires(k.c)
Holds(k, w) == Times(EvalLc(k.a, w), EvalLc(k.b, w)) = EvalLc(k.c, w)
Rewritten(k, sub) ==
    Constraint(Substituted(k.a, sub), Substituted(k.b, sub), Substituted(k.c, sub))

Satisfied(c, w) == \A i \in DOMAIN c.cs : Holds(c.cs[i], w)

----------------------------------------------------------------------------
(* Recipes: how the witness pass computes a wire *)

Recipe(op, args) == [op |-> op, args |-> args]
BitRecipe(f, i) == [op |-> "bit", args |-> <<f>>, bit |-> i]
Unknown == Recipe("unknown", <<>>)
LoadInput == Recipe("input", <<>>)

Deps(r) == UNION {Wires(r.args[j]) : j \in DOMAIN r.args}
RecipeAsEmitted(r, sub) == r
RemappedRecipe(r, sub) == [r EXCEPT !.args = [j \in DOMAIN @ |-> Substituted(@[j], sub)]]

EvalRecipe(r, w) ==
    LET v(j) == EvalLc(r.args[j], w)
    IN  CASE r.op = "mul" -> Times(v(1), v(2))
          [] r.op = "bit" -> (v(1) \div Pow2[r.bit]) % 2
          [] r.op = "isZero" -> IF v(1) = 0 THEN 1 ELSE 0
          [] r.op = "invOrZero" -> IF v(1) = 0 THEN 0 ELSE Inverted(v(1))
          [] r.op = "intDiv" -> IF v(2) = 0 THEN 0 ELSE v(1) \div v(2)
          [] r.op = "intMod" -> IF v(2) = 0 THEN 0 ELSE v(1) % v(2)

\* build_witness_ir: what computes wire w of circuit c.  Without a recipe, the first
\* constraint whose C is that wire alone: a product of two wires, or else one whose
\* sides do not mention it.
NodeOf(c, w) ==
    LET byOutput == {i \in DOMAIN c.cs : c.cs[i].c = Unit(w)}
        products == {i \in byOutput : IsUnit(c.cs[i].a) /\ IsUnit(c.cs[i].b)}
        linear == {i \in byOutput : w \notin Wires(c.cs[i].a) \cup Wires(c.cs[i].b)}
        first == Min(IF products # {} THEN products ELSE linear)
    IN  IF w \in Range(c.inputs) THEN LoadInput
        ELSE IF w \in DOMAIN c.rec THEN c.rec[w]
        ELSE IF products \cup linear = {} THEN Unknown
        ELSE Recipe("mul", <<c.cs[first].a, c.cs[first].b>>)

\* Kahn's order; the wires of a cycle come last, in ascending order.
TopologicalOrder(nodes) ==
    LET all == DOMAIN nodes
        Ready(order) == {w \in all \ Range(order) :
                            Deps(nodes[w]) \cap all \subseteq Range(order) \cup {w}}
        Place(order, i) == IF Ready(order) = {} THEN order ELSE Append(order, Min(Ready(order)))
        sorted == FoldLeft(Place, <<>>, [i \in 1 .. Cardinality(all) |-> i])
    IN  sorted \o SetToSortSeq(all \ Range(sorted), <)

\* The inputs are loaded by position among the wires, the rest in order.
Forward(nodes, order, values) ==
    LET inputs == {w \in DOMAIN nodes : nodes[w].op = "input"}
        start == [w \in DOMAIN nodes \cup {0} |->
                     IF w = 0 THEN 1
                     ELSE IF w \in inputs THEN values[Cardinality({v \in inputs : v <= w})]
                     ELSE 0]
        Compute(w, v) == IF nodes[v].op \in {"input", "unknown"} THEN w
                         ELSE [w EXCEPT ![v] = EvalRecipe(nodes[v], w)]
    IN  FoldLeft(Compute, start, order)

\* The wires the forward pass solved: those whose recipe reads solved wires.
SolvedBy(nodes, order) ==
    LET Mark(mask, v) == IF nodes[v].op # "unknown" /\ Deps(nodes[v]) \subseteq mask
                         THEN mask \cup {v} ELSE mask
    IN  FoldLeft(Mark, {0}, order)

\* The only unsolved wire of f is set so that f has the value given.
Deduce(s, f, value) ==
    LET open == Wires(f) \ s.mask
        u == CHOOSE v \in open : TRUE
        rest == EvalLc([v \in Wires(f) \ {u} |-> f[v]], s.w)
    IN  IF Cardinality(open) # 1 THEN s
        ELSE [w |-> [s.w EXCEPT ![u] = Times(Plus(value, Negated(rest)), Inverted(f[u]))],
              mask |-> s.mask \cup {u}]
\* The three ways in which one constraint gives a wire.
SolveOne(s, k) ==
    LET Known(t, f) == Wires(f) \subseteq t.mask
        Quotient(t, den, f) ==
            IF Known(t, den) /\ Known(t, k.c) /\ EvalLc(den, t.w) # 0
            THEN Deduce(t, f, Times(EvalLc(k.c, t.w), Inverted(EvalLc(den, t.w))))
            ELSE t
        product == IF Known(s, k.a) /\ Known(s, k.b)
                   THEN Deduce(s, k.c, Times(EvalLc(k.a, s.w), EvalLc(k.b, s.w)))
                   ELSE s
    IN  Quotient(Quotient(product, k.b, k.a), k.a, k.b)
\* solve_r1cs_witness: passes over the constraints until one solves nothing more.
Solve(c, values) ==
    LET wires == 1 .. c.next - 1
        nodes == [w \in wires |-> NodeOf(c, w)]
        order == TopologicalOrder(nodes)
        forward == Forward(nodes, order, values)
        Pass(s, i) == IF wires \subseteq s.mask THEN s ELSE FoldLeft(SolveOne, s, c.cs)
        start == [w |-> forward, mask |-> SolvedBy(nodes, order)]
    IN  IF Satisfied(c, forward) THEN forward
        ELSE FoldLeft(Pass, start, [i \in wires |-> i]).w

----------------------------------------------------------------------------
(* What a circuit states: its satisfying assignments, seen from outside *)

\* The wires whose values are given, and these values.
Given(c) == {0} \cup Range(c.inputs)
Start(c, values) ==
    [w \in Given(c) |-> IF w = 0 THEN 1 ELSE values[CHOOSE i \in DOMAIN values : c.inputs[i] = w]]

\* f satisfies the constraints on known wires that the new ones complete.
Fits(c, f, new, known) ==
    \A i \in DOMAIN c.cs : LET wires == Mentioned(c.cs[i])
                           IN  wires \subseteq known /\ (wires \cap new # {} \/ new = {0})
                                   => Holds(c.cs[i], f)

\* The next wire to assign: one that some constraint ties to assigned wires, if any.
NextWire(c, known) ==
    LET open == (0 .. c.next - 1) \ known
        tied == {w \in open : \E i \in DOMAIN c.cs :
                    w \in Mentioned(c.cs[i]) /\ Mentioned(c.cs[i]) \subseteq known \cup {w}}
    IN  Min(IF tied # {} THEN tied ELSE open)
AssignNext(c, s) ==
    LET next == NextWire(c, s.known)
        known == s.known \cup {next}
        extended == {[w \in known |-> IF w = next THEN v ELSE f[w]] : v \in Field, f \in s.sols}
    IN  [known |-> known, sols |-> {f \in extended : Fits(c, f, {next}, known)}]

\* The assignments that satisfy c with the inputs given, found wire by wire.
Solutions(c, values) ==
    LET n == Cardinality((0 .. c.next - 1) \ Given(c))
        found[i \in 0 .. n] ==
            IF i = 0 THEN [known |-> Given(c),
                           sols |-> {f \in {Start(c, values)} : Fits(c, f, {0}, Given(c))}]
            ELSE AssignNext(c, found[i - 1])
    IN  found[n].sols

\* The outputs that c admits for the inputs given; NoWire when it has none yet.
NoWire == 0
OutputsOf(c, values) ==
    {IF c.out = NoWire THEN 0 ELSE f[c.out] : f \in Solutions(c, values)}
=============================================================================
