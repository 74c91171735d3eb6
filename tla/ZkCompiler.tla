----------------------------- MODULE ZkCompiler -----------------------------
(***************************************************************************)
(* The circuit back end of src/zk_emitter.rs: a straight-line program is   *)
(* lowered statement by statement to an R1CS whose gadgets compare, divide *)
(* and mask integers in a field, and optimize_circuit then reduces it:     *)
(* rounds that substitute linear definitions and merge identical products, *)
(* and a compaction of the wires.  Constraints and witness recipes must    *)
(* change together in every pass.                                          *)
(***************************************************************************)
EXTENDS R1cs

CONSTANTS
    Programs,               \* records: code, inputs, n (the width of a comparison), and
                            \* the options budget, cse and compact
    Off,                    \* the budget that turns linear substitution off
    MAX_ROUNDS, MAX_MERGES, \* linsub_max_rounds, and the limit in dedup_identical_products
    Samples                 \* the input values on which a circuit is judged

VARIABLES
    program,
    pc,             \* the statement to lower
    env,            \* the linear combinations of the values so far, the inputs first
    circuit,        \* next, cs, rec, inputs, out
    phase,          \* emit, scan, merge, compact, done
    scan,           \* substitute_linear_constraints: i, sub, uses, drop, copies
    substituted, merged,    \* whether this round changed anything
    round, merges,
    intended        \* history: for each input the program accepts, the values computed

vars == <<program, pc, env, circuit, phase, scan, substituted, merged, round, merges, intended>>

Inputs == [1 .. program.inputs -> Samples]
Boundary == Range(circuit.inputs) \cup {circuit.out}

----------------------------------------------------------------------------
(* Gadgets.  A builder takes a circuit and returns it extended. *)

AddConstraint(c, x, y, z) == [c EXCEPT !.cs = Append(@, Constraint(x, y, z))]
AddRecipe(c, w, r) == [c EXCEPT !.rec = Over(Mapping(w, r), @)]
NewWires(c, n) == [c EXCEPT !.next = @ + n]

\* emit_num2bits: the wires next .. next+n-1 are the bits of value.
Num2Bits(c, value, n) ==
    LET bits == c.next .. c.next + n - 1
        boolean == [i \in 1 .. n |-> LET b == Unit(c.next + i - 1) IN Constraint(b, b, b)]
        recomposed == [w \in bits |-> Pow2[w - c.next] % P]
    IN  [c EXCEPT !.next = @ + n,
                  !.rec = Over([w \in bits |-> BitRecipe(value, w - c.next)], @),
                  !.cs = Append(@ \o boolean, Constraint(recomposed, One, value))]

\* emit_less_than: the circuit, and x < y as a linear combination.
LessThan(c, x, y, n) ==
    LET ranged == Num2Bits(Num2Bits(c, x, n), y, n)
        diff == Minus(AddLinear(x, Const(Pow2[n]), 1), y)
        top == ranged.next + n
    IN  [c |-> Num2Bits(ranged, diff, n + 1), lc |-> Minus(One, Unit(top))]

IntDivModUnranged(c, x, y, n) ==
    LET q == c.next
        r == c.next + 1
        named == AddRecipe(AddRecipe(NewWires(c, 2), q, Recipe("intDiv", <<x, y>>)),
                           r, Recipe("intMod", <<x, y>>))
        product == AddConstraint(named, Unit(q), y, Minus(x, Unit(r)))
        less == LessThan(product, Unit(r), y, n)
    IN  [c |-> AddConstraint(less.c, less.lc, One, One), q |-> Unit(q), r |-> Unit(r)]
\* emit_int_div_mod: q and r with q*y = x - r, q of n bits and r < y.
IntDivMod(c, x, y, n) ==
    LET q == c.next
        r == c.next + 1
        named == AddRecipe(AddRecipe(NewWires(c, 2), q, Recipe("intDiv", <<x, y>>)),
                           r, Recipe("intMod", <<x, y>>))
        product == AddConstraint(Num2Bits(named, Unit(q), n), Unit(q), y, Minus(x, Unit(r)))
        less == LessThan(product, Unit(r), y, n)
    IN  [c |-> AddConstraint(less.c, less.lc, One, One), q |-> Unit(q), r |-> Unit(r)]

Not(e) == [e EXCEPT !.lc = Minus(One, @)]

\* x <= y is not y < x.
Comparison(op, c, x, y, n) ==
    LET less == IF op \in {"lt", "ge"} THEN LessThan(c, x, y, n) ELSE LessThan(c, y, x, n)
    IN  IF op \in {"lt", "gt"} THEN less ELSE Not(less)

\* The wire is 1 when x = y, and d * inverse = 1 - wire otherwise.
Equal(c, x, y) ==
    LET d == Minus(x, y)
        eq == c.next
        inv == c.next + 1
        named == AddRecipe(AddRecipe(NewWires(c, 2), eq, Recipe("isZero", <<d>>)),
                           inv, Recipe("invOrZero", <<d>>))
        zero == AddConstraint(named, d, Unit(eq), Zero)
    IN  IF IsConst(d) THEN [c |-> c, lc |-> IF d = Zero THEN One ELSE Zero]
        ELSE [c |-> AddConstraint(zero, d, Unit(inv), Minus(One, Unit(eq))), lc |-> Unit(eq)]

MulLc(c, x, y) ==
    [c |-> AddConstraint(NewWires(c, 1), x, y, Unit(c.next)), lc |-> Unit(c.next)]

\* emit_bitwise: both operands are decomposed, and the bits recomposed from their
\* products: a*b, a + b - a*b or a + b - 2*a*b.
Bitwise(op, c, x, y, n) ==
    LET a(i) == c.next + i
        b(i) == c.next + n + i
        ab(i) == c.next + 2 * n + i
        weights(first) == [w \in first .. first + n - 1 |-> Pow2[w - first] % P]
        product == weights(ab(0))
        either == Over(weights(a(0)), weights(b(0)))
        decomposed == NewWires(Num2Bits(Num2Bits(c, x, n), y, n), n)
    IN  [c |-> [decomposed EXCEPT !.cs =
                   @ \o [i \in 1 .. n |-> Constraint(Unit(a(i - 1)), Unit(b(i - 1)), Unit(ab(i - 1)))]],
         lc |-> CASE op = "bitand" -> product
                  [] op = "bitor" -> Minus(either, product)
                  [] op = "bitxor" -> AddLinear(either, product, P - 2)]

\* emit_shift by a constant: the bits that stay within the width, moved.
Shift(op, c, x, amount, n) ==
    LET source(i) == IF op = "shl" THEN i - amount ELSE i + amount
        kept == {i \in 0 .. n - 1 : source(i) \in 0 .. n - 1}
    IN  [c |-> Num2Bits(c, x, n),
         lc |-> [w \in {c.next + source(i) : i \in kept} |->
                    Pow2[CHOOSE i \in kept : c.next + source(i) = w]]]

ConstrainBoolean(c, x) == AddConstraint(c, x, x, x)
\* The operands of && and || are constrained boolean.
Logical(op, c, x, y) ==
    LET both == MulLc(ConstrainBoolean(ConstrainBoolean(c, x), y), x, y)
    IN  IF op = "and" THEN both
        ELSE [both EXCEPT !.lc = Minus(AddLinear(x, y, 1), @)]

\* condition * (x - y) = wire - y.
Select(c, condition, x, y) ==
    [c |-> AddConstraint(NewWires(c, 1), condition, Minus(x, y), Minus(Unit(c.next), y)),
     lc |-> Unit(c.next)]
\* emit_mux needs no selector for equal arms.
Mux(c, condition, x, y) ==
    IF Minus(x, y) = Zero THEN [c |-> c, lc |-> x] ELSE Select(c, condition, x, y)

\* An if that assigns x to a variable bound to y.  A constant condition prunes a branch.
Branch(c, condition, x, y) ==
    IF IsConst(condition) THEN [c |-> c, lc |-> IF condition = Zero THEN y ELSE x]
    ELSE LET bit == ConstrainBoolean(c, condition)
         IN  IF x = y THEN [c |-> bit, lc |-> x] ELSE Select(bit, condition, x, y)

\* if condition { return x; } return y;  Each return has a flag and a value, 0 where
\* there is no return, and seq_ret joins them.
PredicatedReturn(c, condition, x, y) ==
    LET flag == Mux(ConstrainBoolean(c, condition), condition, One, Zero)
        value == Mux(flag.c, condition, x, Zero)
        joined == MulLc(value.c, Minus(One, flag.lc), One)
    IN  IF IsConst(condition) THEN [c |-> c, lc |-> IF condition = Zero THEN y ELSE x]
        ELSE Mux(joined.c, flag.lc, value.lc, y)

\* A @bounds(lo, hi) of a let: value - lo and hi - value have the width of hi - lo.
WidthOf(m) == Min({k \in 0 .. P : Pow2[k] > m})
Bounded(c, x, lo, hi) ==
    LET k == WidthOf(hi - lo)
    IN  Num2Bits(Num2Bits(c, Minus(x, Const(lo)), k), Minus(Const(hi), x), k)

----------------------------------------------------------------------------
(* What a statement means, on the values of its operands; Refused if it has none *)

Refused == -1
Truth(b) == IF b THEN 1 ELSE 0
Ordered(op, x, y) ==
    CASE op = "lt" -> x < y [] op = "le" -> x <= y [] op = "gt" -> x > y [] op = "ge" -> x >= y
BitSum(op, x, y, n) ==
    LET a(i) == (x \div Pow2[i]) % 2
        b(i) == (y \div Pow2[i]) % 2
        bit(i) == CASE op = "bitand" -> a(i) * b(i)
                    [] op = "bitor" -> Truth(a(i) + b(i) > 0)
                    [] op = "bitxor" -> Truth(a(i) # b(i))
    IN  SumFunction([i \in 0 .. n - 1 |-> Pow2[i] * bit(i)])
Meaning(s, x, y, z) ==
    LET limit == Pow2[program.n]
        divides == y # 0 /\ y < limit /\ x \div y < limit
        If(ok, value) == IF ok THEN value ELSE Refused
    IN  CASE s.op = "add" -> Plus(x, y)
          [] s.op = "sub" -> Plus(x, Negated(y))
          [] s.op = "mul" -> Times(x, y)
          [] s.op = "eq" -> Truth(x = y)
          [] s.op = "ne" -> Truth(x # y)
          [] s.op \in {"lt", "le", "gt", "ge"} ->
                If(x < limit /\ y < limit, Truth(Ordered(s.op, x, y)))
          [] s.op = "div" -> IF divides THEN x \div y ELSE Refused
          [] s.op = "mod" -> IF divides THEN x % y ELSE Refused
          [] s.op \in {"bitand", "bitor", "bitxor"} ->
                If(x < limit /\ y < limit, BitSum(s.op, x, y, program.n))
          [] s.op = "shl" -> If(x < limit, (x * Pow2[y]) % limit)
          [] s.op = "shr" -> If(x < limit, x \div Pow2[y])
          [] s.op = "and" -> If({x, y} \subseteq {0, 1}, x * y)
          [] s.op = "or" -> If({x, y} \subseteq {0, 1}, Truth(x + y > 0))
          [] s.op \in {"if", "returnIf"} -> If(z \in {0, 1}, IF z = 1 THEN x ELSE y)
          [] s.op = "let" -> If(x \in s.lo .. s.hi, x)
          [] s.op = "return" -> x

\* An operand is a literal or a value computed before.
Number(o, values) == IF o.lit THEN o.n % P ELSE values[o.n]

BooleanOps == {"eq", "ne", "lt", "le", "gt", "ge", "and", "or"}
Operations == {"add", "sub", "mul", "div", "mod", "bitand", "bitor", "bitxor", "shl", "shr",
               "if", "let", "return", "returnIf"} \cup BooleanOps

\* Statement j of p: its operands are known, a shift is by a constant, the bounds of a let
\* admit a value and are far from the modulus, and a condition is a boolean: a literal, an
\* input (which is then constrained) or what a boolean operator gave.  The return is last.
IsStatement(p, j) ==
    LET s == p.code[j]
        Known(o) == IF o.lit THEN o.n \in Nat ELSE o.n \in 1 .. p.inputs + j - 1
        IsBoolean(o) == IF o.lit THEN o.n \in {0, 1}
                        ELSE o.n > p.inputs => p.code[o.n - p.inputs].op \in BooleanOps
    IN  /\ s.op \in Operations
        /\ s.op \in {"return", "returnIf"} <=> j = Len(p.code)
        /\ Known(s.l) /\ Known(s.r) /\ Known(s.c)
        /\ s.op \in {"shl", "shr"} => s.r.lit /\ s.r.n < P
        /\ s.op = "let" => /\ s.lo \in Nat /\ s.hi \in Nat /\ s.lo <= s.hi /\ s.hi < P
                           /\ 2 * Pow2[WidthOf(s.hi - s.lo)] <= P
        /\ s.op \in {"if", "returnIf"} => IsBoolean(s.c)
\* The integers of n bits and their products are far from the modulus.
IsProgram(p) ==
    /\ p.inputs \in Nat /\ p.n \in Nat \ {0} /\ Pow2[p.n] * Pow2[p.n] <= P
    /\ Len(p.code) \in Nat \ {0}
    /\ \A j \in 1 .. Len(p.code) : IsStatement(p, j)
ASSUME ProgramsAssumption == Samples \subseteq Field /\ \A p \in Programs : IsProgram(p)

Continued(s) ==
    LET result(v) == Meaning(s, Number(s.l, v), Number(s.r, v), Number(s.c, v))
    IN  [in \in {x \in DOMAIN intended : result(intended[x]) # Refused} |->
            Append(intended[in], result(intended[in]))]

----------------------------------------------------------------------------
(* emit_circuit_entry: parameters, statements, return *)

Statement == program.code[pc]
Operand(o) == IF o.lit THEN Const(o.n) ELSE env[o.n]
L == Operand(Statement.l)
R == Operand(Statement.r)
C == Operand(Statement.c)

EmptyScan == [i |-> 1, sub |-> <<>>, uses |-> <<>>, drop |-> {}, copies |-> <<>>]
Emitting(op) == phase = "emit" /\ Statement.op = op

\* The circuit becomes c, and the statement's value is x.
Emit(c, x) ==
    /\ circuit' = c
    /\ env' = Append(env, x)
    /\ intended' = Continued(Statement)
    /\ pc' = pc + 1
    /\ UNCHANGED <<program, phase, scan, substituted, merged, round, merges>>

EmitAdd == Emitting("add") /\ Emit(circuit, AddLinear(L, R, 1))
EmitSub == Emitting("sub") /\ Emit(circuit, Minus(L, R))
\* A product with a constant costs no constraint.
EmitMul ==
    /\ Emitting("mul")
    /\ IF IsConst(L) THEN Emit(circuit, Scaled(R, Coef(L, 0)))
       ELSE IF IsConst(R) THEN Emit(circuit, Scaled(L, Coef(R, 0)))
       ELSE LET m == MulLc(circuit, L, R) IN Emit(m.c, m.lc)
EmitEqual ==
    /\ phase = "emit" /\ Statement.op \in {"eq", "ne"}
    /\ LET e == Equal(circuit, L, R)
           x == IF Statement.op = "eq" THEN e ELSE Not(e)
       IN  Emit(x.c, x.lc)
EmitComparison ==
    /\ phase = "emit" /\ Statement.op \in {"lt", "le", "gt", "ge"}
    /\ LET e == Comparison(Statement.op, circuit, L, R, program.n) IN Emit(e.c, e.lc)
EmitDiv == Emitting("div") /\ LET e == IntDivMod(circuit, L, R, program.n) IN Emit(e.c, e.q)
EmitMod == Emitting("mod") /\ LET e == IntDivMod(circuit, L, R, program.n) IN Emit(e.c, e.r)
EmitBitwise ==
    /\ phase = "emit" /\ Statement.op \in {"bitand", "bitor", "bitxor"}
    /\ LET e == Bitwise(Statement.op, circuit, L, R, program.n) IN Emit(e.c, e.lc)
EmitShift ==
    /\ phase = "emit" /\ Statement.op \in {"shl", "shr"}
    /\ LET e == Shift(Statement.op, circuit, L, Statement.r.n, program.n) IN Emit(e.c, e.lc)
EmitLogical ==
    /\ phase = "emit" /\ Statement.op \in {"and", "or"}
    /\ LET e == Logical(Statement.op, circuit, L, R) IN Emit(e.c, e.lc)
EmitIf == Emitting("if") /\ LET e == Branch(circuit, C, L, R) IN Emit(e.c, e.lc)
EmitLet == Emitting("let") /\ Emit(Bounded(circuit, L, Statement.lo, Statement.hi), L)

\* The output is a wire of its own.
Output(e) ==
    /\ circuit' = [AddConstraint(NewWires(e.c, 1), e.lc, One, Unit(e.c.next))
                      EXCEPT !.out = e.c.next]
    /\ intended' = Continued(Statement)
    /\ phase' = "scan"
    /\ UNCHANGED <<program, pc, env, scan, substituted, merged, round, merges>>

EmitReturn == Emitting("return") /\ Output([c |-> circuit, lc |-> L])
EmitReturnIf == Emitting("returnIf") /\ Output(PredicatedReturn(circuit, C, L, R))

----------------------------------------------------------------------------
(* substitute_linear_constraints.  A scan over the constraints collects      *)
(* definitions; at its end they are applied to constraints and recipes.      *)

Substituting == phase = "scan" /\ program.budget # Off
Eligible(w) == w \notin {0} \cup Boundary \cup DOMAIN scan.sub

\* The wire that constraint k defines, as a set of at most one definition.
\* Shape A, k*lin = c_w * w: w is eliminated.
Assigned(lin, c) ==
    LET w == SoleWire(c)
    IN  IF w \in Wires(lin) THEN {}
        ELSE {[w |-> w, expr |-> Scaled(lin, Inverted(c[w])), copy |-> FALSE]}
\* A pure copy into a boundary wire renames the copied wire.
Copied(factor, lin, c) ==
    IF factor = 1 /\ IsUnit(c) /\ IsUnit(lin) /\ Eligible(SoleWire(lin))
    THEN {[w |-> SoleWire(lin), expr |-> c, copy |-> TRUE]} ELSE {}
\* Shape B, lin - C = 0: the first eligible wire, if that makes it a constant.
Pinned(e) ==
    LET eligible == {v \in Wires(e) : Eligible(v)}
        w == Min(eligible)
        expr == Scaled([v \in Wires(e) \ {w} |-> e[v]], Negated(Inverted(e[w])))
    IN  IF eligible = {} THEN {}
        ELSE IF ~IsConst(expr) THEN {}
        ELSE {[w |-> w, expr |-> expr, copy |-> FALSE]}

DefinitionIn(k) ==
    LET now == Rewritten(k, scan.sub)
        factor == IF IsConst(now.a) THEN Coef(now.a, 0) ELSE Coef(now.b, 0)
        side == IF IsConst(now.a) THEN now.b ELSE now.a
        lin == Scaled(side, factor)
    IN  IF factor = 0 \/ ~(IsConst(now.a) \/ IsConst(now.b)) THEN {}
        ELSE IF ~IsSingle(now.c) THEN Pinned(Minus(lin, now.c))
        ELSE IF Eligible(SoleWire(now.c)) THEN Assigned(lin, now.c)
        ELSE Copied(factor, side, now.c)

\* The terms that eliminating a wire adds: one expression at each further use.
UsesOf(w) == IF w \in DOMAIN scan.uses THEN scan.uses[w] ELSE 0
Occurrences(w) ==
    SumFunction([i \in DOMAIN circuit.cs |->
        LET k == circuit.cs[i]
        IN  Cardinality({side \in DOMAIN k : w \in Wires(k[side])})])
AtLeast0(x) == IF x < 0 THEN 0 ELSE x
FillIn(d) ==
    AtLeast0(Occurrences(d.w) + UsesOf(d.w) - 1) * AtLeast0(Cardinality(Wires(d.expr)) - 1)

Accepted(k) ==
    {d \in DefinitionIn(k) : d.w \notin Wires(d.expr) /\ FillIn(d) <= program.budget}

\* The definition of the constraint is recorded, and put in the expressions before it.
Eliminate ==
    /\ Substituting /\ scan.i <= Len(circuit.cs)
    /\ \E d \in Accepted(circuit.cs[scan.i]) :
          LET dependents == {v \in DOMAIN scan.sub : d.w \in Wires(scan.sub[v])}
              own == Mapping(d.w, d.expr)
              used == Wires(d.expr) \ {0}
          IN  scan' = [i |-> scan.i + 1,
                       sub |-> Over(own, [v \in DOMAIN scan.sub |-> Substituted(scan.sub[v], own)]),
                       uses |-> Over(Over(Mapping(d.w, 0),
                                         [v \in used |-> UsesOf(v) + 1 + Cardinality(dependents)]),
                                    scan.uses),
                       drop |-> scan.drop \cup {scan.i},
                       copies |-> IF d.copy THEN Append(scan.copies, <<d.w, SoleWire(d.expr)>>)
                                  ELSE scan.copies]
    /\ UNCHANGED <<program, pc, env, circuit, phase, substituted, merged, round, merges, intended>>

Keep ==
    /\ Substituting /\ scan.i <= Len(circuit.cs)
    /\ Accepted(circuit.cs[scan.i]) = {}
    /\ scan' = [scan EXCEPT !.i = @ + 1]
    /\ UNCHANGED <<program, pc, env, circuit, phase, substituted, merged, round, merges, intended>>

\* constraint_is_vacuous: whatever the wires, it holds.
Vacuous(k) ==
    /\ IsConst(k.c)
    /\ \/ IsConst(k.a) /\ IsConst(k.b) /\ Times(Coef(k.a, 0), Coef(k.b, 0)) = Coef(k.c, 0)
       \/ k.c = Zero /\ (k.a = Zero \/ k.b = Zero)

InheritedNever(rec) == rec
\* A boundary wire inherits the recipe of the wire renamed to it.
Inherited(rec) ==
    LET Give(r, pair) == IF pair[2] \in DOMAIN r \/ pair[1] \notin DOMAIN r THEN r
                         ELSE Over(Mapping(pair[2], r[pair[1]]), r)
        after[i \in 0 .. Len(scan.copies)] ==
            IF i = 0 THEN rec ELSE Give(after[i - 1], scan.copies[i])
    IN  after[Len(scan.copies)]

\* The elements of s at the indices in keep, in order.
Selected(s, keep) ==
    LET upto[i \in 0 .. Len(s)] ==
            IF i = 0 THEN <<>>
            ELSE IF i \in keep THEN Append(upto[i - 1], s[i]) ELSE upto[i - 1]
    IN  upto[Len(s)]

\* What the scan found is applied; an eliminated wire keeps its expression as a recipe.
Applied(c) ==
    LET rewritten == [i \in DOMAIN c.cs |-> Rewritten(c.cs[i], scan.sub)]
        kept == {i \in DOMAIN c.cs : i \notin scan.drop /\ ~Vacuous(rewritten[i])}
        recipes == Inherited(c.rec)
    IN  [c EXCEPT
            !.cs = Selected(rewritten, kept),
            !.rec = Over([w \in DOMAIN scan.sub |-> Recipe("mul", <<scan.sub[w], One>>)],
                         [w \in DOMAIN recipes |-> RemappedRecipe(recipes[w], scan.sub)])]

EndScan ==
    /\ phase = "scan"
    /\ Substituting => scan.i > Len(circuit.cs)
    /\ circuit' = IF DOMAIN scan.sub = {} THEN circuit ELSE Applied(circuit)
    /\ substituted' = (DOMAIN scan.sub # {})
    /\ scan' = EmptyScan
    /\ phase' = "merge" /\ merged' = FALSE /\ merges' = 0
    /\ UNCHANGED <<program, pc, env, round, intended>>

----------------------------------------------------------------------------
(* dedup_identical_products *)

\* Constraints that compute an intermediate wire, and the first with the same product.
Mergeable ==
    {i \in DOMAIN circuit.cs : LET c == circuit.cs[i].c
                               IN  IsUnit(c) /\ SoleWire(c) \notin {0} \cup Boundary}
SameProduct(k, m) == {<<k.a, k.b>>, <<k.b, k.a>>} \cap {<<m.a, m.b>>} # {}
FirstOf(i) == Min({j \in Mergeable : SameProduct(circuit.cs[j], circuit.cs[i])})
Duplicates == {i \in Mergeable : FirstOf(i) # i}
WireOf(i) == SoleWire(circuit.cs[i].c)

\* Every wire of a duplicate is replaced by the wire of the first.
Replacements ==
    [w \in {WireOf(i) : i \in Duplicates} |->
        WireOf(FirstOf(Max({i \in Duplicates : WireOf(i) = w})))]

\* A survivor without a recipe takes over one.
Takeovers(rec) ==
    LET from(w) == {v \in DOMAIN Replacements \cap DOMAIN rec : Replacements[v] = w}
        heirs == {w \in Range(Replacements) \ DOMAIN rec : from(w) # {}}
    IN  {f \in [heirs -> DOMAIN rec] : \A w \in heirs : f[w] \in from(w)}

Merge ==
    /\ phase = "merge" /\ program.cse /\ merges <= MAX_MERGES /\ Duplicates # {}
    /\ LET sub == [w \in DOMAIN Replacements |-> Unit(Replacements[w])]
           rewritten == [i \in DOMAIN circuit.cs |-> Rewritten(circuit.cs[i], sub)]
           rec == [w \in DOMAIN circuit.rec |-> RemappedRecipe(circuit.rec[w], sub)]
       IN  \E heir \in Takeovers(rec) :
              circuit' = [circuit EXCEPT
                  !.cs = Selected(rewritten, DOMAIN circuit.cs \ Duplicates),
                  !.rec = Over([w \in DOMAIN heir |-> rec[heir[w]]], rec)]
    /\ merged' = TRUE
    /\ merges' = merges + 1
    /\ UNCHANGED <<program, pc, env, phase, scan, substituted, round, intended>>

\* Another round while one of the two passes finds something.
EndMerge ==
    /\ phase = "merge"
    /\ ~program.cse \/ merges > MAX_MERGES \/ Duplicates = {}
    /\ round' = round + 1
    /\ phase' = IF (substituted \/ merged) /\ round' <= MAX_ROUNDS THEN "scan" ELSE "compact"
    /\ UNCHANGED <<program, pc, env, circuit, scan, substituted, merged, merges, intended>>

----------------------------------------------------------------------------
(* compact_wires *)

\* Live wires: the boundary, what constraints mention, and what their recipes read.
Live(c) ==
    LET seen == {0} \cup Boundary \cup UNION {Mentioned(c.cs[i]) : i \in DOMAIN c.cs}
        Grow(ws) == ws \cup UNION {Deps(c.rec[w]) : w \in ws \cap DOMAIN c.rec}
        grown[i \in 0 .. c.next] == IF i = 0 THEN seen ELSE Grow(grown[i - 1])
    IN  grown[c.next]

\* A wire's new number: those live below it.
Renumbered(live, w) == Cardinality({v \in live : v < w})

Compacted(c) ==
    LET live == Live(c)
        sub == [w \in live \ {0} |-> Unit(Renumbered(live, w))]
        old(n) == CHOOSE w \in live : Renumbered(live, w) = n
    IN  [next |-> Cardinality(live),
         cs |-> [i \in DOMAIN c.cs |-> Rewritten(c.cs[i], sub)],
         rec |-> [n \in {Renumbered(live, w) : w \in live \cap DOMAIN c.rec} |->
                     RemappedRecipe(c.rec[old(n)], sub)],
         inputs |-> [i \in DOMAIN c.inputs |-> Renumbered(live, c.inputs[i])],
         out |-> Renumbered(live, c.out)]

Compact ==
    /\ phase = "compact"
    /\ circuit' = IF program.compact THEN Compacted(circuit) ELSE circuit
    /\ phase' = "done"
    /\ UNCHANGED <<program, pc, env, scan, substituted, merged, round, merges, intended>>

----------------------------------------------------------------------------

Init ==
    /\ program \in Programs
    /\ pc = 1
    /\ env = [i \in 1 .. program.inputs |-> Unit(i)]
    /\ circuit = [next |-> program.inputs + 1, cs |-> <<>>, rec |-> <<>>,
                  inputs |-> [i \in 1 .. program.inputs |-> i], out |-> NoWire]
    /\ phase = "emit"
    /\ scan = EmptyScan
    /\ substituted = FALSE /\ merged = FALSE /\ round = 0 /\ merges = 0
    /\ intended = [in \in Inputs |-> in]

EmitStatement ==
    \/ EmitAdd \/ EmitSub \/ EmitMul \/ EmitEqual \/ EmitComparison \/ EmitDiv \/ EmitMod
    \/ EmitBitwise \/ EmitShift \/ EmitLogical \/ EmitIf \/ EmitLet
    \/ EmitReturn \/ EmitReturnIf

Next == EmitStatement \/ Eliminate \/ Keep \/ EndScan \/ Merge \/ EndMerge \/ Compact

Spec == Init /\ [][Next]_vars

----------------------------------------------------------------------------
(* Properties *)

\* The circuit is as a pass left it.
AtRest == phase = "scan" => scan.i = 1

\* At every point between two steps the circuit states what the program computes:
\* inputs that the program refuses have no satisfying assignment, and for the others
\* every satisfying assignment has the output of the program.  A range check that is
\* missing, a merge that frees a wire, a definition applied twice or a renumbering
\* that mixes wires all change the set of outputs.
StatementKept ==
    AtRest => \A in \in Inputs :
        OutputsOf(circuit, in) =
            IF in \notin DOMAIN intended THEN {}
            ELSE IF circuit.out = NoWire THEN {0} ELSE {intended[in][Len(intended[in])]}

\* The witness pass solves the circuit for every input that the program accepts:
\* no recipe reads a wire that a pass took away, or one that is computed from it.
WitnessFound ==
    AtRest /\ circuit.out # NoWire =>
        \A in \in DOMAIN intended : Satisfied(circuit, Solve(circuit, in))
=============================================================================
