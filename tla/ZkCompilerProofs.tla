-------------------------- MODULE ZkCompilerProofs --------------------------
(***************************************************************************)
(* Proofs about ZkCompiler, for every prime modulus and every set of       *)
(* programs: the circuit that is emitted, scanned, merged and compacted    *)
(* has exactly the outputs that the program means.                         *)
(***************************************************************************)
(* A step of the emission lowers one statement; the passes keep the        *)
(* outputs of all the assignments that satisfy the circuit.  The merge of  *)
(* identical products does so only when no constraint it drops defines the *)
(* survivor of another, and the main theorem has that as its hypothesis.   *)
(***************************************************************************)
EXTENDS ZkCompiler, R1csProofs, SequenceTheorems

-----------------------------------------------------------------------------
(***************************************************************************)
(* The scan of the linear substitution.  What it keeps true is that the    *)
(* definitions found so far say together what the constraints dropped so   *)
(* far say.                                                                *)
(***************************************************************************)

\* The wires that no pass may eliminate.
BoundaryOf(c) == Range(c.inputs) \cup {c.out}
\* What the scan found so far: its definitions say what the constraints it drops say.
ScanOk(c, s) ==
    /\ s.i \in 1 .. Len(c.cs) + 1
    /\ IsSub(s.sub, c.next)
    /\ \A v \in DOMAIN s.sub : v \notin BoundaryOf(c) /\ Wires(s.sub[v]) \cap DOMAIN s.sub = {}
    /\ s.drop \subseteq 1 .. s.i - 1
    /\ \A w \in Assignments :
          (\A j \in s.drop : Holds(c.cs[j], w)) <=>
          (\A v \in DOMAIN s.sub : w[v] = EvalLc(s.sub[v], w))

\* The definition found in a constraint says what the constraint says.
LEMMA DefinitionFacts ==
    ASSUME NEW m \in Nat, WellFormed(circuit, m), ScanOk(circuit, scan),
           NEW k \in Constraints(circuit.next), NEW d \in DefinitionIn(k)
    PROVE  /\ Eligible(d.w) /\ d.w \in 0 .. circuit.next - 1
           /\ d.expr \in LCs(circuit.next)
           /\ Wires(d.expr) \cap DOMAIN scan.sub = {}
           /\ \A w \in Assignments :
                 Holds(Rewritten(k, scan.sub), w) <=> w[d.w] = EvalLc(d.expr, w)
<1> DEFINE n == circuit.next
           now == Rewritten(k, scan.sub)
           factor == IF IsConst(now.a) THEN Coef(now.a, 0) ELSE Coef(now.b, 0)
           side == IF IsConst(now.a) THEN now.b ELSE now.a
           lin == Scaled(side, factor)
           c == now.c
           S == DOMAIN scan.sub
<1>1. n \in Nat \ {0} /\ IsSub(scan.sub, n) /\ \A v \in S : Wires(scan.sub[v]) \cap S = {}
  BY DEF WellFormed, ScanOk
<1>2. now \in Constraints(n) /\ Mentioned(now) \cap S = {}
  <2>1. now \in Constraints(n) /\ \A x \in Mentioned(now) :
                 \/ x \in Mentioned(k) \ DOMAIN scan.sub
                 \/ \E v \in Mentioned(k) \cap DOMAIN scan.sub : x \in Wires(scan.sub[v])
    BY <1>1, RewrittenFacts
  <2> HIDE DEF now
  <2> QED BY <1>1, <2>1
<1>3. factor # 0 /\ (IsConst(now.a) \/ IsConst(now.b))
      /\ d \in (IF ~IsSingle(now.c) THEN Pinned(Minus(lin, now.c))
                ELSE IF Eligible(SoleWire(now.c)) THEN Assigned(lin, now.c)
                ELSE Copied(factor, side, now.c))
  BY DEF DefinitionIn
<1> HIDE DEF now
<1>4. now.a \in LCs(n) /\ now.b \in LCs(n) /\ c \in LCs(n)  BY <1>1, <1>2, ConstraintFacts
<1>5. side \in LCs(n) /\ factor \in Field  BY <1>1, <1>4, LcFacts
<1>6. Wires(side) \cap S = {} /\ Wires(c) \cap S = {}  BY <1>2 DEF Mentioned
<1>7. lin \in LCs(n) /\ Wires(lin) \subseteq Wires(side)
      /\ \A w \in Assignments : EvalLc(lin, w) = Times(factor, EvalLc(side, w))
  <2> HIDE DEF side, factor
  <2> QED BY <1>1, <1>5, ScaledFacts
<1>8. ASSUME NEW w \in Assignments PROVE Holds(now, w) <=> EvalLc(lin, w) = EvalLc(c, w)
  <2>1. CASE IsConst(now.a)
    <3>1. EvalLc(now.a, w) = factor /\ side = now.b  BY <1>1, <1>4, <2>1, IsConstFacts
    <3> HIDE DEF side, factor, lin
    <3> QED BY <1>7, <3>1 DEF Holds
  <2>2. CASE ~IsConst(now.a)
    <3>1. IsConst(now.b)  BY <1>3, <2>2
    <3>2. EvalLc(now.b, w) = Coef(now.b, 0) /\ side = now.a /\ factor = Coef(now.b, 0)
      BY <1>1, <1>4, <2>2, <3>1, IsConstFacts
    <3>3. EvalLc(now.a, w) \in Field /\ EvalLc(now.b, w) \in Field  BY <1>1, <1>4, EvalType
    <3>4. Times(EvalLc(now.a, w), EvalLc(now.b, w)) = Times(EvalLc(now.b, w), EvalLc(now.a, w))
      BY <3>3, FieldRing
    <3> HIDE DEF side, factor, lin
    <3> QED BY <1>7, <3>2, <3>4 DEF Holds
  <2> QED BY <2>1, <2>2
<1> HIDE DEF factor, side, lin
<1>9. CASE ~IsSingle(c)
  <2> DEFINE e == Minus(lin, c)
             eligible == {v \in Wires(e) : Eligible(v)}
             u == Min(eligible)
             rest == [v \in Wires(e) \ {u} |-> e[v]]
             q == Negated(Inverted(e[u]))
             expr == Scaled(rest, q)
  <2>1. d \in Pinned(e)  BY <1>3, <1>9
  <2>2. e \in LCs(n) /\ Wires(e) \cap S = {}
        /\ \A w \in Assignments : EvalLc(e, w) = Plus(EvalLc(lin, w), Negated(EvalLc(c, w)))
    <3>1. e \in LCs(n) /\ Wires(e) \subseteq Wires(lin) \cup Wires(c)
          /\ \A w \in Assignments : EvalLc(e, w) = Plus(EvalLc(lin, w), Negated(EvalLc(c, w)))
      BY <1>1, <1>4, <1>7, MinusFacts
    <3> QED BY <3>1, <1>6, <1>7
  <2>3. eligible # {} /\ d = [w |-> u, expr |-> expr, copy |-> FALSE]
    <3> HIDE DEF e
    <3> QED BY <2>1 DEF Pinned
  <2> HIDE DEF e
  <2>4. u \in Wires(e) /\ Eligible(u)
    <3>1. eligible \subseteq Nat  BY <1>1, <2>2, LcFacts
    <3> HIDE DEF eligible
    <3>2. u \in eligible  BY <2>3, <3>1, LeastOf
    <3> USE DEF eligible
    <3> HIDE DEF u
    <3> QED BY <3>2
  <2> HIDE DEF u
  <2>5. rest \in LCs(n) /\ Wires(rest) = Wires(e) \ {u}
        /\ \A w \in Assignments : EvalLc(e, w) = Plus(Times(e[u], w[u]), EvalLc(rest, w))
    BY <1>1, <2>2, <2>4, SplitFacts
  <2>6. e[u] \in Field /\ e[u] # 0 /\ u \in Nat /\ u \in 0 .. n - 1  BY <1>1, <2>2, <2>4, LcFacts
  <2>7. q \in Field  BY <2>6, InvertedDef, FieldOps
  <2> HIDE DEF rest, q
  <2>8. expr \in LCs(n) /\ Wires(expr) \subseteq Wires(rest)
        /\ \A w \in Assignments : EvalLc(expr, w) = Times(q, EvalLc(rest, w))
    BY <1>1, <2>5, <2>7, ScaledFacts
  <2> HIDE DEF expr
  <2>9. ASSUME NEW w \in Assignments PROVE Holds(now, w) <=> w[u] = EvalLc(expr, w)
    <3>1. EvalLc(lin, w) \in Field /\ EvalLc(c, w) \in Field /\ EvalLc(rest, w) \in Field
          /\ w[u] \in Field /\ EvalLc(e, w) \in Field
      BY <1>1, <1>4, <1>7, <2>2, <2>5, <2>6, EvalType, AssignmentFacts
    <3>2. EvalLc(lin, w) = EvalLc(c, w) <=> EvalLc(e, w) = 0
      <4> DEFINE x == EvalLc(lin, w)  y == EvalLc(c, w)
      <4>1. x \in Field /\ y \in Field /\ EvalLc(e, w) = Plus(x, Negated(y))  BY <2>2, <3>1
      <4> HIDE DEF x, y
      <4>2. Plus(x, Negated(y)) = 0 <=> x = y
        <5>1. Negated(y) \in Field  BY <4>1, FieldOps
        <5>2. Plus(Plus(x, Negated(y)), y) = Plus(x, Plus(Negated(y), y))
              /\ Plus(Negated(y), y) = Plus(y, Negated(y)) /\ Plus(y, Negated(y)) = 0
          BY <4>1, <5>1, FieldRing
        <5>3. Plus(x, 0) = x /\ Plus(0, y) = y  BY <4>1, FieldRing, FieldOps
        <5> QED BY <5>2, <5>3
      <4> QED BY <4>1, <4>2 DEF x, y
    <3>3. EvalLc(e, w) = 0 <=> w[u] = Times(q, EvalLc(rest, w))
      BY <2>5, <2>6, <3>1, SolveFor DEF q
    <3> QED BY <1>8, <2>8, <3>2, <3>3
  <2>10. Wires(expr) \cap S = {}  BY <2>2, <2>5, <2>8
  <2>11. d.w = u /\ d.expr = expr  BY <2>3
  <2> QED BY <2>4, <2>6, <2>8, <2>9, <2>10, <2>11 DEF now
<1>10. CASE IsSingle(c) /\ Eligible(SoleWire(c))
  <2> DEFINE u == SoleWire(c)
             expr == Scaled(lin, Inverted(c[u]))
  <2>1. d = [w |-> u, expr |-> expr, copy |-> FALSE]  BY <1>3, <1>10 DEF Assigned
  <2>2. Wires(c) = {u} /\ c[u] \in Field /\ c[u] # 0
        /\ \A w \in Assignments : EvalLc(c, w) = Times(c[u], w[u])
    BY <1>1, <1>4, <1>10, SingleFacts DEF IsSingle
  <2>3. u \in 0 .. n - 1 /\ u \in Nat  BY <1>1, <1>4, <2>2, LcFacts
  <2>4. Inverted(c[u]) \in Field  BY <2>2, InvertedDef
  <2>5. expr \in LCs(n) /\ Wires(expr) \subseteq Wires(lin)
        /\ \A w \in Assignments : EvalLc(expr, w) = Times(Inverted(c[u]), EvalLc(lin, w))
    BY <1>1, <1>7, <2>4, ScaledFacts
  <2>6. ASSUME NEW w \in Assignments PROVE Holds(now, w) <=> w[u] = EvalLc(expr, w)
    <3>1. EvalLc(lin, w) \in Field /\ w[u] \in Field
      BY <1>1, <1>7, <2>3, EvalType, AssignmentFacts
    <3>2. EvalLc(lin, w) = Times(c[u], w[u]) <=> w[u] = Times(Inverted(c[u]), EvalLc(lin, w))
      BY <2>2, <3>1, SolveFor
    <3> HIDE DEF u, expr
    <3> QED BY <1>8, <2>2, <2>5, <3>2
  <2>7. Wires(expr) \cap S = {}  BY <1>6, <1>7, <2>5
  <2>8. d.w = u /\ d.expr = expr /\ Eligible(u)  BY <2>1, <1>10
  <2> HIDE DEF u, expr
  <2> QED BY <2>3, <2>5, <2>6, <2>7, <2>8 DEF now
<1>11. CASE IsSingle(c) /\ ~Eligible(SoleWire(c))
  <2>1. d \in Copied(factor, side, c)  BY <1>3, <1>11
  <2>2. factor = 1 /\ IsUnit(c) /\ IsUnit(side) /\ Eligible(SoleWire(side))
        /\ d = [w |-> SoleWire(side), expr |-> c, copy |-> TRUE]
    BY <2>1 DEF Copied
  <2>3. SoleWire(side) \in 0 .. n - 1 /\ \A w \in Assignments : EvalLc(side, w) = w[SoleWire(side)]
    BY <1>1, <1>5, <2>2, IsUnitFacts
  <2>4. ASSUME NEW w \in Assignments PROVE Holds(now, w) <=> w[SoleWire(side)] = EvalLc(c, w)
    <3>1. EvalLc(side, w) \in Field  BY <1>1, <1>5, EvalType
    <3>2. Times(1, EvalLc(side, w)) = EvalLc(side, w)  BY <3>1, FieldRing
    <3> QED BY <1>7, <1>8, <2>2, <2>3, <3>2
  <2>5. d.w = SoleWire(side) /\ d.expr = c  BY <2>2
  <2> QED BY <1>4, <1>6, <2>2, <2>3, <2>4, <2>5 DEF now
<1> QED BY <1>9, <1>10, <1>11

\* A definition more.
LEMMA EliminateFacts ==
    ASSUME NEW m \in Nat, WellFormed(circuit, m), ScanOk(circuit, scan),
           scan.i <= Len(circuit.cs), NEW d \in Accepted(circuit.cs[scan.i]),
           NEW s, s.i = scan.i + 1, s.drop = scan.drop \cup {scan.i},
           s.sub = Over(Mapping(d.w, d.expr),
                        [v \in DOMAIN scan.sub |-> Substituted(scan.sub[v], Mapping(d.w, d.expr))])
    PROVE  ScanOk(circuit, s)
<1> DEFINE n == circuit.next
           k == circuit.cs[scan.i]
           S == DOMAIN scan.sub
           own == Mapping(d.w, d.expr)
<1>1. /\ n \in Nat \ {0} /\ scan.i \in 1 .. Len(circuit.cs) + 1 /\ IsSub(scan.sub, n)
      /\ Len(circuit.cs) \in Nat
      /\ \A v \in S : v \notin BoundaryOf(circuit) /\ Wires(scan.sub[v]) \cap S = {}
      /\ scan.drop \subseteq 1 .. scan.i - 1
      /\ \A w \in Assignments :
            (\A j \in scan.drop : Holds(circuit.cs[j], w)) <=>
            (\A v \in S : w[v] = EvalLc(scan.sub[v], w))
  BY DEF WellFormed, ScanOk
<1>2. k \in Constraints(n) /\ scan.i \in 1 .. Len(circuit.cs)
  <2>1. circuit.cs \in Seq(Constraints(n))  BY DEF WellFormed
  <2>2. scan.i \in 1 .. Len(circuit.cs)  BY <1>1
  <2> QED BY <2>1, <2>2
<1>3. d \in DefinitionIn(k) /\ d.w \notin Wires(d.expr)  BY DEF Accepted
<1> HIDE DEF k
<1>4. /\ Eligible(d.w) /\ d.w \in 0 .. n - 1 /\ d.w \in Nat
      /\ d.expr \in LCs(n)
      /\ Wires(d.expr) \cap S = {}
      /\ \A w \in Assignments : Holds(Rewritten(k, scan.sub), w) <=> w[d.w] = EvalLc(d.expr, w)
  <2>1. d.w \in 0 .. n - 1 => d.w \in Nat  BY <1>1
  <2> QED BY <1>2, <1>3, <2>1, DefinitionFacts
<1>5. d.w \notin {0} /\ d.w \notin BoundaryOf(circuit) /\ d.w \notin S
  BY <1>4 DEF Eligible, Boundary, BoundaryOf
<1>6. DOMAIN own = {d.w} /\ own[d.w] = d.expr /\ IsSub(own, n)
  <2>1. DOMAIN own = {d.w} /\ own[d.w] = d.expr  BY DEF Mapping
  <2> HIDE DEF own
  <2> QED BY <1>4, <1>5, <2>1 DEF IsSub
<1> HIDE DEF own
<1>7. DOMAIN s.sub = S \cup {d.w} /\ s.sub[d.w] = d.expr
      /\ \A v \in S : s.sub[v] = Substituted(scan.sub[v], own)
  <2>1. s.sub = Over(own, [v \in S |-> Substituted(scan.sub[v], own)])  BY DEF own
  <2> QED BY <1>5, <1>6, <2>1 DEF Over
<1>8. ASSUME NEW v \in S
      PROVE  /\ scan.sub[v] \in LCs(n) /\ Substituted(scan.sub[v], own) \in LCs(n)
             /\ Wires(Substituted(scan.sub[v], own)) \cap (S \cup {d.w}) = {}
             /\ v \in Nat /\ v # 0
  <2>1. scan.sub[v] \in LCs(n) /\ v \in Nat /\ v # 0  BY <1>1 DEF IsSub
  <2>2. Substituted(scan.sub[v], own) \in LCs(n)
        /\ \A x \in Wires(Substituted(scan.sub[v], own)) :
              \/ x \in Wires(scan.sub[v]) \ DOMAIN own
              \/ \E y \in Wires(scan.sub[v]) \cap DOMAIN own : x \in Wires(own[y])
    BY <1>1, <1>6, <2>1, SubstitutedFacts
  <2> QED BY <1>1, <1>3, <1>4, <1>6, <2>1, <2>2
<1>9. IsSub(s.sub, n)  BY <1>4, <1>5, <1>7, <1>8 DEF IsSub
<1>10. \A v \in DOMAIN s.sub : v \notin BoundaryOf(circuit) /\ Wires(s.sub[v]) \cap DOMAIN s.sub = {}
  <2>1. ASSUME NEW v \in S PROVE v \notin BoundaryOf(circuit) /\ Wires(s.sub[v]) \cap DOMAIN s.sub = {}
    BY <1>1, <1>7, <1>8
  <2>2. d.w \notin BoundaryOf(circuit) /\ Wires(s.sub[d.w]) \cap DOMAIN s.sub = {}
    BY <1>3, <1>4, <1>5, <1>7
  <2> HIDE DEF S
  <2> QED BY <1>7, <2>1, <2>2
<1>11. ASSUME NEW w \in Assignments
       PROVE  (\A j \in s.drop : Holds(circuit.cs[j], w)) <=>
              (\A v \in DOMAIN s.sub : w[v] = EvalLc(s.sub[v], w))
  <2> DEFINE old == \A v \in S : w[v] = EvalLc(scan.sub[v], w)
             new == w[d.w] = EvalLc(d.expr, w)
  <2>1. (\A j \in s.drop : Holds(circuit.cs[j], w)) <=> old /\ Holds(k, w)
    <3>1. (\A j \in s.drop : Holds(circuit.cs[j], w)) <=>
             (\A j \in scan.drop : Holds(circuit.cs[j], w)) /\ Holds(circuit.cs[scan.i], w)
      OBVIOUS
    <3> QED BY <1>1, <3>1 DEF k
  <2>2. ASSUME old PROVE Holds(k, w) <=> new
    <3>1. Star(scan.sub, w) = w
      <4>1. \A v \in Nat : (IF v \in S THEN EvalLc(scan.sub[v], w) ELSE w[v]) = w[v]  BY <2>2
      <4>2. w = [v \in Nat |-> w[v]]  BY DEF Assignments
      <4> QED BY <4>1, <4>2 DEF Star
    <3>2. Holds(Rewritten(k, scan.sub), w) <=> Holds(k, Star(scan.sub, w))
      BY <1>1, <1>2, RewrittenFacts
    <3> QED BY <1>4, <3>1, <3>2
  <2>3. ASSUME new PROVE \A v \in S : EvalLc(s.sub[v], w) = EvalLc(scan.sub[v], w)
    <3> SUFFICES ASSUME NEW v \in S PROVE EvalLc(s.sub[v], w) = EvalLc(scan.sub[v], w)  OBVIOUS
    <3>1. Star(own, w) = w
      <4>1. \A x \in Nat : (IF x \in DOMAIN own THEN EvalLc(own[x], w) ELSE w[x]) = w[x]
        BY <1>6, <2>3
      <4>2. w = [x \in Nat |-> w[x]]  BY DEF Assignments
      <4> QED BY <4>1, <4>2 DEF Star
    <3>2. EvalLc(Substituted(scan.sub[v], own), w) = EvalLc(scan.sub[v], Star(own, w))
      BY <1>1, <1>6, <1>8, SubstitutedFacts
    <3> QED BY <1>7, <3>1, <3>2
  <2>4. (\A v \in DOMAIN s.sub : w[v] = EvalLc(s.sub[v], w)) <=>
           (\A v \in S : w[v] = EvalLc(s.sub[v], w)) /\ new
    BY <1>7
  <2>5. old /\ new <=> (\A v \in S : w[v] = EvalLc(s.sub[v], w)) /\ new  BY <2>3
  <2>6. old /\ Holds(k, w) <=> old /\ new  BY <2>2
  <2> HIDE DEF old, new
  <2> QED BY <2>1, <2>4, <2>5, <2>6
<1>12. s.i \in 1 .. Len(circuit.cs) + 1 /\ s.drop \subseteq 1 .. s.i - 1  BY <1>1
<1> QED BY <1>9, <1>10, <1>11, <1>12 DEF ScanOk

-----------------------------------------------------------------------------
(***************************************************************************)
(* Functions computed by a bounded recursion, and the selection of         *)
(* constraints.                                                            *)
(***************************************************************************)

\* f is n steps of G from b.
Steps(f, n, b, G) == f[0] = b /\ \A i \in 1 .. n : f[i] = G[i][f[i - 1]]

\* A bounded run.
LEMMA BoundedRecursion ==
    ASSUME NEW n \in Nat, NEW X, NEW b \in X, NEW G \in [1 .. n -> [X -> X]]
    PROVE  \E f \in [0 .. n -> X] : Steps(f, n, b, G)
<1> DEFINE H == [i \in Nat |-> IF i \in 1 .. n THEN G[i] ELSE [x \in X |-> x]]
<1>1. H \in [Nat -> [X -> X]]
  <2> SUFFICES ASSUME NEW i \in Nat PROVE (IF i \in 1 .. n THEN G[i] ELSE [x \in X |-> x]) \in [X -> X]
    OBVIOUS
  <2>1. CASE i \in 1 .. n  BY <2>1
  <2>2. CASE i \notin 1 .. n
    <3>1. [x \in X |-> x] \in [X -> X]  OBVIOUS
    <3> QED BY <2>2, <3>1
  <2> QED BY <2>1, <2>2
<1>2. \A i \in 1 .. n : H[i] = G[i]  OBVIOUS
<1> HIDE DEF H
<1>3. PICK g \in [Nat -> X] : Iterates(g, b, H)  BY <1>1, Recursion
<1> DEFINE f == [i \in 0 .. n |-> g[i]]
<1>4. f \in [0 .. n -> X] /\ f[0] = b  BY <1>3 DEF Iterates
<1>5. ASSUME NEW i \in 1 .. n PROVE f[i] = G[i][f[i - 1]]
  <2>1. i - 1 \in Nat /\ (i - 1) + 1 = i /\ i \in 0 .. n /\ i - 1 \in 0 .. n  OBVIOUS
  <2>2. g[i] = H[i][g[i - 1]]  BY <1>3, <2>1 DEF Iterates
  <2>3. f[i] = g[i] /\ f[i - 1] = g[i - 1]  BY <2>1
  <2> HIDE DEF f
  <2> QED BY <1>2, <2>2, <2>3
<1> HIDE DEF f
<1>6. Steps(f, n, b, G)  BY <1>4, <1>5 DEF Steps
<1> QED BY <1>4, <1>6

\* Induction up to n.
LEMMA BoundedInduction ==
    ASSUME NEW n \in Nat, NEW S, 0 \in S, \A i \in 0 .. n - 1 : i \in S => i + 1 \in S
    PROVE  0 .. n \subseteq S
<1> DEFINE A == {i \in Nat : i <= n => i \in S}
<1>1. 0 \in A /\ A \subseteq Nat  OBVIOUS
<1>2. ASSUME NEW i \in A PROVE i + 1 \in A
  <2>1. i + 1 <= n => i \in 0 .. n - 1  OBVIOUS
  <2> QED BY <2>1
<1>3. A = Nat
  <2> HIDE DEF A
  <2> QED BY <1>1, <1>2, SetInduction
<1> QED BY <1>3

\* The elements of t are those of s at the indices I.
Picks(t, s, I) == \A x : (\E j \in DOMAIN t : t[j] = x) <=> (\E i \in I : s[i] = x)

\* The elements of a sequence at some indices.
LEMMA SelectedFacts ==
    ASSUME NEW X, NEW s \in Seq(X), NEW keep
    PROVE  /\ Selected(s, keep) \in Seq(X)
           /\ Picks(Selected(s, keep), s, DOMAIN s \cap keep)
<1> DEFINE n == Len(s)
           Solves(g) == g = [i \in 0 .. n |-> IF i = 0 THEN <<>>
                                ELSE IF i \in keep THEN Append(g[i - 1], s[i]) ELSE g[i - 1]]
           upto == CHOOSE g : Solves(g)
           G == [i \in 1 .. n |-> [t \in Seq(X) |-> IF i \in keep THEN Append(t, s[i]) ELSE t]]
<1>1. Selected(s, keep) = upto[n]  BY Zenon DEF Selected
<1>2. n \in Nat /\ DOMAIN s = 1 .. n /\ \A i \in 1 .. n : s[i] \in X  OBVIOUS
<1> HIDE DEF n
<1>3. G \in [1 .. n -> [Seq(X) -> Seq(X)]]
  <2> SUFFICES ASSUME NEW i \in 1 .. n
               PROVE  [t \in Seq(X) |-> IF i \in keep THEN Append(t, s[i]) ELSE t] \in [Seq(X) -> Seq(X)]
    OBVIOUS
  <2> SUFFICES ASSUME NEW t \in Seq(X) PROVE (IF i \in keep THEN Append(t, s[i]) ELSE t) \in Seq(X)
    OBVIOUS
  <2> QED BY <1>2
<1>4. PICK f \in [0 .. n -> Seq(X)] : Steps(f, n, <<>>, G)
  <2> DEFINE Y == Seq(X)
             z == <<>>
  <2>1. z \in Y /\ G \in [1 .. n -> [Y -> Y]]  BY <1>3
  <2> HIDE DEF G, Y, z
  <2>2. \E f \in [0 .. n -> Y] : Steps(f, n, z, G)  BY <1>2, <2>1, BoundedRecursion
  <2> QED BY <2>2 DEF Y, z
<1>5. Solves(f)
  <2>1. ASSUME NEW i \in 0 .. n
        PROVE  f[i] = IF i = 0 THEN <<>> ELSE IF i \in keep THEN Append(f[i - 1], s[i]) ELSE f[i - 1]
    <3>1. CASE i = 0  BY <1>4, <3>1 DEF Steps
    <3>2. CASE i # 0
      <4>1. i \in 1 .. n /\ i - 1 \in 0 .. n  BY <1>2, <3>2
      <4> QED BY <1>4, <3>2, <4>1 DEF Steps
    <3> QED BY <3>1, <3>2
  <2> HIDE DEF G
  <2> QED BY <2>1
<1>6. Solves(upto)
  <2> HIDE DEF Solves
  <2> QED BY <1>5
<1> HIDE DEF upto
<1>7. upto[0] = <<>> /\ \A i \in 1 .. n : upto[i] = IF i \in keep THEN Append(upto[i - 1], s[i]) ELSE upto[i - 1]
  <2>1. \A i \in 0 .. n : upto[i] = IF i = 0 THEN <<>> ELSE IF i \in keep THEN Append(upto[i - 1], s[i]) ELSE upto[i - 1]
    BY <1>6
  <2> HIDE DEF Solves
  <2> QED BY <1>2, <2>1
<1> HIDE DEF Solves, G
<1> DEFINE Has(t, i) == \A x : (\E j \in DOMAIN t : t[j] = x) <=> (\E k \in (1 .. i) \cap keep : s[k] = x)
           B == {i \in 0 .. n : upto[i] \in Seq(X) /\ Has(upto[i], i)}
<1>8. 0 .. n \subseteq B
  <2>1. 0 \in B
    <3>1. <<>> \in Seq(X) /\ Has(<<>>, 0)  OBVIOUS
    <3>2. upto[0] = <<>> /\ 0 \in 0 .. n  BY <1>2, <1>7
    <3> HIDE DEF Has
    <3>3. upto[0] \in Seq(X) /\ Has(upto[0], 0)  BY Zenon, <3>1, <3>2
    <3> QED BY <3>2, <3>3
  <2>2. ASSUME NEW i \in 0 .. n - 1, i \in B PROVE i + 1 \in B
    <3>1. i + 1 \in 1 .. n /\ i + 1 \in 0 .. n /\ (i + 1) - 1 = i  BY <1>2
    <3>2. upto[i + 1] = IF i + 1 \in keep THEN Append(upto[i], s[i + 1]) ELSE upto[i]
      BY <1>7, <3>1
    <3>3. upto[i] \in Seq(X) /\ Has(upto[i], i)  BY <2>2
    <3>4. (1 .. i + 1) = (1 .. i) \cup {i + 1}  OBVIOUS
    <3>5. CASE i + 1 \notin keep
      <4>1. (1 .. i + 1) \cap keep = (1 .. i) \cap keep  BY <3>4, <3>5
      <4> QED BY <3>1, <3>2, <3>3, <3>5, <4>1
    <3>6. CASE i + 1 \in keep
      <4> DEFINE t == upto[i]
                 u == Append(t, s[i + 1])
      <4>1. u \in Seq(X)  BY <1>2, <3>1, <3>3
      <4>2. \A x : (\E j \in DOMAIN u : u[j] = x) <=> (\E j \in DOMAIN t : t[j] = x) \/ s[i + 1] = x
        <5>1. t \in Seq(X) /\ s[i + 1] \in X  BY <1>2, <3>1, <3>3
        <5> HIDE DEF t
        <5>2. DOMAIN u = DOMAIN t \cup {Len(t) + 1} /\ u[Len(t) + 1] = s[i + 1] /\ \A j \in DOMAIN t : u[j] = t[j]
          BY <5>1
        <5> HIDE DEF u
        <5> QED BY <5>2
      <4>3. (1 .. i + 1) \cap keep = ((1 .. i) \cap keep) \cup {i + 1}  BY <3>4, <3>6
      <4>4. Has(u, i + 1)
        <5> HIDE DEF u
        <5> QED BY <3>3, <4>2, <4>3
      <4>5. upto[i + 1] = u  BY <3>2, <3>6
      <4> HIDE DEF u, Has
      <4> QED BY <3>1, <4>1, <4>4, <4>5
    <3> QED BY <3>5, <3>6
  <2> HIDE DEF B
  <2> QED BY <1>2, <2>1, <2>2, BoundedInduction
<1>9. upto[n] \in Seq(X) /\ Has(upto[n], n)
  <2>1. n \in 0 .. n  BY <1>2
  <2> HIDE DEF Has
  <2> QED BY <1>8, <2>1
<1> QED BY <1>1, <1>2, <1>9 DEF Picks

-----------------------------------------------------------------------------
(***************************************************************************)
(* Circuits with their recipes.                                            *)
(***************************************************************************)

\* The recipes that the emitter writes.
RecipeOps == {"mul", "bit", "isZero", "invOrZero", "intDiv", "intMod"}

\* Recipes of wires below n.
Recipes(n) == [op : RecipeOps, args : Seq(LCs(n))] \cup [op : RecipeOps, args : Seq(LCs(n)), bit : Int]

\* The recipes of some wires.
RecipeMaps(n) == UNION {[D -> Recipes(n)] : D \in SUBSET Nat}

\* A circuit with m inputs.
Circuit(c, m) ==
    /\ c = [next |-> c.next, cs |-> c.cs, rec |-> c.rec, inputs |-> c.inputs, out |-> c.out]
    /\ WellFormed(c, m)
    /\ c.rec \in RecipeMaps(c.next)

\* What a map of recipes is.
LEMMA RecipeMapFacts ==
    ASSUME NEW n
    PROVE  /\ \A f \in RecipeMaps(n) : DOMAIN f \subseteq Nat /\ f \in [DOMAIN f -> Recipes(n)]
           /\ \A D \in SUBSET Nat : \A f \in [D -> Recipes(n)] : f \in RecipeMaps(n)
<1>1. ASSUME NEW f \in RecipeMaps(n) PROVE DOMAIN f \subseteq Nat /\ f \in [DOMAIN f -> Recipes(n)]
  <2>1. PICK D \in SUBSET Nat : f \in [D -> Recipes(n)]  BY DEF RecipeMaps
  <2> QED BY <2>1
<1>2. ASSUME NEW D \in SUBSET Nat, NEW f \in [D -> Recipes(n)] PROVE f \in RecipeMaps(n)
  BY DEF RecipeMaps
<1> QED BY <1>1, <1>2

\* One map of recipes over another.
LEMMA OverFacts ==
    ASSUME NEW n, NEW f \in RecipeMaps(n), NEW g \in RecipeMaps(n)
    PROVE  Over(f, g) \in RecipeMaps(n)
<1>1. /\ DOMAIN f \subseteq Nat /\ f \in [DOMAIN f -> Recipes(n)]
      /\ DOMAIN g \subseteq Nat /\ g \in [DOMAIN g -> Recipes(n)]
  BY RecipeMapFacts
<1>2. \A x \in DOMAIN f \cup DOMAIN g : (IF x \in DOMAIN f THEN f[x] ELSE g[x]) \in Recipes(n)
  BY <1>1
<1>3. Over(f, g) \in [DOMAIN f \cup DOMAIN g -> Recipes(n)]  BY <1>2 DEF Over
<1>4. DOMAIN f \cup DOMAIN g \in SUBSET Nat  BY <1>1
<1> QED BY <1>3, <1>4, RecipeMapFacts

\* A substitution keeps recipes.
LEMMA RemappedFacts ==
    ASSUME NEW n \in Nat, NEW r \in Recipes(n), NEW sub, IsSub(sub, n)
    PROVE  RemappedRecipe(r, sub) \in Recipes(n)
<1>1. r.args \in Seq(LCs(n))  BY DEF Recipes
<1> DEFINE a == [j \in DOMAIN r.args |-> Substituted(r.args[j], sub)]
<1>2. a \in Seq(LCs(n))
  <2>1. \A j \in 1 .. Len(r.args) : r.args[j] \in LCs(n) /\ Substituted(r.args[j], sub) \in LCs(n)
    BY <1>1, SubstitutedFacts
  <2>2. a = [j \in 1 .. Len(r.args) |-> Substituted(r.args[j], sub)] /\ Len(r.args) \in Nat
    BY <1>1
  <2>3. a \in [1 .. Len(r.args) -> LCs(n)]  BY <2>1, <2>2
  <2> HIDE DEF a
  <2> QED BY <2>2, <2>3
<1>3. RemappedRecipe(r, sub) = [r EXCEPT !.args = a]  BY DEF RemappedRecipe
<1> HIDE DEF a
<1>4. CASE r \in [op : RecipeOps, args : Seq(LCs(n))]
  <2>1. [r EXCEPT !.args = a] \in [op : RecipeOps, args : Seq(LCs(n))]  BY <1>2, <1>4
  <2> QED BY <1>3, <2>1 DEF Recipes
<1>5. CASE r \in [op : RecipeOps, args : Seq(LCs(n)), bit : Int]
  <2>1. [r EXCEPT !.args = a] \in [op : RecipeOps, args : Seq(LCs(n)), bit : Int]  BY <1>2, <1>5
  <2> QED BY <1>3, <2>1 DEF Recipes
<1> QED BY <1>4, <1>5 DEF Recipes

\* The recipes that the gadgets write.
LEMMA RecipeIntro ==
    ASSUME NEW n, NEW x \in LCs(n), NEW y \in LCs(n), NEW op \in RecipeOps, NEW i \in Int
    PROVE  /\ Recipe(op, <<x>>) \in Recipes(n) /\ Recipe(op, <<x, y>>) \in Recipes(n)
           /\ BitRecipe(x, i) \in Recipes(n)
<1> DEFINE S == Seq(LCs(n))
<1>1. <<x>> \in S /\ <<x, y>> \in S  OBVIOUS
<1>2. Recipes(n) = [op : RecipeOps, args : S] \cup [op : RecipeOps, args : S, bit : Int]
  BY DEF Recipes
<1> HIDE DEF S
<1>3. ASSUME NEW a \in S PROVE Recipe(op, a) \in Recipes(n)
  <2>1. Recipe(op, a) = [op |-> op, args |-> a]  BY DEF Recipe
  <2>2. [op |-> op, args |-> a] \in [op : RecipeOps, args : S]  OBVIOUS
  <2> QED BY <1>2, <2>1, <2>2
<1>4. ASSUME NEW a \in S PROVE [op |-> "bit", args |-> a, bit |-> i] \in Recipes(n)
  <2>1. "bit" \in RecipeOps  BY DEF RecipeOps
  <2> QED BY <1>2, <2>1
<1> QED BY <1>1, <1>3, <1>4 DEF BitRecipe

\* More wires, the same recipes and constraints.
LEMMA RecipeMono ==
    ASSUME NEW n \in Nat, NEW m \in Nat, n <= m
    PROVE  /\ Recipes(n) \subseteq Recipes(m) /\ RecipeMaps(n) \subseteq RecipeMaps(m)
           /\ Constraints(n) \subseteq Constraints(m)
<1>1. LCs(n) \subseteq LCs(m)  BY LcMono
<1>2. Seq(LCs(n)) \subseteq Seq(LCs(m))  BY <1>1
<1>3. Recipes(n) \subseteq Recipes(m)  BY <1>2 DEF Recipes
<1>4. ASSUME NEW f \in RecipeMaps(n) PROVE f \in RecipeMaps(m)
  <2>1. DOMAIN f \in SUBSET Nat /\ f \in [DOMAIN f -> Recipes(m)]  BY <1>3, RecipeMapFacts
  <2> QED BY <2>1, RecipeMapFacts
<1> QED BY <1>1, <1>3, <1>4 DEF Constraints

\* The copies that a scan made, as pairs of wires.
CopiesOk(s) == s.copies \in Seq(Nat \X Nat)

\* Recipes inherited stay recipes.
LEMMA InheritedFacts ==
    ASSUME NEW n \in Nat, NEW rec \in RecipeMaps(n), CopiesOk(scan)
    PROVE  Inherited(rec) \in RecipeMaps(n)
<1> DEFINE k == Len(scan.copies)
           X == RecipeMaps(n)
           Give(r, pair) == IF pair[2] \in DOMAIN r \/ pair[1] \notin DOMAIN r THEN r
                            ELSE Over(Mapping(pair[2], r[pair[1]]), r)
           Solves(g) == g = [i \in 0 .. k |-> IF i = 0 THEN rec ELSE Give(g[i - 1], scan.copies[i])]
           after == CHOOSE g : Solves(g)
           G == [i \in 1 .. k |-> [r \in X |-> Give(r, scan.copies[i])]]
<1>1. Inherited(rec) = after[k]  BY Zenon DEF Inherited
<1>2. k \in Nat /\ \A i \in 1 .. k : scan.copies[i] \in Nat \X Nat  BY DEF CopiesOk
<1>3. ASSUME NEW pair \in Nat \X Nat, NEW r \in X PROVE Give(r, pair) \in X
  <2>1. CASE pair[2] \in DOMAIN r \/ pair[1] \notin DOMAIN r  BY <2>1
  <2>2. CASE ~(pair[2] \in DOMAIN r \/ pair[1] \notin DOMAIN r)
    <3>1. r[pair[1]] \in Recipes(n) /\ pair[2] \in Nat  BY <2>2, RecipeMapFacts
    <3>2. Mapping(pair[2], r[pair[1]]) \in [{pair[2]} -> Recipes(n)] /\ {pair[2]} \in SUBSET Nat
      BY <3>1 DEF Mapping
    <3>3. Mapping(pair[2], r[pair[1]]) \in RecipeMaps(n)  BY <3>2, RecipeMapFacts
    <3>4. Over(Mapping(pair[2], r[pair[1]]), r) \in RecipeMaps(n)  BY <3>3, OverFacts
    <3> QED BY <2>2, <3>4
  <2> QED BY <2>1, <2>2
<1> HIDE DEF k, Give
<1>4. G \in [1 .. k -> [X -> X]] /\ rec \in X  BY <1>2, <1>3
<1> HIDE DEF X
<1>5. PICK f \in [0 .. k -> X] : Steps(f, k, rec, G)
  <2> HIDE DEF G
  <2> QED BY <1>2, <1>4, BoundedRecursion
<1>6. Solves(f)
  <2>1. ASSUME NEW i \in 0 .. k PROVE f[i] = IF i = 0 THEN rec ELSE Give(f[i - 1], scan.copies[i])
    <3>1. CASE i = 0  BY <1>5, <3>1 DEF Steps
    <3>2. CASE i # 0
      <4>1. i \in 1 .. k /\ i - 1 \in 0 .. k  BY <1>2, <3>2
      <4> QED BY <1>5, <3>2, <4>1 DEF Steps
    <3> QED BY <3>1, <3>2
  <2> HIDE DEF G
  <2> QED BY <2>1
<1>7. Solves(after)
  <2> HIDE DEF Solves
  <2> QED BY <1>6
<1> HIDE DEF after, G
<1> DEFINE B == {i \in 0 .. k : after[i] \in X}
<1>8. 0 .. k \subseteq B
  <2>1. 0 \in B  BY <1>2, <1>4, <1>7
  <2>2. ASSUME NEW i \in 0 .. k - 1, i \in B PROVE i + 1 \in B
    <3>1. i + 1 \in 1 .. k /\ i + 1 \in 0 .. k /\ (i + 1) - 1 = i /\ i + 1 # 0  BY <1>2
    <3>2. after[i + 1] = Give(after[i], scan.copies[i + 1])  BY <1>7, <3>1
    <3>3. after[i] \in X /\ scan.copies[i + 1] \in Nat \X Nat  BY <1>2, <2>2, <3>1
    <3>4. after[i + 1] \in X  BY <1>3, <3>2, <3>3
    <3> QED BY <3>1, <3>4
  <2> HIDE DEF B
  <2> QED BY <1>2, <2>1, <2>2, BoundedInduction
<1>9. after[k] \in X
  <2>1. k \in 0 .. k  BY <1>2
  <2> QED BY <1>8, <2>1
<1> QED BY <1>1, <1>9 DEF X

-----------------------------------------------------------------------------
(***************************************************************************)
(* apply_linear_substitution keeps the outputs: the dropped constraints    *)
(* hold by the definitions, and the values of the eliminated wires can be  *)
(* computed from these.                                                    *)
(***************************************************************************)

\* The outputs of all the assignments that satisfy c.
Outs(c, in) == {IF c.out = NoWire THEN 0 ELSE w[c.out] : w \in Models(c, in)}

\* Two circuits whose models map to each other, keeping the output, have the same outputs.
LEMMA OutsMaps ==
    ASSUME NEW c, NEW d, NEW in, c.out = NoWire <=> d.out = NoWire,
           \A w \in Models(c, in) : \E u \in Models(d, in) : u[d.out] = w[c.out],
           \A u \in Models(d, in) : \E w \in Models(c, in) : u[d.out] = w[c.out]
    PROVE  Outs(d, in) = Outs(c, in)
BY DEF Outs

\* What a model is.
LEMMA ModelFacts ==
    ASSUME NEW c, NEW in, NEW w
    PROVE  w \in Models(c, in) <=> w \in Assignments /\ Matches(c, in, w) /\ Satisfied(c, w)
BY DEF Models

\* A constraint that apply_linear_substitution drops as 0 = 0 always holds.
LEMMA VacuousHolds ==
    ASSUME NEW n \in Nat, NEW k \in Constraints(n), Vacuous(k), NEW w \in Assignments
    PROVE  Holds(k, w)
<1>1. k.a \in LCs(n) /\ k.b \in LCs(n) /\ k.c \in LCs(n)  BY ConstraintFacts
<1>2. EvalLc(k.c, w) = Coef(k.c, 0)  BY <1>1, IsConstFacts DEF Vacuous
<1>3. CASE IsConst(k.a) /\ IsConst(k.b) /\ Times(Coef(k.a, 0), Coef(k.b, 0)) = Coef(k.c, 0)
  <2>1. EvalLc(k.a, w) = Coef(k.a, 0) /\ EvalLc(k.b, w) = Coef(k.b, 0)
    BY <1>1, <1>3, IsConstFacts
  <2> QED BY <1>2, <1>3, <2>1 DEF Holds
<1>4. CASE k.c = Zero /\ (k.a = Zero \/ k.b = Zero)
  <2>1. EvalLc(k.c, w) = 0 /\ (EvalLc(k.a, w) = 0 \/ EvalLc(k.b, w) = 0)  BY <1>4, EvalZero
  <2>2. EvalLc(k.a, w) \in Field /\ EvalLc(k.b, w) \in Field  BY <1>1, EvalType
  <2>3. Times(EvalLc(k.a, w), EvalLc(k.b, w)) = 0  BY <2>1, <2>2, FieldRing
  <2> QED BY <2>1, <2>3 DEF Holds
<1> QED BY <1>3, <1>4 DEF Vacuous

\* apply_linear_substitution keeps the outputs on every input: what the dropped constraints
\* said is what the eliminated wires have by definition.
THEOREM AppliedFacts ==
    ASSUME NEW m \in Nat, Circuit(circuit, m), ScanOk(circuit, scan), CopiesOk(scan)
    PROVE  /\ Circuit(Applied(circuit), m)
           /\ Applied(circuit).out = circuit.out
           /\ Applied(circuit).inputs = circuit.inputs
           /\ \A in \in [1 .. m -> Field] : Outs(Applied(circuit), in) = Outs(circuit, in)
<1> DEFINE c == circuit
           d == Applied(c)
           n == c.next
           sub == scan.sub
           rewritten == [i \in DOMAIN c.cs |-> Rewritten(c.cs[i], sub)]
           kept == {i \in DOMAIN c.cs : i \notin scan.drop /\ ~Vacuous(rewritten[i])}
           recipes == Inherited(c.rec)
           rec == Over([w \in DOMAIN sub |-> Recipe("mul", <<sub[w], One>>)],
                       [w \in DOMAIN recipes |-> RemappedRecipe(recipes[w], sub)])
<1>1. /\ n \in Nat \ {0} /\ c.cs \in Seq(Constraints(n)) /\ IsSub(sub, n)
      /\ c = [next |-> n, cs |-> c.cs, rec |-> c.rec, inputs |-> c.inputs, out |-> c.out]
      /\ c.rec \in RecipeMaps(n)
  BY DEF Circuit, WellFormed, ScanOk
<1>2. d = [c EXCEPT !.cs = Selected(rewritten, kept), !.rec = rec]  BY DEF Applied
<1>3. d = [next |-> n, cs |-> Selected(rewritten, kept), rec |-> rec, inputs |-> c.inputs, out |-> c.out]
  <2> HIDE DEF rewritten, kept, rec, d
  <2> QED BY <1>1, <1>2
<1>4. rec \in RecipeMaps(n)
  <2>1. recipes \in RecipeMaps(n)  BY <1>1, InheritedFacts
  <2> DEFINE f == [w \in DOMAIN sub |-> Recipe("mul", <<sub[w], One>>)]
             g == [w \in DOMAIN recipes |-> RemappedRecipe(recipes[w], sub)]
  <2>2. f \in RecipeMaps(n)
    <3>1. \A w \in DOMAIN sub : Recipe("mul", <<sub[w], One>>) \in Recipes(n)
      <4>1. One \in LCs(n) /\ "mul" \in RecipeOps /\ 0 \in Int
        <5>0. "mul" \in RecipeOps  BY DEF RecipeOps
        <5>1. n > 0 /\ n \in Nat  BY <1>1
        <5> HIDE DEF n
        <5> QED BY <5>0, <5>1, OneFacts
      <4> QED BY <1>1, <4>1, RecipeIntro DEF IsSub
    <3>2. DOMAIN sub \in SUBSET Nat /\ f \in [DOMAIN sub -> Recipes(n)]  BY <1>1, <3>1 DEF IsSub
    <3> HIDE DEF f
    <3> QED BY <3>2, RecipeMapFacts
  <2>3. g \in RecipeMaps(n)
    <3> HIDE DEF recipes
    <3>1. DOMAIN recipes \in SUBSET Nat /\ \A w \in DOMAIN recipes : recipes[w] \in Recipes(n)
      BY <2>1, RecipeMapFacts
    <3>2. g \in [DOMAIN recipes -> Recipes(n)]  BY <1>1, <3>1, RemappedFacts
    <3> HIDE DEF g
    <3> QED BY <3>1, <3>2, RecipeMapFacts
  <2>4. rec = Over(f, g)  OBVIOUS
  <2> HIDE DEF f, g, rec
  <2> QED BY <2>2, <2>3, <2>4, OverFacts
<1>5. /\ \A i \in DOMAIN c.cs : c.cs[i] \in Constraints(n)
      /\ rewritten \in Seq(Constraints(n)) /\ DOMAIN rewritten = DOMAIN c.cs
      /\ \A i \in DOMAIN c.cs : rewritten[i] = Rewritten(c.cs[i], sub)
  <2>1. \A i \in DOMAIN c.cs : c.cs[i] \in Constraints(n)  BY <1>1
  <2>2. \A i \in 1 .. Len(c.cs) : Rewritten(c.cs[i], sub) \in Constraints(n)
    BY <1>1, <2>1, RewrittenFacts
  <2>3. rewritten = [i \in 1 .. Len(c.cs) |-> Rewritten(c.cs[i], sub)] /\ Len(c.cs) \in Nat
    BY <1>1
  <2>4. rewritten \in [1 .. Len(c.cs) -> Constraints(n)]  BY <2>2, <2>3
  <2>5. \A i \in DOMAIN c.cs : rewritten[i] = Rewritten(c.cs[i], sub)  OBVIOUS
  <2>6. DOMAIN rewritten = DOMAIN c.cs  OBVIOUS
  <2> HIDE DEF rewritten
  <2> QED BY <2>1, <2>3, <2>4, <2>5, <2>6
<1>6. /\ d.cs \in Seq(Constraints(n))
      /\ \A x : (\E j \in DOMAIN d.cs : d.cs[j] = x) <=> (\E i \in kept : rewritten[i] = x)
  <2>1. kept \subseteq DOMAIN rewritten  BY <1>5
  <2> HIDE DEF rewritten, kept
  <2>2. d.cs = Selected(rewritten, kept)  BY <1>3
  <2>3. DOMAIN rewritten \cap kept = kept  BY <2>1
  <2> HIDE DEF d
  <2> QED BY <1>5, <2>2, <2>3, SelectedFacts DEF Picks
<1> HIDE DEF d, rec, recipes
<1>7. Circuit(d, m)
  <2>1. d.next = n /\ d.out = c.out /\ d.inputs = c.inputs /\ d.rec = rec
        /\ d = [next |-> d.next, cs |-> d.cs, rec |-> d.rec, inputs |-> d.inputs, out |-> d.out]
    BY <1>3
  <2>2. WellFormed(c, m)  BY DEF Circuit
  <2>3. WellFormed(d, m)  BY <1>6, <2>1, <2>2 DEF WellFormed
  <2> HIDE DEF c
  <2> QED BY <1>4, <2>1, <2>3 DEF Circuit
<1>8. ASSUME NEW w \in Assignments PROVE Satisfied(d, w) <=>
          \A i \in DOMAIN c.cs : i \notin scan.drop => Holds(c.cs[i], Star(sub, w))
  <2>0. \A i \in DOMAIN c.cs : Holds(rewritten[i], w) <=> Holds(c.cs[i], Star(sub, w))
    BY <1>1, <1>5, RewrittenFacts
  <2>1. Satisfied(d, w) <=> \A i \in kept : Holds(rewritten[i], w)
    <3> HIDE DEF kept, rewritten
    <3> QED BY <1>6 DEF Satisfied
  <2>2. \A i \in DOMAIN c.cs : Vacuous(rewritten[i]) => Holds(rewritten[i], w)
    <3>1. \A i \in DOMAIN c.cs : rewritten[i] \in Constraints(n)  BY <1>5
    <3> HIDE DEF rewritten
    <3> QED BY <1>1, <3>1, VacuousHolds
  <2>3. (\A i \in kept : Holds(rewritten[i], w)) <=>
            \A i \in DOMAIN c.cs : i \notin scan.drop => Holds(rewritten[i], w)
    <3>1. \A i : i \in kept <=> i \in DOMAIN c.cs /\ i \notin scan.drop /\ ~Vacuous(rewritten[i])
      OBVIOUS
    <3> HIDE DEF kept, rewritten
    <3> QED BY <2>2, <3>1
  <2> HIDE DEF kept, rewritten
  <2> QED BY <2>0, <2>1, <2>3
<1> HIDE DEF kept, rewritten
<1>9. /\ \A v \in DOMAIN sub : v \notin BoundaryOf(c) /\ Wires(sub[v]) \cap DOMAIN sub = {}
      /\ \A w \in Assignments :
            (\A j \in scan.drop : Holds(c.cs[j], w)) <=> (\A v \in DOMAIN sub : w[v] = EvalLc(sub[v], w))
      /\ scan.drop \subseteq DOMAIN c.cs
  <2>1. scan.drop \subseteq 1 .. scan.i - 1 /\ scan.i \in 1 .. Len(c.cs) + 1 /\ DOMAIN c.cs = 1 .. Len(c.cs)
    BY <1>1 DEF ScanOk
  <2>2. scan.drop \subseteq DOMAIN c.cs  BY <1>1, <2>1
  <2> QED BY <2>2 DEF ScanOk
<1>10. ASSUME NEW in \in [1 .. m -> Field] PROVE Outs(d, in) = Outs(c, in)
  <2>0. d.out = c.out /\ d.inputs = c.inputs /\ DOMAIN in = 1 .. m /\ c.out \in Nat
        /\ c.inputs \in [1 .. m -> Nat]
    BY <1>3 DEF Circuit, WellFormed
  <2>1. ASSUME NEW w \in Models(c, in) PROVE w \in Models(d, in)
    <3>1. w \in Assignments /\ Matches(c, in, w) /\ Satisfied(c, w)  BY ModelFacts
    <3>2. \A v \in DOMAIN sub : w[v] = EvalLc(sub[v], w)  BY <1>9, <3>1 DEF Satisfied
    <3>3. Star(sub, w) = w
      <4>1. \A v \in Nat : (IF v \in DOMAIN sub THEN EvalLc(sub[v], w) ELSE w[v]) = w[v]  BY <3>2
      <4>2. w = [v \in Nat |-> w[v]]  BY <3>1 DEF Assignments
      <4> QED BY <4>1, <4>2 DEF Star
    <3>4. Satisfied(d, w)  BY <1>8, <3>1, <3>3 DEF Satisfied
    <3>5. Matches(d, in, w)  BY <2>0, <3>1 DEF Matches
    <3> QED BY <3>1, <3>4, <3>5, ModelFacts
  <2>2. ASSUME NEW u \in Models(d, in)
        PROVE  \E w \in Models(c, in) : u[d.out] = w[c.out]
    <3> DEFINE w == Star(sub, u)
    <3>1. u \in Assignments /\ Matches(d, in, u) /\ Satisfied(d, u)  BY ModelFacts
    <3>2. w \in Assignments  BY <1>1, <3>1, StarFacts
    <3>3. \A v \in Nat : v \notin DOMAIN sub => w[v] = u[v]  BY DEF Star
    <3>4. \A v \in DOMAIN sub : w[v] = EvalLc(sub[v], w)
      <4> SUFFICES ASSUME NEW v \in DOMAIN sub PROVE w[v] = EvalLc(sub[v], w)  OBVIOUS
      <4>1. v \in Nat /\ sub[v] \in LCs(n) /\ Wires(sub[v]) \subseteq Nat
        BY <1>1, LcFacts DEF IsSub
      <4>2. w[v] = EvalLc(sub[v], u)  BY <4>1 DEF Star
      <4>3. \A x \in Wires(sub[v]) : u[x] = w[x]  BY <1>9, <3>3, <4>1
      <4> HIDE DEF w
      <4>4. EvalLc(sub[v], u) = EvalLc(sub[v], w)  BY <4>3, EvalSame
      <4> QED BY <4>2, <4>4
    <3> HIDE DEF w
    <3>5. Satisfied(c, w)
      <4>1. \A j \in scan.drop : Holds(c.cs[j], w)  BY <1>9, <3>2, <3>4
      <4>2. \A i \in DOMAIN c.cs : i \notin scan.drop => Holds(c.cs[i], w)  BY <1>8, <3>1 DEF w
      <4> QED BY <4>1, <4>2 DEF Satisfied
    <3>6. c.out \notin DOMAIN sub /\ \A i \in 1 .. m : c.inputs[i] \notin DOMAIN sub
      BY <1>9, <2>0 DEF BoundaryOf, Range
    <3>7. Matches(c, in, w) /\ w[c.out] = u[d.out]
      <4>1. \A i \in 1 .. m : u[c.inputs[i]] = in[i] /\ c.inputs[i] \in Nat
        BY <2>0, <3>1 DEF Matches
      <4> QED BY <2>0, <3>3, <3>6, <4>1 DEF Matches
    <3> QED BY <3>2, <3>5, <3>7, ModelFacts
  <2> HIDE DEF c
  <2> QED BY <2>0, <2>1, <2>2, OutsMaps
<1> QED BY <1>3, <1>7, <1>10 DEF d

-----------------------------------------------------------------------------
(***************************************************************************)
(* dedup_identical_products keeps the outputs when no constraint it drops  *)
(* defines a wire that survives another: then every wire merged away has   *)
(* the value of its survivor.                                              *)
(***************************************************************************)

\* No wire merged away is the survivor of a merge, or is merged with two wires.
Unchained ==
    \A i \in Duplicates :
        /\ Replacements[WireOf(i)] = WireOf(FirstOf(i))
        /\ WireOf(FirstOf(i)) \notin DOMAIN Replacements

\* The products of two constraints are the same, in either order.
LEMMA SameProductDef ==
    ASSUME NEW k, NEW m
    PROVE  SameProduct(k, m) <=> (k.a = m.a /\ k.b = m.b) \/ (k.b = m.a /\ k.a = m.b)
<1>1. \A x, y, z : {x, y} \cap {z} # {} <=> x = z \/ y = z  OBVIOUS
<1>2. SameProduct(k, m) <=> <<k.a, k.b>> = <<m.a, m.b>> \/ <<k.b, k.a>> = <<m.a, m.b>>
  BY Zenon, <1>1 DEF SameProduct
<1> QED BY <1>2

\* The first constraint with a product is no duplicate of another.
LEMMA FirstFacts ==
    ASSUME NEW m \in Nat, Circuit(circuit, m), NEW i \in Duplicates
    PROVE  /\ i \in DOMAIN circuit.cs /\ FirstOf(i) \in DOMAIN circuit.cs
           /\ FirstOf(i) \in Mergeable /\ FirstOf(i) \notin Duplicates
           /\ SameProduct(circuit.cs[FirstOf(i)], circuit.cs[i])
<1> DEFINE cs == circuit.cs
           Alike(x) == {j \in Mergeable : SameProduct(cs[j], cs[x])}
           f == FirstOf(i)
<1>1. Mergeable \subseteq DOMAIN cs /\ DOMAIN cs \subseteq Nat /\ i \in Mergeable
  <2>1. cs \in Seq(Constraints(circuit.next))  BY DEF Circuit, WellFormed
  <2> QED BY <2>1 DEF Mergeable, Duplicates
<1>2. \A x : FirstOf(x) = Min(Alike(x))  BY DEF FirstOf
<1>3. \A j, k : SameProduct(j, k) <=> (j.a = k.a /\ j.b = k.b) \/ (j.b = k.a /\ j.a = k.b)
  BY SameProductDef
<1>4. i \in Alike(i)  BY <1>1, <1>3
<1> HIDE DEF cs
<1>5. f \in Alike(i)
  <2>1. Alike(i) \subseteq Nat /\ Alike(i) # {}  BY <1>1, <1>4
  <2> HIDE DEF Alike
  <2> QED BY <1>2, <2>1, LeastOf
<1>6. Alike(f) = Alike(i)
  <2>1. SameProduct(cs[f], cs[i])  BY <1>5
  <2>2. \A j : SameProduct(cs[j], cs[f]) <=> SameProduct(cs[j], cs[i])  BY <1>3, <2>1
  <2> QED BY <2>2
<1>7. FirstOf(f) = f
  <2> HIDE DEF Alike
  <2> QED BY <1>2, <1>6
<1>8. f \notin Duplicates  BY <1>7 DEF Duplicates
<1> QED BY <1>1, <1>5, <1>8 DEF cs

\* dedup_identical_products keeps the outputs on every input, if its merges form no chain.
THEOREM MergedFacts ==
    ASSUME NEW m \in Nat, Circuit(circuit, m), Unchained, NEW d,
           LET sub == [w \in DOMAIN Replacements |-> Unit(Replacements[w])]
               rewritten == [i \in DOMAIN circuit.cs |-> Rewritten(circuit.cs[i], sub)]
               rec == [w \in DOMAIN circuit.rec |-> RemappedRecipe(circuit.rec[w], sub)]
           IN  \E heir \in Takeovers(rec) :
                  d = [circuit EXCEPT
                          !.cs = Selected(rewritten, DOMAIN circuit.cs \ Duplicates),
                          !.rec = Over([w \in DOMAIN heir |-> rec[heir[w]]], rec)]
    PROVE  /\ Circuit(d, m)
           /\ d.out = circuit.out
           /\ d.inputs = circuit.inputs
           /\ \A in \in [1 .. m -> Field] : Outs(d, in) = Outs(circuit, in)
<1> DEFINE c == circuit
           n == c.next
           sub == [w \in DOMAIN Replacements |-> Unit(Replacements[w])]
           rewritten == [i \in DOMAIN c.cs |-> Rewritten(c.cs[i], sub)]
           kept == DOMAIN c.cs \ Duplicates
           rec == [w \in DOMAIN c.rec |-> RemappedRecipe(c.rec[w], sub)]
<1>1. /\ n \in Nat \ {0} /\ c.cs \in Seq(Constraints(n)) /\ WellFormed(c, m)
      /\ c = [next |-> n, cs |-> c.cs, rec |-> c.rec, inputs |-> c.inputs, out |-> c.out]
      /\ c.rec \in RecipeMaps(n)
      /\ \A i \in DOMAIN c.cs : c.cs[i] \in Constraints(n)
  <2>1. /\ n \in Nat \ {0} /\ c.cs \in Seq(Constraints(n)) /\ WellFormed(c, m)
        /\ c = [next |-> n, cs |-> c.cs, rec |-> c.rec, inputs |-> c.inputs, out |-> c.out]
        /\ c.rec \in RecipeMaps(n)
    BY DEF Circuit, WellFormed
  <2> QED BY <2>1
<1>2. PICK heir \in Takeovers(rec) :
         d = [c EXCEPT !.cs = Selected(rewritten, kept),
                       !.rec = Over([w \in DOMAIN heir |-> rec[heir[w]]], rec)]
  OBVIOUS
<1> DEFINE all == Over([w \in DOMAIN heir |-> rec[heir[w]]], rec)
<1>3. d = [next |-> n, cs |-> Selected(rewritten, kept), rec |-> all, inputs |-> c.inputs, out |-> c.out]
  <2> HIDE DEF rewritten, kept, all
  <2>1. d = [c EXCEPT !.cs = Selected(rewritten, kept), !.rec = all]  BY <1>2 DEF all
  <2> QED BY <1>1, <2>1
<1>4. ASSUME NEW i \in Mergeable
      PROVE  /\ i \in DOMAIN c.cs /\ WireOf(i) \in 0 .. n - 1 /\ WireOf(i) \in Nat /\ WireOf(i) # 0
             /\ WireOf(i) \notin BoundaryOf(c)
             /\ \A w \in Assignments :
                   Holds(c.cs[i], w) <=> Times(EvalLc(c.cs[i].a, w), EvalLc(c.cs[i].b, w)) = w[WireOf(i)]
  <2>1. i \in DOMAIN c.cs /\ IsUnit(c.cs[i].c) /\ SoleWire(c.cs[i].c) \notin {0} \cup Boundary
    BY DEF Mergeable
  <2>2. c.cs[i].c \in LCs(n)  BY <1>1, <2>1, ConstraintFacts
  <2>3. /\ SoleWire(c.cs[i].c) \in 0 .. n - 1
        /\ \A w \in Assignments : EvalLc(c.cs[i].c, w) = w[SoleWire(c.cs[i].c)]
    BY <1>1, <2>1, <2>2, IsUnitFacts
  <2>4. \A w \in Assignments :
            Holds(c.cs[i], w) <=> Times(EvalLc(c.cs[i].a, w), EvalLc(c.cs[i].b, w)) = w[WireOf(i)]
    BY <2>3 DEF Holds, WireOf
  <2>5. WireOf(i) \in 0 .. n - 1 /\ WireOf(i) # 0 /\ WireOf(i) \notin BoundaryOf(c)
    BY <2>1, <2>3 DEF WireOf, Boundary, BoundaryOf
  <2>6. WireOf(i) \in Nat  BY <1>1, <2>5
  <2> QED BY <2>1, <2>4, <2>5, <2>6
<1>5. DOMAIN Replacements = {WireOf(i) : i \in Duplicates} /\ Duplicates \subseteq Mergeable
  BY DEF Replacements, Duplicates
<1>6. \A i \in Duplicates :
         /\ Replacements[WireOf(i)] = WireOf(FirstOf(i))
         /\ WireOf(FirstOf(i)) \notin DOMAIN Replacements
         /\ FirstOf(i) \in Mergeable /\ FirstOf(i) \in kept
         /\ SameProduct(c.cs[FirstOf(i)], c.cs[i])
  BY FirstFacts DEF Unchained
<1>7. ASSUME NEW v \in DOMAIN Replacements
      PROVE  /\ v \in Nat /\ v # 0 /\ v \notin BoundaryOf(c)
             /\ Replacements[v] \in 0 .. n - 1 /\ Replacements[v] \in Nat
             /\ Replacements[v] \notin DOMAIN Replacements
             /\ sub[v] \in LCs(n) /\ \A w \in Assignments : EvalLc(sub[v], w) = w[Replacements[v]]
  <2>1. PICK i \in Duplicates : v = WireOf(i)  BY <1>5
  <2>2. Replacements[v] = WireOf(FirstOf(i)) /\ FirstOf(i) \in Mergeable /\ i \in Mergeable
        /\ Replacements[v] \notin DOMAIN Replacements
    BY <1>5, <1>6, <2>1
  <2>3. /\ v \in Nat /\ v # 0 /\ v \notin BoundaryOf(c)
        /\ Replacements[v] \in 0 .. n - 1 /\ Replacements[v] \in Nat
    BY <1>4, <2>1, <2>2
  <2>4. sub[v] = Unit(Replacements[v])  OBVIOUS
  <2> HIDE DEF sub
  <2> QED BY <1>1, <2>2, <2>3, <2>4, UnitFacts
<1>8. IsSub(sub, n) /\ DOMAIN sub = DOMAIN Replacements
  <2>1. DOMAIN sub = DOMAIN Replacements  OBVIOUS
  <2> HIDE DEF sub
  <2> QED BY <1>7, <2>1 DEF IsSub
<1> HIDE DEF sub
<1>9. all \in RecipeMaps(n)
  <2>1. DOMAIN rec \in SUBSET Nat /\ DOMAIN rec = DOMAIN c.rec /\ \A w \in DOMAIN c.rec : rec[w] \in Recipes(n)
    <3>1. DOMAIN c.rec \in SUBSET Nat /\ \A w \in DOMAIN c.rec : c.rec[w] \in Recipes(n)
      BY <1>1, RecipeMapFacts
    <3> QED BY <1>1, <1>8, <3>1, RemappedFacts
  <2>2. rec \in [DOMAIN rec -> Recipes(n)]  BY <2>1
  <2>3. DOMAIN heir \subseteq Nat /\ \A w \in DOMAIN heir : heir[w] \in DOMAIN rec
    <3>1. heir \in [DOMAIN heir -> DOMAIN rec] /\ DOMAIN heir \subseteq Range(Replacements)
      BY DEF Takeovers
    <3>2. Range(Replacements) \subseteq Nat  BY <1>7 DEF Range
    <3> QED BY <3>1, <3>2
  <2> HIDE DEF rec
  <2> DEFINE taken == [w \in DOMAIN heir |-> rec[heir[w]]]
  <2>4. taken \in [DOMAIN heir -> Recipes(n)]  BY <2>1, <2>3
  <2>5. taken \in RecipeMaps(n) /\ rec \in RecipeMaps(n)
    <3> HIDE DEF taken
    <3> QED BY <2>1, <2>2, <2>3, <2>4, RecipeMapFacts
  <2>6. all = Over(taken, rec)  OBVIOUS
  <2> HIDE DEF taken, all
  <2> QED BY <2>5, <2>6, OverFacts
<1> HIDE DEF rec, all
<1>10. /\ rewritten \in Seq(Constraints(n)) /\ DOMAIN rewritten = DOMAIN c.cs
       /\ \A i \in DOMAIN c.cs : rewritten[i] = Rewritten(c.cs[i], sub)
  <2>2. \A i \in 1 .. Len(c.cs) : Rewritten(c.cs[i], sub) \in Constraints(n)
    BY <1>1, <1>8, RewrittenFacts
  <2>3. rewritten = [i \in 1 .. Len(c.cs) |-> Rewritten(c.cs[i], sub)] /\ Len(c.cs) \in Nat
    BY <1>1
  <2>4. rewritten \in [1 .. Len(c.cs) -> Constraints(n)]  BY <2>2, <2>3
  <2>5. \A i \in DOMAIN c.cs : rewritten[i] = Rewritten(c.cs[i], sub)  OBVIOUS
  <2>6. DOMAIN rewritten = DOMAIN c.cs  OBVIOUS
  <2> HIDE DEF rewritten
  <2> QED BY <2>3, <2>4, <2>5, <2>6
<1>11. /\ d.cs \in Seq(Constraints(n))
       /\ \A x : (\E j \in DOMAIN d.cs : d.cs[j] = x) <=> (\E i \in kept : rewritten[i] = x)
  <2>1. kept \subseteq DOMAIN rewritten  BY <1>10
  <2> HIDE DEF rewritten, kept
  <2>2. d.cs = Selected(rewritten, kept)  BY <1>3
  <2>3. DOMAIN rewritten \cap kept = kept  BY <2>1
  <2> DEFINE X == Constraints(n)
  <2> HIDE DEF X
  <2>4. rewritten \in Seq(X)  BY <1>10 DEF X
  <2>5. /\ d.cs \in Seq(X)
        /\ \A x : (\E j \in DOMAIN d.cs : d.cs[j] = x) <=> (\E i \in kept : rewritten[i] = x)
    <3>1. Selected(rewritten, kept) \in Seq(X) /\ Picks(Selected(rewritten, kept), rewritten, DOMAIN rewritten \cap kept)
      BY <2>4, SelectedFacts
    <3> QED BY <2>2, <2>3, <3>1 DEF Picks
  <2> QED BY <2>5 DEF X
<1>12. Circuit(d, m)
  <2>1. d.next = n /\ d.out = c.out /\ d.inputs = c.inputs /\ d.rec = all
        /\ d = [next |-> d.next, cs |-> d.cs, rec |-> d.rec, inputs |-> d.inputs, out |-> d.out]
    BY <1>3
  <2>3. WellFormed(d, m)  BY <1>1, <1>11, <2>1 DEF WellFormed
  <2> HIDE DEF c
  <2> QED BY <1>9, <2>1, <2>3 DEF Circuit
<1>13. ASSUME NEW w \in Assignments PROVE Satisfied(d, w) <=>
          \A i \in kept : Holds(c.cs[i], Star(sub, w))
  <2>0. \A i \in DOMAIN c.cs : Holds(rewritten[i], w) <=> Holds(c.cs[i], Star(sub, w))
    BY <1>1, <1>8, <1>10, RewrittenFacts
  <2>1. Satisfied(d, w) <=> \A i \in kept : Holds(rewritten[i], w)
    <3> HIDE DEF kept, rewritten
    <3> QED BY <1>11 DEF Satisfied
  <2> HIDE DEF rewritten
  <2> QED BY <2>0, <2>1
<1> HIDE DEF rewritten
<1>14. ASSUME NEW i \in Duplicates, NEW w \in Assignments, Holds(c.cs[FirstOf(i)], w)
       PROVE  Holds(c.cs[i], w) <=> w[WireOf(i)] = w[WireOf(FirstOf(i))]
  <2> DEFINE j == FirstOf(i)
  <2>1. i \in Mergeable /\ j \in Mergeable /\ i \in DOMAIN c.cs /\ j \in DOMAIN c.cs
    BY <1>4, <1>5, <1>6
  <2>2. (c.cs[j].a = c.cs[i].a /\ c.cs[j].b = c.cs[i].b) \/ (c.cs[j].b = c.cs[i].a /\ c.cs[j].a = c.cs[i].b)
    BY <1>6, SameProductDef
  <2>3. EvalLc(c.cs[i].a, w) \in Field /\ EvalLc(c.cs[i].b, w) \in Field
    BY <1>1, <2>1, ConstraintFacts, EvalType
  <2>4. Times(EvalLc(c.cs[i].a, w), EvalLc(c.cs[i].b, w)) = Times(EvalLc(c.cs[j].a, w), EvalLc(c.cs[j].b, w))
    BY <2>2, <2>3, FieldRing
  <2>5. Holds(c.cs[j], w)  BY <1>14
  <2> QED BY <1>4, <2>1, <2>4, <2>5
<1>15. ASSUME NEW in \in [1 .. m -> Field] PROVE Outs(d, in) = Outs(c, in)
  <2>0. d.out = c.out /\ d.inputs = c.inputs /\ DOMAIN in = 1 .. m /\ c.out \in Nat
        /\ c.inputs \in [1 .. m -> Nat]
    BY <1>1, <1>3 DEF WellFormed
  <2>1. ASSUME NEW w \in Models(c, in) PROVE w \in Models(d, in)
    <3>1. w \in Assignments /\ Matches(c, in, w) /\ Satisfied(c, w)  BY ModelFacts
    <3>2. \A v \in DOMAIN sub : w[v] = EvalLc(sub[v], w)
      <4> SUFFICES ASSUME NEW v \in DOMAIN sub PROVE w[v] = EvalLc(sub[v], w)  OBVIOUS
      <4>1. PICK i \in Duplicates : v = WireOf(i)  BY <1>5, <1>8
      <4>2. Holds(c.cs[FirstOf(i)], w) /\ Holds(c.cs[i], w)
        BY <1>4, <1>5, <1>6, <3>1 DEF Satisfied
      <4>3. w[v] = w[Replacements[v]]  BY <1>6, <1>14, <3>1, <4>1, <4>2
      <4> QED BY <1>7, <1>8, <3>1, <4>3
    <3>3. Star(sub, w) = w
      <4>1. \A v \in Nat : (IF v \in DOMAIN sub THEN EvalLc(sub[v], w) ELSE w[v]) = w[v]  BY <3>2
      <4>2. w = [v \in Nat |-> w[v]]  BY <3>1 DEF Assignments
      <4> QED BY <4>1, <4>2 DEF Star
    <3>4. Satisfied(d, w)  BY <1>13, <3>1, <3>3 DEF Satisfied
    <3>5. Matches(d, in, w)  BY <2>0, <3>1 DEF Matches
    <3> QED BY <3>1, <3>4, <3>5, ModelFacts
  <2>2. ASSUME NEW u \in Models(d, in)
        PROVE  \E w \in Models(c, in) : u[d.out] = w[c.out]
    <3> DEFINE w == Star(sub, u)
    <3>1. u \in Assignments /\ Matches(d, in, u) /\ Satisfied(d, u)  BY ModelFacts
    <3>2. w \in Assignments  BY <1>1, <1>8, <3>1, StarFacts
    <3>3. \A v \in Nat : v \notin DOMAIN sub => w[v] = u[v]  BY DEF Star
    <3>4. \A v \in DOMAIN sub : w[v] = w[Replacements[v]]
      <4> SUFFICES ASSUME NEW v \in DOMAIN sub PROVE w[v] = w[Replacements[v]]  OBVIOUS
      <4>1. v \in Nat /\ EvalLc(sub[v], u) = u[Replacements[v]]
            /\ Replacements[v] \notin DOMAIN sub /\ Replacements[v] \in Nat
        BY <1>7, <1>8, <3>1
      <4>2. w[v] = EvalLc(sub[v], u)  BY <4>1 DEF Star
      <4> HIDE DEF w
      <4> QED BY <3>3, <4>1, <4>2
    <3>5. \A i \in kept : Holds(c.cs[i], w)  BY <1>13, <3>1
    <3> HIDE DEF w
    <3>6. Satisfied(c, w)
      <4> SUFFICES ASSUME NEW i \in DOMAIN c.cs PROVE Holds(c.cs[i], w)  BY DEF Satisfied
      <4>1. CASE i \notin Duplicates  BY <3>5, <4>1
      <4>2. CASE i \in Duplicates
        <5>1. Holds(c.cs[FirstOf(i)], w)  BY <1>6, <3>5, <4>2
        <5>2. w[WireOf(i)] = w[WireOf(FirstOf(i))]
          <6>1. WireOf(i) \in DOMAIN sub /\ Replacements[WireOf(i)] = WireOf(FirstOf(i))
            BY <1>5, <1>6, <1>8, <4>2
          <6> QED BY <3>4, <6>1
        <5> QED BY <1>14, <3>2, <4>2, <5>1, <5>2
      <4> QED BY <4>1, <4>2
    <3>7. c.out \notin DOMAIN sub /\ \A i \in 1 .. m : c.inputs[i] \notin DOMAIN sub
      <4>1. c.out \in BoundaryOf(c) /\ \A i \in 1 .. m : c.inputs[i] \in BoundaryOf(c)
  BY <2>0 DEF BoundaryOf, Range
      <4> QED BY <1>7, <1>8, <4>1
    <3>8. Matches(c, in, w) /\ w[c.out] = u[d.out]
      <4>1. \A i \in 1 .. m : u[c.inputs[i]] = in[i] /\ c.inputs[i] \in Nat
        BY <2>0, <3>1 DEF Matches
      <4> QED BY <2>0, <3>3, <3>7, <4>1 DEF Matches
    <3> QED BY <3>2, <3>6, <3>8, ModelFacts
  <2> HIDE DEF c
  <2> QED BY <2>0, <2>1, <2>2, OutsMaps
<1> QED BY <1>3, <1>12, <1>15

-----------------------------------------------------------------------------
(***************************************************************************)
(* Compaction keeps the outputs: the renumbering is injective on the live  *)
(* wires, and the others are free.                                         *)
(***************************************************************************)

\* Live wires are wires, and all that the constraints and the boundary mention.
LEMMA LiveFacts ==
    ASSUME NEW m \in Nat, Circuit(circuit, m)
    PROVE  /\ Live(circuit) \subseteq 0 .. circuit.next - 1
           /\ 0 \in Live(circuit) /\ BoundaryOf(circuit) \subseteq Live(circuit)
           /\ \A i \in DOMAIN circuit.cs : Mentioned(circuit.cs[i]) \subseteq Live(circuit)
<1> DEFINE c == circuit
           n == c.next
           W == 0 .. n - 1
           seen == {0} \cup Boundary \cup UNION {Mentioned(c.cs[i]) : i \in DOMAIN c.cs}
           Grow(ws) == ws \cup UNION {Deps(c.rec[w]) : w \in ws \cap DOMAIN c.rec}
           Solves(g) == g = [i \in 0 .. n |-> IF i = 0 THEN seen ELSE Grow(g[i - 1])]
           grown == CHOOSE g : Solves(g)
           X == SUBSET W
           G == [i \in 1 .. n |-> [ws \in X |-> Grow(ws)]]
<1>1. Live(c) = grown[n]  BY Zenon DEF Live
<1>2. /\ n \in Nat \ {0} /\ c.cs \in Seq(Constraints(n)) /\ c.rec \in RecipeMaps(n)
      /\ c.inputs \in [1 .. m -> 1 .. n - 1] /\ c.out \in W
  BY DEF Circuit, WellFormed
<1>3. seen \in X
  <2>1. \A i \in DOMAIN c.cs : Mentioned(c.cs[i]) \subseteq W
    <3>1. \A i \in DOMAIN c.cs : c.cs[i] \in Constraints(n)  BY <1>2
    <3> QED BY <1>2, <3>1, ConstraintFacts
  <2>2. 0 \in W  BY <1>2
  <2>3. Boundary \subseteq W  BY <1>2 DEF Boundary, Range
  <2> HIDE DEF W
  <2> QED BY <2>1, <2>2, <2>3
<1>4. ASSUME NEW ws \in X PROVE Grow(ws) \in X
  <2>1. ASSUME NEW w \in DOMAIN c.rec PROVE Deps(c.rec[w]) \subseteq W
    <3>1. c.rec[w] \in Recipes(n)  BY <1>2, RecipeMapFacts
    <3>2. c.rec[w].args \in Seq(LCs(n))  BY <3>1 DEF Recipes
    <3>3. \A j \in DOMAIN c.rec[w].args : c.rec[w].args[j] \in LCs(n)  BY <3>2
    <3>4. \A j \in DOMAIN c.rec[w].args : Wires(c.rec[w].args[j]) \subseteq W
      BY <1>2, <3>3, LcFacts
    <3> HIDE DEF W
    <3> QED BY <3>4 DEF Deps
  <2> HIDE DEF W
  <2> QED BY <2>1
<1> HIDE DEF Grow
<1>5. G \in [1 .. n -> [X -> X]]  BY <1>4
<1>6. PICK f \in [0 .. n -> X] : Steps(f, n, seen, G)
  <2>1. n \in Nat  BY <1>2
  <2> HIDE DEF G, X, seen
  <2> QED BY <1>3, <1>5, <2>1, BoundedRecursion
<1> HIDE DEF n, X, seen
<1>7. Solves(f)
  <2>1. ASSUME NEW i \in 0 .. n PROVE f[i] = IF i = 0 THEN seen ELSE Grow(f[i - 1])
    <3>1. CASE i = 0  BY <1>6, <3>1 DEF Steps
    <3>2. CASE i # 0
      <4>1. i \in 1 .. n /\ i - 1 \in 0 .. n  BY <1>2, <3>2
      <4> QED BY <1>6, <3>2, <4>1 DEF Steps
    <3> QED BY <3>1, <3>2
  <2> HIDE DEF G
  <2> QED BY <2>1
<1>8. Solves(grown)
  <2> HIDE DEF Solves
  <2> QED BY <1>7
<1> HIDE DEF grown, G
<1> DEFINE B == {i \in 0 .. n : grown[i] \in X /\ seen \subseteq grown[i]}
<1>9. 0 .. n \subseteq B
  <2>1. 0 \in B
    <3>1. grown[0] = seen /\ 0 \in 0 .. n  BY <1>2, <1>8
    <3> QED BY <1>3, <3>1
  <2>2. ASSUME NEW i \in 0 .. n - 1, i \in B PROVE i + 1 \in B
    <3>1. i + 1 \in 0 .. n /\ (i + 1) - 1 = i /\ i + 1 # 0  BY <1>2
    <3>2. grown[i + 1] = Grow(grown[i])  BY <1>8, <3>1
    <3>3. grown[i] \in X /\ seen \subseteq grown[i]  BY <2>2
    <3>4. grown[i] \subseteq Grow(grown[i])  BY DEF Grow
    <3> QED BY <1>4, <3>1, <3>2, <3>3, <3>4
  <2>3. n \in Nat  BY <1>2
  <2> HIDE DEF B
  <2> QED BY <2>1, <2>2, <2>3, BoundedInduction
<1>10. grown[n] \in X /\ seen \subseteq grown[n]
  <2>1. n \in 0 .. n  BY <1>2
  <2> HIDE DEF Solves
  <2> QED BY <1>9, <2>1
<1>11. 0 \in seen /\ Boundary \subseteq seen /\ \A i \in DOMAIN c.cs : Mentioned(c.cs[i]) \subseteq seen
  BY DEF seen
<1> QED BY <1>1, <1>10, <1>11 DEF X, n, Boundary, BoundaryOf

\* New numbers keep the order of the old ones.
LEMMA RenumberedFacts ==
    ASSUME NEW n \in Nat, NEW live, live \subseteq 0 .. n - 1, 0 \in live
    PROVE  /\ Cardinality(live) \in Nat \ {0} /\ Cardinality(live) <= n
           /\ \A w \in live : Renumbered(live, w) \in 0 .. Cardinality(live) - 1
           /\ \A v, w \in live : Renumbered(live, v) = Renumbered(live, w) => v = w
           /\ Renumbered(live, 0) = 0
<1>0. \A v \in live : v \in Nat /\ v >= 0 /\ v \in Int  OBVIOUS
<1> DEFINE Under(w) == {v \in live : v < w}
<1>1. IsFiniteSet(live) /\ Cardinality(live) \in Nat /\ Cardinality(live) <= n
  <2>1. IsFiniteSet(0 .. n - 1) /\ Cardinality(0 .. n - 1) = n  BY FS_Interval
  <2> DEFINE W == 0 .. n - 1
  <2>2. live \in SUBSET W  OBVIOUS
  <2> HIDE DEF W
  <2> QED BY <2>1, <2>2, FS_Subset, FS_CardinalityType DEF W
<1>2. \A w : Under(w) \in SUBSET live  OBVIOUS
<1>3. \A w : IsFiniteSet(Under(w)) /\ Cardinality(Under(w)) \in Nat /\ Renumbered(live, w) = Cardinality(Under(w))
  <2>1. \A w : Renumbered(live, w) = Cardinality(Under(w))  BY DEF Renumbered
  <2> HIDE DEF Under
  <2> QED BY <1>1, <1>2, <2>1, FS_Subset, FS_CardinalityType
<1>4. ASSUME NEW w \in live PROVE Cardinality(Under(w)) < Cardinality(live)
  <2>1. w \notin Under(w)  OBVIOUS
  <2>2. Under(w) # live  BY <2>1
  <2> HIDE DEF Under
  <2> QED BY <1>1, <1>2, <1>3, <2>2, FS_Subset
<1>5. ASSUME NEW v \in live, NEW w \in live, v < w PROVE Cardinality(Under(v)) < Cardinality(Under(w))
  <2>1. Under(v) \in SUBSET Under(w) /\ v \notin Under(v) /\ v \in Under(w)
    <3>1. \A x \in live : x < v => x < w  BY <1>0, <1>5
    <3>2. ~(v < v)  BY <1>0
    <3> QED BY <1>5, <3>1, <3>2
  <2>2. Under(v) # Under(w)  BY <2>1
  <2> HIDE DEF Under
  <2> QED BY <1>3, <2>1, <2>2, FS_Subset
<1>6. Under(0) = {}
  <2>1. \A x \in live : ~(x < 0)  BY <1>0
  <2> QED BY <2>1
<1>7. Renumbered(live, 0) = 0
  <2> HIDE DEF Under
  <2> QED BY <1>3, <1>6, FS_EmptySet
<1>8. \A v, w \in live : v < w \/ w < v \/ v = w  OBVIOUS
<1> HIDE DEF Under
<1>9. \A w \in live : Renumbered(live, w) \in 0 .. Cardinality(live) - 1  BY <1>1, <1>3, <1>4
<1>10. \A v, w \in live : Renumbered(live, v) = Renumbered(live, w) => v = w  BY <1>3, <1>5, <1>8
<1>11. Cardinality(live) # 0  BY <1>1, <1>3, <1>4
<1> QED BY <1>1, <1>7, <1>9, <1>10, <1>11

\* A linear combination belongs to any range that holds its wires.
LEMMA LcNarrow ==
    ASSUME NEW n \in Nat, NEW f \in LCs(n), NEW N \in Nat, Wires(f) \subseteq 0 .. N - 1
    PROVE  f \in LCs(N)
<1>1. f \in [Wires(f) -> 1 .. P - 1]  BY LcFacts
<1>2. Wires(f) \in SUBSET (0 .. N - 1)  OBVIOUS
<1> HIDE DEF Wires
<1> QED BY <1>1, <1>2 DEF LCs

\* Compaction renumbers the live wires and keeps the outputs on every input.
THEOREM CompactedFacts ==
    ASSUME NEW m \in Nat, Circuit(circuit, m)
    PROVE  /\ WellFormed(Compacted(circuit), m)
           /\ Compacted(circuit).out = NoWire <=> circuit.out = NoWire
           /\ \A in \in [1 .. m -> Field] : Outs(Compacted(circuit), in) = Outs(circuit, in)
<1> DEFINE c == circuit
           n == c.next
           live == Live(c)
           num(w) == Renumbered(live, w)
           N == Cardinality(live)
           sub == [w \in live \ {0} |-> Unit(num(w))]
           d == Compacted(c)
<1>1. /\ n \in Nat \ {0} /\ c.cs \in Seq(Constraints(n)) /\ Len(c.cs) \in Nat
      /\ c.inputs \in [1 .. m -> 1 .. n - 1] /\ c.out \in 0 .. n - 1
      /\ \A i, j \in 1 .. m : c.inputs[i] = c.inputs[j] => i = j
      /\ DOMAIN c.cs = 1 .. Len(c.cs)
      /\ \A i \in DOMAIN c.cs : c.cs[i] \in Constraints(n)
  <2>1. /\ n \in Nat \ {0} /\ c.cs \in Seq(Constraints(n))
        /\ c.inputs \in [1 .. m -> 1 .. n - 1] /\ c.out \in 0 .. n - 1
        /\ \A i, j \in 1 .. m : c.inputs[i] = c.inputs[j] => i = j
    BY DEF Circuit, WellFormed
  <2> QED BY <2>1
<1>2. /\ live \subseteq 0 .. n - 1 /\ 0 \in live /\ live \subseteq Nat
      /\ c.out \in live /\ \A i \in 1 .. m : c.inputs[i] \in live
      /\ \A i \in DOMAIN c.cs : Mentioned(c.cs[i]) \subseteq live
  <2>1. /\ live \subseteq 0 .. n - 1 /\ 0 \in live /\ BoundaryOf(c) \subseteq live
        /\ \A i \in DOMAIN c.cs : Mentioned(c.cs[i]) \subseteq live
    BY LiveFacts
  <2>2. c.out \in BoundaryOf(c) /\ \A i \in 1 .. m : c.inputs[i] \in BoundaryOf(c)
    BY <1>1 DEF BoundaryOf, Range
  <2> HIDE DEF live
  <2> QED BY <1>1, <2>1, <2>2
<1> HIDE DEF live
<1>3. /\ N \in Nat \ {0} /\ N <= n /\ num(0) = 0
      /\ \A w \in live : num(w) \in 0 .. N - 1 /\ num(w) \in 0 .. n - 1 /\ num(w) \in Nat
      /\ \A v, w \in live : num(v) = num(w) => v = w
  <2>1. /\ N \in Nat \ {0} /\ N <= n /\ num(0) = 0
        /\ \A w \in live : num(w) \in 0 .. N - 1
        /\ \A v, w \in live : num(v) = num(w) => v = w
    BY <1>1, <1>2, RenumberedFacts
  <2>2. \A w \in live : num(w) \in 0 .. n - 1 /\ num(w) \in Nat
    <3> HIDE DEF num, N
    <3> QED BY <1>1, <2>1
  <2> HIDE DEF num, N
  <2> QED BY <2>1, <2>2
<1>4. /\ d.next = N /\ d.cs = [i \in DOMAIN c.cs |-> Rewritten(c.cs[i], sub)]
      /\ d.inputs = [i \in 1 .. m |-> num(c.inputs[i])] /\ d.out = num(c.out)
  <2>1. DOMAIN c.inputs = 1 .. m  BY <1>1
  <2>2. /\ d.next = N /\ d.cs = [i \in DOMAIN c.cs |-> Rewritten(c.cs[i], sub)]
        /\ d.inputs = [i \in DOMAIN c.inputs |-> num(c.inputs[i])] /\ d.out = num(c.out)
    BY DEF Compacted, live
  <2> HIDE DEF d, num
  <2> QED BY <2>1, <2>2
<1> HIDE DEF num, N, d
<1>5. /\ IsSub(sub, n) /\ DOMAIN sub = live \ {0}
      /\ \A v \in live \ {0} : sub[v] = Unit(num(v)) /\ Wires(sub[v]) = {num(v)}
            /\ \A w \in Assignments : EvalLc(sub[v], w) = w[num(v)]
  <2>1. DOMAIN sub = live \ {0} /\ \A v \in live \ {0} : sub[v] = Unit(num(v))  OBVIOUS
  <2> HIDE DEF sub
  <2>2. \A v \in live \ {0} : sub[v] \in LCs(n) /\ Wires(sub[v]) = {num(v)}
            /\ \A w \in Assignments : EvalLc(sub[v], w) = w[num(v)]
    BY <1>1, <1>3, <2>1, UnitFacts
  <2> QED BY <1>2, <2>1, <2>2 DEF IsSub
<1> HIDE DEF sub
<1>6. ASSUME NEW i \in DOMAIN c.cs PROVE Rewritten(c.cs[i], sub) \in Constraints(N)
  <2>1. c.cs[i] \in Constraints(n) /\ Mentioned(c.cs[i]) \subseteq live  BY <1>1, <1>2
  <2> DEFINE k == Rewritten(c.cs[i], sub)
  <2>2. k \in Constraints(n) /\ Mentioned(k) \subseteq 0 .. N - 1
    <3>1. k \in Constraints(n)  BY <1>1, <1>5, <2>1, RewrittenFacts
    <3>2. \A x \in Mentioned(k) :
             \/ x \in Mentioned(c.cs[i]) \ DOMAIN sub
             \/ \E v \in Mentioned(c.cs[i]) \cap DOMAIN sub : x \in Wires(sub[v])
      BY <1>1, <1>5, <2>1, RewrittenFacts
    <3>3. 0 \in 0 .. N - 1  BY <1>3
    <3> HIDE DEF k
    <3> QED BY <1>3, <1>5, <2>1, <3>1, <3>2, <3>3
  <2> HIDE DEF k
  <2>3. k.a \in LCs(N) /\ k.b \in LCs(N) /\ k.c \in LCs(N)
    <3>1. k.a \in LCs(n) /\ k.b \in LCs(n) /\ k.c \in LCs(n)  BY <1>1, <2>2, ConstraintFacts
    <3>2. Wires(k.a) \subseteq 0 .. N - 1 /\ Wires(k.b) \subseteq 0 .. N - 1 /\ Wires(k.c) \subseteq 0 .. N - 1
      BY <2>2 DEF Mentioned
    <3> QED BY <1>1, <1>3, <3>1, <3>2, LcNarrow
  <2>4. k \in Constraints(N)  BY <2>2, <2>3 DEF Constraints
  <2> QED BY <2>4 DEF k
<1>7. WellFormed(d, m)
  <2>1. d.cs \in Seq(Constraints(N))
    <3>1. d.cs \in [1 .. Len(c.cs) -> Constraints(N)]  BY <1>1, <1>4, <1>6
    <3> DEFINE K == Constraints(N)
               k == Len(c.cs)
    <3>2. d.cs \in [1 .. k -> K] /\ k \in Nat  BY <1>1, <3>1
    <3> HIDE DEF K, k
    <3>3. d.cs \in Seq(K)  BY <3>2
    <3> QED BY <3>3 DEF K
  <2>2. \A i \in 1 .. m : c.inputs[i] \in live /\ c.inputs[i] # 0 /\ d.inputs[i] = num(c.inputs[i])
    BY <1>1, <1>2, <1>4
  <2>3. \A i \in 1 .. m : d.inputs[i] \in 0 .. N - 1 /\ d.inputs[i] # 0  BY <1>2, <1>3, <2>2
  <2>4. \A i \in 1 .. m : d.inputs[i] \in 1 .. N - 1  BY <1>3, <2>3
  <2>5. d.inputs \in [1 .. m -> 1 .. N - 1]  BY <1>4, <2>4
  <2>6. \A i, j \in 1 .. m : d.inputs[i] = d.inputs[j] => i = j  BY <1>1, <1>3, <2>2
  <2>7. d.out \in 0 .. N - 1  BY <1>2, <1>3, <1>4
  <2> QED BY <1>3, <1>4, <2>1, <2>5, <2>6, <2>7 DEF WellFormed
<1>8. ASSUME NEW w \in Assignments PROVE Satisfied(d, w) <=> Satisfied(c, Star(sub, w))
  <2>1. \A i \in DOMAIN c.cs : Holds(Rewritten(c.cs[i], sub), w) <=> Holds(c.cs[i], Star(sub, w))
    BY <1>1, <1>5, RewrittenFacts
  <2>2. DOMAIN d.cs = DOMAIN c.cs /\ \A i \in DOMAIN c.cs : d.cs[i] = Rewritten(c.cs[i], sub)
    BY <1>4
  <2> QED BY <2>1, <2>2 DEF Satisfied
<1>9. ASSUME NEW w \in Assignments, NEW v \in live PROVE Star(sub, w)[v] = w[num(v)]
  <2>1. v \in Nat  BY <1>2
  <2>2. Star(sub, w)[v] = IF v \in DOMAIN sub THEN EvalLc(sub[v], w) ELSE w[v]  BY <2>1 DEF Star
  <2> QED BY <1>3, <1>5, <2>2
<1>10. ASSUME NEW in \in [1 .. m -> Field] PROVE Outs(d, in) = Outs(c, in)
  <2>0. DOMAIN in = 1 .. m  OBVIOUS
  <2>1. ASSUME NEW u \in Models(d, in) PROVE \E w \in Models(c, in) : u[d.out] = w[c.out]
    <3> DEFINE w == Star(sub, u)
    <3>1. u \in Assignments /\ Matches(d, in, u) /\ Satisfied(d, u)  BY ModelFacts
    <3>2. w \in Assignments  BY <1>1, <1>5, <3>1, StarFacts
    <3>3. \A v \in live : w[v] = u[num(v)]  BY <1>9, <3>1
    <3> HIDE DEF w
    <3>4. Satisfied(c, w)  BY <1>8, <3>1 DEF w
    <3>5. Matches(c, in, w)  BY <1>2, <1>4, <2>0, <3>1, <3>3 DEF Matches
    <3>6. u[d.out] = w[c.out]  BY <1>2, <1>4, <3>3
    <3> QED BY <3>2, <3>4, <3>5, <3>6, ModelFacts
  <2>2. ASSUME NEW w \in Models(c, in) PROVE \E u \in Models(d, in) : u[d.out] = w[c.out]
    <3>1. w \in Assignments /\ Matches(c, in, w) /\ Satisfied(c, w)  BY ModelFacts
    <3> DEFINE old(x) == CHOOSE v \in live : num(v) = x
               u == [x \in Nat |-> IF \E v \in live : num(v) = x THEN w[old(x)] ELSE 0]
    <3>2. ASSUME NEW v \in live PROVE u[num(v)] = w[v]
      <4>1. old(num(v)) = v
        <5>1. old(num(v)) \in live /\ num(old(num(v))) = num(v)  OBVIOUS
        <5> HIDE DEF old
        <5> QED BY <1>3, <5>1
      <4> HIDE DEF old
      <4>2. num(v) \in Nat  BY <1>3
      <4> QED BY <4>1, <4>2
    <3>3. u \in Assignments
      <4>1. \A x \in Nat : (IF \E v \in live : num(v) = x THEN w[old(x)] ELSE 0) \in Field
        <5> SUFFICES ASSUME NEW x \in Nat, \E v \in live : num(v) = x PROVE w[old(x)] \in Field
          BY FieldOps
        <5>1. old(x) \in live  OBVIOUS
        <5> HIDE DEF old
        <5> QED BY <1>2, <3>1, <5>1, AssignmentFacts
      <4>2. u \in [Nat -> Field]  BY <4>1
      <4>3. u[0] = 1
        <5> HIDE DEF u
        <5> QED BY <1>2, <1>3, <3>1, <3>2, AssignmentFacts
      <4> QED BY <4>2, <4>3 DEF Assignments
    <3> HIDE DEF u
    <3>4. \A v \in live : w[v] = Star(sub, u)[v]  BY <1>9, <3>2, <3>3
    <3>5. Satisfied(c, Star(sub, u))
      <4>1. \A i \in DOMAIN c.cs : Holds(c.cs[i], w) /\ \A v \in Mentioned(c.cs[i]) : w[v] = Star(sub, u)[v]
        BY <1>2, <3>1, <3>4 DEF Satisfied
      <4>2. \A i \in DOMAIN c.cs : Holds(c.cs[i], Star(sub, u))  BY <4>1, HoldsSame
      <4> QED BY <4>2 DEF Satisfied
    <3>6. Matches(d, in, u)  BY <1>2, <1>4, <2>0, <3>1, <3>2 DEF Matches
    <3>7. u[d.out] = w[c.out]  BY <1>2, <1>4, <3>2
    <3>8. Satisfied(d, u)  BY <1>8, <3>3, <3>5
    <3> QED BY <3>3, <3>6, <3>7, <3>8, ModelFacts
  <2>3. d.out = NoWire <=> c.out = NoWire  BY <1>2, <1>3, <1>4 DEF NoWire
  <2> HIDE DEF c
  <2> QED BY <2>1, <2>2, <2>3, OutsMaps
<1>11. d.out = NoWire <=> c.out = NoWire  BY <1>2, <1>3, <1>4 DEF NoWire
<1> QED BY <1>7, <1>10, <1>11 DEF d

-----------------------------------------------------------------------------
(***************************************************************************)
(* The primitives of the emitter, and how a circuit grows.                 *)
(***************************************************************************)

\* All the constraints of s hold.
AllHold(s, w) == \A i \in DOMAIN s : Holds(s[i], w)

\* u and w agree on the wires below n.
Agree(u, w, n) == \A v \in 0 .. n - 1 : u[v] = w[v]

\* w has an extension to the new wires of d that satisfies d.
Extendable(c, d, w) == \E u \in Assignments : Agree(u, w, c.next) /\ Satisfied(d, u)

\* d is c with more wires, recipes and constraints.
Grown(c, d, m) ==
    Circuit(d, m) /\ c.next <= d.next /\ d.inputs = c.inputs /\ d.out = c.out

\* Satisfied, in terms of AllHold.
LEMMA SatisfiedDef == ASSUME NEW c, NEW w PROVE Satisfied(c, w) <=> AllHold(c.cs, w)
BY DEF Satisfied, AllHold

\* Constraints hold together when they hold apart.
LEMMA AllHoldFacts ==
    ASSUME NEW X, NEW s \in Seq(X), NEW t \in Seq(X), NEW k \in X, NEW w
    PROVE  /\ AllHold(s \o t, w) <=> AllHold(s, w) /\ AllHold(t, w)
           /\ AllHold(Append(s, k), w) <=> AllHold(s, w) /\ Holds(k, w)
<1>1. AllHold(Append(s, k), w) <=> AllHold(s, w) /\ Holds(k, w)
  <2> DEFINE u == Append(s, k)
  <2>1. DOMAIN u = DOMAIN s \cup {Len(s) + 1} /\ u[Len(s) + 1] = k /\ \A j \in DOMAIN s : u[j] = s[j]
    OBVIOUS
  <2> HIDE DEF u
  <2>2. AllHold(u, w) <=> AllHold(s, w) /\ Holds(k, w)  BY <2>1 DEF AllHold
  <2> QED BY <2>2 DEF u
<1>2. AllHold(s \o t, w) <=> AllHold(s, w) /\ AllHold(t, w)
  <2> DEFINE u == s \o t
  <2>1. /\ \A j \in DOMAIN s : j \in DOMAIN u /\ u[j] = s[j]
        /\ \A j \in DOMAIN t : Len(s) + j \in DOMAIN u /\ u[Len(s) + j] = t[j]
        /\ \A j \in DOMAIN u : j \in DOMAIN s \/ (j - Len(s) \in DOMAIN t /\ u[j] = t[j - Len(s)])
    OBVIOUS
  <2> HIDE DEF u
  <2>2. AllHold(u, w) <=> AllHold(s, w) /\ AllHold(t, w)  BY <2>1 DEF AllHold
  <2> QED BY <2>2 DEF u
<1> QED BY <1>1, <1>2

\* What a circuit is.
LEMMA CircuitFacts ==
    ASSUME NEW m \in Nat, NEW c, Circuit(c, m)
    PROVE  /\ c.next \in Nat /\ c.next > 0 /\ c.cs \in Seq(Constraints(c.next)) /\ WellFormed(c, m)
           /\ c = [next |-> c.next, cs |-> c.cs, rec |-> c.rec, inputs |-> c.inputs, out |-> c.out]
           /\ c.rec \in RecipeMaps(c.next)
           /\ \A i \in 1 .. m : c.inputs[i] \in 1 .. c.next - 1 /\ c.inputs[i] \in Nat
           /\ c.inputs \in [1 .. m -> 1 .. c.next - 1] /\ c.out \in 0 .. c.next - 1
           /\ \A i, j \in 1 .. m : c.inputs[i] = c.inputs[j] => i = j
BY DEF Circuit, WellFormed

\* A circuit stays one with more wires, recipes and constraints.
LEMMA CircuitIntro ==
    ASSUME NEW m \in Nat, NEW c, Circuit(c, m), NEW N \in Nat, c.next <= N,
           NEW cs \in Seq(Constraints(N)), NEW rec \in RecipeMaps(N)
    PROVE  Circuit([next |-> N, cs |-> cs, rec |-> rec, inputs |-> c.inputs, out |-> c.out], m)
<1> DEFINE d == [next |-> N, cs |-> cs, rec |-> rec, inputs |-> c.inputs, out |-> c.out]
<1>1. d.next = N /\ d.cs = cs /\ d.rec = rec /\ d.inputs = c.inputs /\ d.out = c.out  OBVIOUS
<1>2. d = [next |-> d.next, cs |-> d.cs, rec |-> d.rec, inputs |-> d.inputs, out |-> d.out]
  OBVIOUS
<1> HIDE DEF d
<1>3. /\ c.next \in Nat /\ c.next > 0 /\ c.inputs \in [1 .. m -> 1 .. c.next - 1] /\ c.out \in 0 .. c.next - 1
      /\ \A i, j \in 1 .. m : c.inputs[i] = c.inputs[j] => i = j
  BY CircuitFacts
<1>4. N \in Nat \ {0} /\ c.inputs \in [1 .. m -> 1 .. N - 1] /\ c.out \in 0 .. N - 1  BY <1>3
<1>5. WellFormed(d, m)  BY <1>1, <1>3, <1>4 DEF WellFormed
<1>6. Circuit(d, m)  BY <1>1, <1>2, <1>5 DEF Circuit
<1> QED BY <1>6 DEF d

\* Linear combinations of old wires keep their values.
LEMMA EvalAgree ==
    ASSUME NEW n \in Nat, NEW f \in LCs(n), NEW u, NEW w, Agree(u, w, n)
    PROVE  EvalLc(f, u) = EvalLc(f, w)
<1>1. \A v \in Wires(f) : u[v] = w[v]  BY LcFacts DEF Agree
<1> QED BY <1>1, EvalSame

\* Satisfaction depends on the wires of the circuit only.
LEMMA SatisfiedAgree ==
    ASSUME NEW m \in Nat, NEW c, Circuit(c, m), NEW u, NEW w, Agree(u, w, c.next), Satisfied(c, w)
    PROVE  Satisfied(c, u)
<1> SUFFICES ASSUME NEW i \in DOMAIN c.cs PROVE Holds(c.cs[i], u)  BY DEF Satisfied
<1>1. c.next \in Nat /\ c.cs[i] \in Constraints(c.next)
  <2>1. c.next \in Nat /\ c.cs \in Seq(Constraints(c.next))  BY CircuitFacts
  <2> QED BY <2>1
<1>2. \A v \in Mentioned(c.cs[i]) : w[v] = u[v]  BY <1>1, ConstraintFacts DEF Agree
<1>3. Holds(c.cs[i], w)  BY DEF Satisfied
<1> QED BY <1>2, <1>3, HoldsSame

\* Agreement composes.
LEMMA AgreeFacts ==
    ASSUME NEW n \in Nat, NEW k \in Nat, k <= n, NEW u, NEW v, NEW w, Agree(u, v, n), Agree(v, w, k)
    PROVE  Agree(u, w, k)
BY DEF Agree

\* Wires from n on are chosen freely.
LEMMA Chosen ==
    ASSUME NEW w \in Assignments, NEW n \in Nat \ {0}, NEW g \in [Nat -> Field]
    PROVE  \E u \in Assignments : Agree(u, w, n) /\ \A v \in Nat : v >= n => u[v] = g[v]
<1> DEFINE u == [v \in Nat |-> IF v < n THEN w[v] ELSE g[v]]
<1>1. w \in [Nat -> Field] /\ w[0] = 1  BY AssignmentFacts
<1>2. u \in [Nat -> Field]  BY <1>1
<1>3. u[0] = 1  BY <1>1
<1>4. Agree(u, w, n)  BY DEF Agree
<1>5. \A v \in Nat : v >= n => u[v] = g[v]  OBVIOUS
<1>6. u \in Assignments  BY <1>2, <1>3 DEF Assignments
<1> HIDE DEF u
<1> QED BY <1>4, <1>5, <1>6

\* Growing composes.
LEMMA GrownFacts ==
    ASSUME NEW m \in Nat, NEW c, NEW d, NEW e, Circuit(c, m), Grown(c, d, m), Grown(d, e, m)
    PROVE  /\ Grown(c, e, m)
           /\ \A f \in LCs(c.next) : f \in LCs(d.next)
<1>1. c.next \in Nat /\ d.next \in Nat /\ e.next \in Nat /\ c.next <= d.next /\ d.next <= e.next
  BY CircuitFacts DEF Grown
<1>2. \A f \in LCs(c.next) : f \in LCs(d.next)  BY <1>1, LcMono
<1> QED BY <1>1, <1>2 DEF Grown

\* Extensions one after the other.
LEMMA ExtendMore ==
    ASSUME NEW m \in Nat, NEW c, NEW d, NEW e, Circuit(c, m), Grown(c, d, m), Grown(d, e, m), NEW w, NEW u,
           Agree(u, w, c.next), Extendable(d, e, u)
    PROVE  Extendable(c, e, w)
<1>1. c.next \in Nat /\ d.next \in Nat /\ c.next <= d.next  BY CircuitFacts DEF Grown
<1>2. PICK v \in Assignments : Agree(v, u, d.next) /\ Satisfied(e, v)  BY DEF Extendable
<1>3. Agree(v, w, c.next)  BY <1>1, <1>2, AgreeFacts
<1> QED BY <1>2, <1>3 DEF Extendable

\* New wires constrain nothing.
LEMMA NewWiresFacts ==
    ASSUME NEW m \in Nat, NEW c, Circuit(c, m), NEW k \in Nat
    PROVE  /\ Grown(c, NewWires(c, k), m) /\ NewWires(c, k).next = c.next + k
           /\ NewWires(c, k).cs = c.cs /\ NewWires(c, k).rec = c.rec
           /\ \A w : Satisfied(NewWires(c, k), w) <=> Satisfied(c, w)
<1> DEFINE N == c.next + k
           d == NewWires(c, k)
           e == [next |-> N, cs |-> c.cs, rec |-> c.rec, inputs |-> c.inputs, out |-> c.out]
<1>1. /\ c.next \in Nat /\ c.cs \in Seq(Constraints(c.next)) /\ c.rec \in RecipeMaps(c.next)
      /\ c = [next |-> c.next, cs |-> c.cs, rec |-> c.rec, inputs |-> c.inputs, out |-> c.out]
  BY CircuitFacts
<1>2. d = e  BY <1>1 DEF NewWires
<1>3. N \in Nat /\ c.next <= N  BY <1>1
<1>4. c.cs \in Seq(Constraints(N)) /\ c.rec \in RecipeMaps(N)
  <2>1. RecipeMaps(c.next) \subseteq RecipeMaps(N) /\ Constraints(c.next) \subseteq Constraints(N)
    BY <1>1, <1>3, RecipeMono
  <2> QED BY <1>1, <2>1
<1> HIDE DEF N
<1>5. Circuit(e, m)  BY <1>3, <1>4, CircuitIntro
<1>6. e.next = N /\ e.cs = c.cs /\ e.rec = c.rec /\ e.inputs = c.inputs /\ e.out = c.out  OBVIOUS
<1> HIDE DEF e, d
<1>7. Grown(c, d, m)  BY <1>2, <1>3, <1>5, <1>6 DEF Grown
<1> QED BY <1>2, <1>6, <1>7, SatisfiedDef DEF d, N

\* Recipes constrain nothing.
LEMMA AddRecipeFacts ==
    ASSUME NEW m \in Nat, NEW c, Circuit(c, m), NEW x \in Nat, NEW r \in Recipes(c.next)
    PROVE  /\ Grown(c, AddRecipe(c, x, r), m) /\ AddRecipe(c, x, r).next = c.next
           /\ \A w : Satisfied(AddRecipe(c, x, r), w) <=> Satisfied(c, w)
<1> DEFINE rec == Over(Mapping(x, r), c.rec)
           d == AddRecipe(c, x, r)
           e == [next |-> c.next, cs |-> c.cs, rec |-> rec, inputs |-> c.inputs, out |-> c.out]
<1>1. /\ c.next \in Nat /\ c.cs \in Seq(Constraints(c.next)) /\ c.rec \in RecipeMaps(c.next)
      /\ c = [next |-> c.next, cs |-> c.cs, rec |-> c.rec, inputs |-> c.inputs, out |-> c.out]
  BY CircuitFacts
<1>2. d = e  BY <1>1 DEF AddRecipe
<1>3. Mapping(x, r) \in [{x} -> Recipes(c.next)] /\ {x} \in SUBSET Nat  BY DEF Mapping
<1>4. rec \in RecipeMaps(c.next)  BY <1>1, <1>3, RecipeMapFacts, OverFacts
<1> HIDE DEF rec
<1>5. Circuit(e, m)  BY <1>1, <1>4, CircuitIntro
<1>6. e.next = c.next /\ e.cs = c.cs /\ e.inputs = c.inputs /\ e.out = c.out  OBVIOUS
<1> HIDE DEF e, d
<1>7. Grown(c, d, m)  BY <1>1, <1>2, <1>5, <1>6 DEF Grown
<1> QED BY <1>2, <1>6, <1>7, SatisfiedDef DEF d

\* d is c with the constraint x * y = z.
Added(c, d, m, x, y, z) ==
    /\ Grown(c, d, m) /\ d.next = c.next
    /\ \A w : Satisfied(d, w) <=>
             Satisfied(c, w) /\ Times(EvalLc(x, w), EvalLc(y, w)) = EvalLc(z, w)

\* add_constraint adds a constraint.
LEMMA AddedFacts ==
    ASSUME NEW m \in Nat, NEW c, Circuit(c, m),
           NEW x \in LCs(c.next), NEW y \in LCs(c.next), NEW z \in LCs(c.next)
    PROVE  Added(c, AddConstraint(c, x, y, z), m, x, y, z)
<1> DEFINE k == Constraint(x, y, z)
           d == AddConstraint(c, x, y, z)
           cs == Append(c.cs, k)
           e == [next |-> c.next, cs |-> cs, rec |-> c.rec, inputs |-> c.inputs, out |-> c.out]
<1>1. /\ c.next \in Nat /\ c.cs \in Seq(Constraints(c.next)) /\ c.rec \in RecipeMaps(c.next)
      /\ c = [next |-> c.next, cs |-> c.cs, rec |-> c.rec, inputs |-> c.inputs, out |-> c.out]
  BY CircuitFacts
<1>2. d = e
  <2>1. d = [c EXCEPT !.cs = cs]  BY DEF AddConstraint
  <2> HIDE DEF cs, d
  <2> QED BY <1>1, <2>1
<1>3. k \in Constraints(c.next) /\ k.a = x /\ k.b = y /\ k.c = z  BY DEF Constraint, Constraints
<1> HIDE DEF k
<1>4. cs \in Seq(Constraints(c.next))  BY <1>1, <1>3
<1> HIDE DEF cs
<1>5. Circuit(e, m)  BY <1>1, <1>4, CircuitIntro
<1>6. e.next = c.next /\ e.cs = cs /\ e.inputs = c.inputs /\ e.out = c.out  OBVIOUS
<1> HIDE DEF e, d
<1>7. Grown(c, d, m)  BY <1>1, <1>2, <1>5, <1>6 DEF Grown
<1>8. ASSUME NEW w
      PROVE  Satisfied(d, w) <=> Satisfied(c, w) /\ Times(EvalLc(x, w), EvalLc(y, w)) = EvalLc(z, w)
  <2>1. AllHold(Append(c.cs, k), w) <=> AllHold(c.cs, w) /\ Holds(k, w)
    BY <1>1, <1>3, AllHoldFacts
  <2>2. Holds(k, w) <=> Times(EvalLc(x, w), EvalLc(y, w)) = EvalLc(z, w)  BY <1>3 DEF Holds
  <2>3. (Satisfied(d, w) <=> AllHold(d.cs, w)) /\ (Satisfied(c, w) <=> AllHold(c.cs, w)) /\ d.cs = Append(c.cs, k)
    BY <1>2, <1>6, SatisfiedDef DEF cs
  <2> QED BY <2>1, <2>2, <2>3
<1> QED BY <1>2, <1>6, <1>7, <1>8 DEF d, Added

-----------------------------------------------------------------------------
(***************************************************************************)
(* num2bits.                                                               *)
(***************************************************************************)

\* The wires from first on are the n bits of x.
Decomposed(w, first, n, x) ==
    x < Pow2[n] /\ \A i \in 0 .. n - 1 : w[first + i] = Digit(x, i)

\* The bits of some wires.
BitsAt(w, first, n) == [i \in Nat |-> IF i < n THEN w[first + i] ELSE 0]

\* The values of boolean wires are a string of bits.
LEMMA BitsAtFacts ==
    ASSUME NEW w, NEW first \in Nat, NEW n \in Nat, \A i \in 0 .. n - 1 : w[first + i] \in {0, 1}
    PROVE  /\ BitsAt(w, first, n) \in BitStrings
           /\ \A i \in 0 .. n - 1 : w[first + i] = BitsAt(w, first, n)[i]
<1>1. \A i \in Nat : (IF i < n THEN w[first + i] ELSE 0) \in {0, 1}  OBVIOUS
<1>2. BitsAt(w, first, n) \in BitStrings  BY <1>1 DEF BitsAt, BitStrings
<1>3. \A i \in 0 .. n - 1 : i \in Nat /\ i < n  OBVIOUS
<1> QED BY <1>2, <1>3 DEF BitsAt

\* A digit is an element of the field.
LEMMA DigitField ==
    ASSUME NEW x \in Field, NEW i \in Nat
    PROVE  Digit(x, i) \in {0, 1} /\ Digit(x, i) \in Field
BY FieldMod, DigitType, FieldOps

\* num2bits: the new wires are the n bits of value, which must be below 2^n.
LEMMA Num2BitsFacts ==
    ASSUME NEW m \in Nat, NEW c, Circuit(c, m), NEW value \in LCs(c.next), NEW n \in Nat, Pow2[n] <= P
    PROVE  /\ Grown(c, Num2Bits(c, value, n), m) /\ Num2Bits(c, value, n).next = c.next + n
           /\ \A w \in Assignments : Satisfied(Num2Bits(c, value, n), w) <=>
                 Satisfied(c, w) /\ Decomposed(w, c.next, n, EvalLc(value, w))
           /\ \A w \in Assignments : Satisfied(c, w) /\ EvalLc(value, w) < Pow2[n]
                 => Extendable(c, Num2Bits(c, value, n), w)
<1> DEFINE first == c.next
           N == first + n
           bits == first .. first + n - 1
           boolean == [i \in 1 .. n |-> LET b == Unit(first + i - 1) IN Constraint(b, b, b)]
           recomposed == [w \in bits |-> Pow2[w - first] % P]
           new == [w \in bits |-> BitRecipe(value, w - first)]
           last == Constraint(recomposed, One, value)
           d == Num2Bits(c, value, n)
           cs == Append(c.cs \o boolean, last)
           rec == Over(new, c.rec)
           e == [next |-> N, cs |-> cs, rec |-> rec, inputs |-> c.inputs, out |-> c.out]
<1>1. /\ first \in Nat /\ first > 0 /\ c.cs \in Seq(Constraints(first)) /\ c.rec \in RecipeMaps(first)
      /\ c = [next |-> first, cs |-> c.cs, rec |-> c.rec, inputs |-> c.inputs, out |-> c.out]
  BY CircuitFacts
<1>2. d = e
  <2>1. d = [c EXCEPT !.next = @ + n, !.rec = Over(new, @), !.cs = Append(@ \o boolean, last)]
    BY DEF Num2Bits
  <2> HIDE DEF new, boolean, last, d
  <2>2. d = [c EXCEPT !.next = N, !.rec = rec, !.cs = cs]  BY <1>1, <2>1
  <2> HIDE DEF N, cs, rec
  <2> QED BY <1>1, <2>2
<1> HIDE DEF d
<1>3. N \in Nat /\ first <= N /\ N > 0 /\ first \in Nat \ {0}  BY <1>1
<1>4. /\ c.cs \in Seq(Constraints(N)) /\ c.rec \in RecipeMaps(N) /\ value \in LCs(N) /\ One \in LCs(N)
  <2>1. RecipeMaps(first) \subseteq RecipeMaps(N) /\ Constraints(first) \subseteq Constraints(N)
    BY <1>1, <1>3, RecipeMono
  <2> HIDE DEF N
  <2> QED BY <1>1, <1>3, <2>1, LcMono, OneFacts
<1>5. rec \in RecipeMaps(N)
  <2>1. \A w \in bits : BitRecipe(value, w - first) \in Recipes(N)
    <3>1. \A w \in bits : w - first \in Int  BY <1>1
    <3>2. "mul" \in RecipeOps  BY DEF RecipeOps
    <3> QED BY <1>4, <3>1, <3>2, RecipeIntro
  <2>2. new \in [bits -> Recipes(N)] /\ bits \in SUBSET Nat  BY <1>1, <2>1
  <2> HIDE DEF new, bits, N
  <2>3. new \in RecipeMaps(N)  BY <2>2, RecipeMapFacts
  <2> QED BY <1>4, <2>3, OverFacts
<1>6. recomposed = Weights(first, n, 0)
  <2>1. ASSUME NEW v \in bits PROVE Pow2[v - first] % P = Pow2[0 + (v - first)]
    <3> DEFINE j == v - first
    <3>1. j \in Nat /\ j + 1 \in Nat /\ j + 1 <= n /\ 0 + j = j  BY <1>1
    <3> HIDE DEF j
    <3>2. Pow2[j] \in Nat \ {0} /\ Pow2[j + 1] = 2 * Pow2[j] /\ Pow2[n] \in Int
      BY <3>1, Pow2Facts
    <3>3. Pow2[j + 1] <= Pow2[n]  BY <3>1, Pow2Mono
    <3>4. Pow2[j] \in Field  BY <3>2, <3>3, Modulus DEF Field
    <3>5. Pow2[j] % P = Pow2[j]  BY <3>4, FieldMod
    <3> QED BY <3>1, <3>5 DEF j
  <2> QED BY <2>1 DEF Weights
<1>7. /\ recomposed \in LCs(N)
      /\ \A w \in Assignments : \A b \in BitStrings :
            (\A i \in 0 .. n - 1 : w[first + i] = b[i]) => EvalLc(recomposed, w) = Bin(b, n)
  <2>1. 0 \in Nat /\ Pow2[0 + n] <= P /\ first + n <= N /\ Pow2[0] = 1 /\ \A b \in BitStrings : Bin(b, n) \in Int
    <3>1. 0 + n = n  OBVIOUS
    <3> QED BY <1>1, <3>1, Pow2Facts, BinStep
  <2> DEFINE f == Weights(first, n, 0)
  <2>2. /\ f \in LCs(N)
        /\ \A w \in Assignments : \A b \in BitStrings :
            (\A i \in 0 .. n - 1 : w[first + i] = b[i]) => EvalLc(f, w) = Pow2[0] * Bin(b, n)
    <3> HIDE DEF N
    <3> QED BY <1>3, <2>1, WeightsFacts
  <2> HIDE DEF f
  <2>3. f = recomposed  BY <1>6 DEF f
  <2>4. \A b \in BitStrings : Pow2[0] * Bin(b, n) = Bin(b, n)  BY <2>1
  <2> HIDE DEF recomposed
  <2> QED BY <2>2, <2>3, <2>4
<1> HIDE DEF recomposed
<1>8. /\ boolean \in Seq(Constraints(N)) /\ DOMAIN boolean = 1 .. n
      /\ \A i \in 1 .. n : \A w \in Assignments : Holds(boolean[i], w) <=> w[first + i - 1] \in {0, 1}
  <2>1. ASSUME NEW i \in 1 .. n
        PROVE  LET b == Unit(first + i - 1)
               IN  /\ Constraint(b, b, b) \in Constraints(N)
                   /\ \A w \in Assignments : Holds(Constraint(b, b, b), w) <=> w[first + i - 1] \in {0, 1}
    <3> DEFINE v == first + i - 1
               b == Unit(v)
    <3>1. v \in 0 .. N - 1 /\ v \in Nat  BY <1>1
    <3> HIDE DEF v
    <3>2. b \in LCs(N) /\ \A w \in Assignments : EvalLc(b, w) = w[v]  BY <1>3, <3>1, UnitFacts
    <3> HIDE DEF b
    <3>3. Constraint(b, b, b) \in Constraints(N)  BY <3>2 DEF Constraint, Constraints
    <3>4. ASSUME NEW w \in Assignments PROVE Holds(Constraint(b, b, b), w) <=> w[v] \in {0, 1}
      <4>1. w[v] \in Field  BY <3>1, AssignmentFacts
      <4>2. Holds(Constraint(b, b, b), w) <=> Times(w[v], w[v]) = w[v]
        BY <3>2 DEF Holds, Constraint
      <4> QED BY <4>1, <4>2, BooleanValue
    <3> QED BY <3>3, <3>4 DEF v, b
  <2>2. boolean \in [1 .. n -> Constraints(N)]  BY <2>1
  <2> DEFINE K == Constraints(N)
  <2>3. boolean \in [1 .. n -> K] /\ DOMAIN boolean = 1 .. n  BY <2>2
  <2>4. \A i \in 1 .. n : \A w \in Assignments : Holds(boolean[i], w) <=> w[first + i - 1] \in {0, 1}
    BY <2>1
  <2> HIDE DEF boolean, K
  <2>5. boolean \in Seq(K)  BY <2>3
  <2> QED BY <2>3, <2>4, <2>5 DEF K
<1> HIDE DEF boolean
<1>9. last \in Constraints(N) /\ last.a = recomposed /\ last.b = One /\ last.c = value
  BY <1>4, <1>7 DEF Constraint, Constraints
<1> HIDE DEF last
<1>10. cs \in Seq(Constraints(N))
       /\ \A w : AllHold(cs, w) <=> AllHold(c.cs, w) /\ AllHold(boolean, w) /\ Holds(last, w)
  <2> DEFINE K == Constraints(N)
             s == c.cs
  <2>1. s \in Seq(K) /\ boolean \in Seq(K) /\ last \in K  BY <1>4, <1>8, <1>9
  <2> HIDE DEF K, s
  <2>2. s \o boolean \in Seq(K) /\ Append(s \o boolean, last) \in Seq(K)  BY <2>1
  <2>3. \A w : AllHold(s \o boolean, w) <=> AllHold(s, w) /\ AllHold(boolean, w)
    BY <2>1, AllHoldFacts
  <2> DEFINE t == s \o boolean
  <2> HIDE DEF t
  <2>4. \A w : AllHold(Append(t, last), w) <=> AllHold(t, w) /\ Holds(last, w)
    BY <2>1, <2>2, AllHoldFacts DEF t
  <2> QED BY <2>2, <2>3, <2>4 DEF t, s, K
<1> HIDE DEF cs, rec, N
<1>11. Circuit(e, m)  BY <1>3, <1>5, <1>10, CircuitIntro
<1>12. e.next = N /\ e.cs = cs /\ e.inputs = c.inputs /\ e.out = c.out  OBVIOUS
<1> HIDE DEF e
<1>13. Grown(c, d, m) /\ d.next = first + n  BY <1>2, <1>3, <1>11, <1>12 DEF Grown, N
<1>14. ASSUME NEW w \in Assignments
       PROVE  Satisfied(d, w) <=> Satisfied(c, w) /\ Decomposed(w, first, n, EvalLc(value, w))
  <2> DEFINE x == EvalLc(value, w)
             b == BitsAt(w, first, n)
  <2>1. x \in Field /\ x \in Nat  BY <1>1, EvalType, FieldMod
  <2>2. AllHold(boolean, w) <=> \A i \in 0 .. n - 1 : w[first + i] \in {0, 1}
    <3>1. AllHold(boolean, w) <=> \A i \in 1 .. n : w[first + i - 1] \in {0, 1}
      BY <1>8 DEF AllHold
    <3>2. \A i \in 1 .. n : i - 1 \in 0 .. n - 1 /\ first + (i - 1) = first + i - 1  BY <1>1
    <3>3. \A i \in 0 .. n - 1 : i + 1 \in 1 .. n /\ first + (i + 1) - 1 = first + i  BY <1>1
    <3> QED BY <3>1, <3>2, <3>3
  <2>3. Holds(last, w) <=> EvalLc(recomposed, w) = x
    <3>1. EvalLc(recomposed, w) \in Field /\ EvalLc(One, w) = 1
      <4> HIDE DEF x
      <4>1. \A a \in Assignments : EvalLc(One, a) = 1  BY <1>3, OneFacts
      <4> QED BY <1>3, <1>7, <4>1, EvalType
    <3>2. Times(EvalLc(recomposed, w), 1) = EvalLc(recomposed, w)  BY <3>1, FieldOps, FieldRing
    <3> QED BY <1>9, <3>1, <3>2 DEF Holds
  <2>4. Satisfied(d, w) <=> Satisfied(c, w) /\ AllHold(boolean, w) /\ Holds(last, w)
    BY <1>2, <1>10, <1>12, SatisfiedDef
  <2> HIDE DEF x
  <2>5. ASSUME \A i \in 0 .. n - 1 : w[first + i] \in {0, 1}
        PROVE  /\ b \in BitStrings /\ \A i \in 0 .. n - 1 : w[first + i] = b[i]
               /\ EvalLc(recomposed, w) = Bin(b, n)
    <3>1. b \in BitStrings /\ \A i \in 0 .. n - 1 : w[first + i] = b[i]
      <4>1. first \in Nat /\ n \in Nat  BY <1>1
      <4> QED  BY ONLY <2>5, <4>1, BitsAtFacts, ZenonT(40)
    <3> HIDE DEF b
    <3> QED BY <1>7, <3>1
  <2>6. ASSUME \A i \in 0 .. n - 1 : w[first + i] \in {0, 1}, EvalLc(recomposed, w) = x
        PROVE  Decomposed(w, first, n, x)
    <3>1. b \in BitStrings /\ (\A i \in 0 .. n - 1 : w[first + i] = b[i]) /\ x = Bin(b, n)
      BY <2>5, <2>6
    <3> HIDE DEF b
    <3>2. x \in 0 .. Pow2[n] - 1 /\ Pow2[n] \in Int  BY <3>1, BinBound, Pow2Facts
    <3>3. \A i \in 0 .. n - 1 : Digit(x, i) = b[i]  BY <3>1, BinDigits
    <3> QED BY <2>1, <3>1, <3>2, <3>3 DEF Decomposed
  <2>7. ASSUME Decomposed(w, first, n, x)
        PROVE  (\A i \in 0 .. n - 1 : w[first + i] \in {0, 1}) /\ EvalLc(recomposed, w) = x
    <3>1. \A i \in 0 .. n - 1 : w[first + i] = Digit(x, i) /\ Digit(x, i) \in {0, 1}
      <4>1. \A i \in 0 .. n - 1 : i \in Nat  OBVIOUS
      <4> QED BY <2>1, <2>7, <4>1, DigitField DEF Decomposed
    <3>2. b \in BitStrings /\ (\A i \in 0 .. n - 1 : w[first + i] = b[i]) /\ EvalLc(recomposed, w) = Bin(b, n)
      BY <2>5, <3>1
    <3> HIDE DEF b
    <3>3. Bin(b, n) = x % Pow2[n]  BY <2>1, <3>1, <3>2, DigitsBin
    <3>4. x % Pow2[n] = x  BY <2>1, <2>7, Pow2Facts, SmallMod DEF Decomposed
    <3> QED BY <3>1, <3>2, <3>3, <3>4
  <2> HIDE DEF b
  <2> QED BY <2>2, <2>3, <2>4, <2>6, <2>7 DEF x
<1>15. ASSUME NEW w \in Assignments, Satisfied(c, w), EvalLc(value, w) < Pow2[n]
       PROVE  Extendable(c, d, w)
  <2> DEFINE x == EvalLc(value, w)
             g == [v \in Nat |-> IF v >= first THEN Digit(x, v - first) ELSE 0]
  <2>1. x \in Field  BY <1>1, EvalType
  <2> HIDE DEF x
  <2>2. g \in [Nat -> Field]
    <3> SUFFICES ASSUME NEW v \in Nat PROVE (IF v >= first THEN Digit(x, v - first) ELSE 0) \in Field
      OBVIOUS
    <3>1. v >= first => v - first \in Nat  BY <1>1
    <3> QED BY <2>1, <3>1, DigitField, FieldOps
  <2>3. \A i \in 0 .. n - 1 : first + i \in Nat /\ first + i >= first /\ g[first + i] = Digit(x, i)
    <3>1. \A i \in 0 .. n - 1 : first + i \in Nat /\ first + i >= first /\ (first + i) - first = i
      BY <1>1
    <3> HIDE DEF first
    <3> QED BY <3>1
  <2> HIDE DEF g
  <2>4. PICK u \in Assignments : Agree(u, w, first) /\ \A v \in Nat : v >= first => u[v] = g[v]
    BY <1>3, <2>2, Chosen
  <2>5. EvalLc(value, u) = x  BY <1>1, <2>4, EvalAgree DEF x
  <2>6. Satisfied(c, u)  BY <1>15, <2>4, SatisfiedAgree
  <2>7. Decomposed(u, first, n, x)  BY <1>15, <2>3, <2>4 DEF Decomposed, x
  <2>8. Satisfied(d, u)  BY <1>14, <2>5, <2>6, <2>7
  <2> QED BY <2>4, <2>8 DEF Extendable
<1> QED BY <1>13, <1>14, <1>15 DEF d

-----------------------------------------------------------------------------
(***************************************************************************)
(* less_than.                                                              *)
(***************************************************************************)

\* A quotient that is 1.
LEMMA DivOne ==
    ASSUME NEW n \in Int, NEW k \in Nat \ {0}, k <= n, n < 2 * k
    PROVE  n \div k = 1 /\ n % k = n - k
<1> DEFINE r == n - k
           q == 1
           p == k * q
<1>1. r \in 0 .. k - 1 /\ q \in Int /\ p = k * q /\ n = p + r  OBVIOUS
<1> HIDE DEF r, q, p
<1>2. n \div k = q /\ n % k = r  BY <1>1, DivisionUnique
<1> QED  BY <1>2 DEF r, q

\* Plus on numbers: it wraps at most once.
LEMMA SumValue ==
    ASSUME NEW x \in Field, NEW y \in Field
    PROVE  Plus(x, y) = IF x + y < P THEN x + y ELSE x + y - P
<1>1. /\ x \in Int /\ y \in Int /\ 0 <= x /\ x < P /\ 0 <= y /\ y < P
      /\ P \in Nat \ {0} /\ P \in Int
    BY FieldMod, Modulus
<1> SUFFICES (x + y) % P = IF x + y < P THEN x + y ELSE x + y - P  BY DEF Plus
<1>2. CASE x + y < P
  <2>1. x + y \in 0 .. P - 1 /\ x + y = P * 0 + (x + y)  BY <1>1, <1>2
  <2> QED  BY <2>1, <1>1, <1>2, DivisionUnique
<1>3. CASE ~(x + y < P)
  <2> DEFINE z == x + y
  <2>1. z \in Int /\ P <= z /\ z < 2 * P  BY <1>1, <1>3
  <2> HIDE DEF z
  <2>2. z % P = z - P  BY <2>1, <1>1, DivOne
  <2> QED  BY <1>1, <2>2, <1>3 DEF z
<1> QED  BY <1>2, <1>3

\* Negated on numbers.
LEMMA NegatedValue ==
    ASSUME NEW x \in Field
    PROVE  Negated(x) = IF x = 0 THEN 0 ELSE P - x
<1>1. x \in Int /\ 0 <= x /\ x < P /\ P \in Nat \ {0} /\ P \in Int  BY FieldMod, Modulus
<1> SUFFICES (P - x) % P = IF x = 0 THEN 0 ELSE P - x  BY DEF Negated
<1>2. CASE x = 0
  <2>1. 0 \in 0 .. P - 1 /\ P - x = P * 1 + 0  BY <1>1, <1>2
  <2> QED  BY <2>1, <1>1, <1>2, DivisionUnique
<1>3. CASE x # 0
  <2>1. P - x \in 0 .. P - 1 /\ P - x = P * 0 + (P - x)  BY <1>1, <1>3
  <2> QED  BY <2>1, <1>1, <1>3, DivisionUnique
<1> QED  BY <1>2, <1>3

\* A difference wraps when it is negative.
LEMMA DifferenceValue ==
    ASSUME NEW x \in Field, NEW y \in Field
    PROVE  /\ Plus(x, Negated(y)) = IF y <= x THEN x - y ELSE x - y + P
           /\ Plus(x, Negated(y)) \in Field
<1>1. x \in Int /\ 0 <= x /\ x < P /\ y \in Int /\ 0 <= y /\ y < P /\ P \in Nat \ {0} /\ P \in Int
  BY FieldMod, Modulus
<1>2. Negated(y) = IF y = 0 THEN 0 ELSE P - y  BY NegatedValue
<1>3. Negated(y) \in Field  BY FieldOps
<1>4. Plus(x, Negated(y)) = IF x + Negated(y) < P THEN x + Negated(y) ELSE x + Negated(y) - P
  BY <1>3, SumValue
<1>5. Plus(x, Negated(y)) \in Field  BY <1>3, FieldOps
<1>6. CASE y = 0  BY <1>1, <1>2, <1>4, <1>5, <1>6
<1>7. CASE y # 0  BY <1>1, <1>2, <1>4, <1>5, <1>7
<1> QED  BY <1>6, <1>7

\* The top bit of x + 2^n - y says whether x < y does not hold.
LEMMA DiffTop ==
    ASSUME NEW n \in Nat, NEW x \in Nat, NEW y \in Nat, x < Pow2[n], y < Pow2[n]
    PROVE  /\ x + Pow2[n] - y \in Nat /\ x + Pow2[n] - y < Pow2[n + 1]
           /\ Digit(x + Pow2[n] - y, n) = IF x < y THEN 0 ELSE 1
<1> DEFINE K == Pow2[n]
<1>1. K \in Nat \ {0} /\ Pow2[n + 1] = 2 * K  BY Pow2Facts
<1>2. x < K /\ y < K  OBVIOUS
<1>3. K \in Int  BY <1>1
<1>4. Digit(x + Pow2[n] - y, n) = ((x + K - y) \div K) % 2  BY DEF Digit
<1> HIDE DEF K
<1>5. CASE x < y
  <2>1. x + K - y \in Nat /\ x + K - y < K  BY <1>1, <1>2, <1>5
  <2>2. (x + K - y) \div K = 0  BY <2>1, <1>1, SmallMod
  <2>3. 0 % 2 = 0  OBVIOUS
  <2>4. x + K - y \in Nat /\ x + K - y < Pow2[n + 1]  BY <2>1, <1>1
  <2> QED  BY <2>2, <2>3, <2>4, <1>4, <1>5 DEF K
<1>6. CASE ~(x < y)
  <2>1. x + K - y \in Int /\ K <= x + K - y /\ x + K - y < 2 * K  BY <1>1, <1>2, <1>6
  <2>2. (x + K - y) \div K = 1  BY <2>1, <1>1, DivOne
  <2>3. 1 % 2 = 1  OBVIOUS
  <2>4. x + K - y \in Nat /\ x + K - y < Pow2[n + 1]  BY <2>1, <1>1, <1>2, <1>6
  <2> QED  BY <2>2, <2>3, <2>4, <1>4, <1>6 DEF K
<1> QED  BY <1>5, <1>6

\* The difference of two n-bit numbers plus 2^n does not wrap.
Ranged(n) == n \in Nat /\ Pow2[n + 1] <= P

\* x and y have values of n bits.
Below(x, y, n, w) == EvalLc(x, w) < Pow2[n] /\ EvalLc(y, w) < Pow2[n]

\* The outcome of less_than: x and y are in range, and lc says which is smaller.
Compared(c, less, x, y, n, w) ==
    /\ Satisfied(c, w) /\ Below(x, y, n, w)
    /\ EvalLc(less.lc, w) = Truth(EvalLc(x, w) < EvalLc(y, w))

\* less_than: sound, and satisfiable for every x and y in range.
LEMMA LessThanFacts ==
    ASSUME NEW m \in Nat, NEW c, Circuit(c, m), NEW x \in LCs(c.next), NEW y \in LCs(c.next),
           NEW n, Ranged(n), NEW less, less = LessThan(c, x, y, n)
    PROVE  /\ Grown(c, less.c, m) /\ less.lc \in LCs(less.c.next)
           /\ \A w \in Assignments : Satisfied(less.c, w) => Compared(c, less, x, y, n, w)
           /\ \A w \in Assignments :
                 Satisfied(c, w) /\ Below(x, y, n, w) => Extendable(c, less.c, w)
<1> DEFINE c1 == Num2Bits(c, x, n)
           c2 == Num2Bits(c1, y, n)
           shifted == AddLinear(x, Const(Pow2[n]), 1)
           diff == Minus(shifted, y)
           d == Num2Bits(c2, diff, n + 1)
           top == c2.next + n
           lc == Minus(One, Unit(top))
<1>n. n \in Nat  BY DEF Ranged
<1> USE <1>n
<1>1. less.c = d /\ less.lc = lc  BY DEF LessThan
<1>2. /\ Pow2[n] \in Nat \ {0} /\ Pow2[n + 1] = 2 * Pow2[n] /\ Pow2[n + 1] <= P /\ n \in Nat /\ Pow2[n] < P /\ Pow2[n] <= P
      /\ Pow2[n] \in Field /\ 1 \in Field /\ n + 1 \in Nat /\ Pow2[n] \in Int
  <2>0. n \in Nat  BY DEF Ranged
  <2>1. Pow2[n] \in Nat \ {0} /\ Pow2[n + 1] = 2 * Pow2[n] /\ n + 1 \in Nat /\ n \in Nat
    BY <2>0, Pow2Facts
  <2>2. P \in Nat /\ Pow2[n + 1] <= P  BY Modulus DEF Ranged
  <2> QED  BY <2>1, <2>2, FieldOps DEF Field
<1>3. c.next \in Nat /\ c.next > 0  BY CircuitFacts
<1>4. /\ Grown(c, c1, m) /\ c1.next = c.next + n
      /\ \A w \in Assignments : Satisfied(c1, w) <=>
            Satisfied(c, w) /\ Decomposed(w, c.next, n, EvalLc(x, w))
      /\ \A w \in Assignments : Satisfied(c, w) /\ EvalLc(x, w) < Pow2[n] => Extendable(c, c1, w)
    BY <1>2, Num2BitsFacts
<1> HIDE DEF c1
<1>5. Circuit(c1, m) /\ c1.next \in Nat /\ y \in LCs(c1.next) /\ c.next <= c1.next
  BY <1>3, <1>4, LcMono DEF Grown
<1>6. /\ Grown(c1, c2, m) /\ c2.next = c1.next + n
      /\ \A w \in Assignments : Satisfied(c2, w) <=>
            Satisfied(c1, w) /\ Decomposed(w, c1.next, n, EvalLc(y, w))
      /\ \A w \in Assignments : Satisfied(c1, w) /\ EvalLc(y, w) < Pow2[n] => Extendable(c1, c2, w)
    BY <1>2, <1>5, Num2BitsFacts
<1> HIDE DEF c2
<1>7. Circuit(c2, m) /\ c2.next \in Nat /\ c1.next <= c2.next /\ c.next <= c2.next
  BY <1>3, <1>5, <1>6 DEF Grown
<1>8. /\ diff \in LCs(c.next) /\ diff \in LCs(c2.next)
      /\ \A w \in Assignments : EvalLc(x, w) < Pow2[n] /\ EvalLc(y, w) < Pow2[n]
            => EvalLc(diff, w) = EvalLc(x, w) + Pow2[n] - EvalLc(y, w)
  <2> DEFINE k == Const(Pow2[n])
  <2>1. k \in LCs(c.next) /\ \A w \in Assignments : EvalLc(k, w) = Pow2[n] % P
    BY <1>2, <1>3, ConstFacts
  <2>2. Pow2[n] % P = Pow2[n]  BY <1>2, FieldMod
  <2> HIDE DEF k
  <2>3. /\ shifted \in LCs(c.next)
        /\ \A w \in Assignments : EvalLc(shifted, w) = Plus(EvalLc(x, w), Times(1, EvalLc(k, w)))
      BY <1>2, <1>3, <2>1, AddLinearFacts DEF k
  <2> HIDE DEF shifted
  <2>4. /\ diff \in LCs(c.next)
        /\ \A w \in Assignments :
              EvalLc(diff, w) = Plus(EvalLc(shifted, w), Negated(EvalLc(y, w)))
      BY <1>3, <2>3, MinusFacts
  <2>5. diff \in LCs(c2.next)  BY <1>3, <1>7, <2>4, LcMono
  <2> HIDE DEF diff
  <2>6. ASSUME NEW w \in Assignments, EvalLc(x, w) < Pow2[n], EvalLc(y, w) < Pow2[n]
        PROVE  EvalLc(diff, w) = EvalLc(x, w) + Pow2[n] - EvalLc(y, w)
    <3> DEFINE X == EvalLc(x, w)
               Y == EvalLc(y, w)
               K == Pow2[n]
    <3>1. X \in Field /\ Y \in Field /\ X \in Int /\ Y \in Int /\ 0 <= X /\ 0 <= Y
      BY <1>3, EvalType, FieldMod
    <3>2. EvalLc(shifted, w) = Plus(X, K)  BY <1>2, <2>1, <2>2, <2>3, FieldRing
    <3> HIDE DEF X, Y
    <3>3. K + K <= P /\ X < K /\ Y < K /\ K \in Field /\ K \in Int  BY <1>2, <2>6 DEF X, Y
    <3> HIDE DEF K
    <3>4. Plus(X, K) = X + K /\ Plus(X, K) \in Field  BY <3>1, <3>3, SumValue, Modulus, FieldOps
    <3>5. Plus(Plus(X, K), Negated(Y)) = X + K - Y  BY <3>1, <3>3, <3>4, DifferenceValue
    <3> QED  BY <2>4, <3>2, <3>5 DEF X, Y, K
  <2> QED  BY <2>4, <2>5, <2>6
<1> HIDE DEF diff
<1>9. /\ Grown(c2, d, m) /\ d.next = c2.next + (n + 1)
      /\ \A w \in Assignments : Satisfied(d, w) <=>
            Satisfied(c2, w) /\ Decomposed(w, c2.next, n + 1, EvalLc(diff, w))
      /\ \A w \in Assignments : Satisfied(c2, w) /\ EvalLc(diff, w) < Pow2[n + 1]
            => Extendable(c2, d, w)
    BY <1>2, <1>7, <1>8, Num2BitsFacts
<1> HIDE DEF d
<1>10. Grown(c, c2, m) /\ Grown(c, d, m)  BY <1>4, <1>6, <1>9, <1>5, GrownFacts
<1>11. /\ lc \in LCs(d.next)
       /\ \A w \in Assignments : EvalLc(lc, w) = Plus(1, Negated(w[top]))
  <2>1. d.next \in Nat /\ d.next > 0 /\ top \in 0 .. d.next - 1  BY <1>7, <1>9
  <2> HIDE DEF top
  <2>2. /\ One \in LCs(d.next) /\ Unit(top) \in LCs(d.next)
        /\ \A w \in Assignments : EvalLc(One, w) = 1
        /\ \A w \in Assignments : EvalLc(Unit(top), w) = w[top]
      BY <2>1, OneFacts, UnitFacts
  <2>3. /\ lc \in LCs(d.next)
        /\ \A w \in Assignments : EvalLc(lc, w) = Plus(EvalLc(One, w), Negated(EvalLc(Unit(top), w)))
      BY <2>1, <2>2, MinusFacts
  <2> HIDE DEF lc
  <2> QED  BY <2>2, <2>3
<1> HIDE DEF lc
<1>12. ASSUME NEW w \in Assignments, Satisfied(d, w)
       PROVE  /\ Satisfied(c, w) /\ EvalLc(x, w) < Pow2[n] /\ EvalLc(y, w) < Pow2[n]
              /\ EvalLc(lc, w) = Truth(EvalLc(x, w) < EvalLc(y, w))
  <2> DEFINE X == EvalLc(x, w)
             Y == EvalLc(y, w)
  <2>1. /\ Satisfied(c, w) /\ X < Pow2[n] /\ Y < Pow2[n]
        /\ Decomposed(w, c2.next, n + 1, EvalLc(diff, w))
      BY <1>4, <1>6, <1>9, <1>12 DEF Decomposed
  <2>2. X \in Nat /\ Y \in Nat  BY <1>3, EvalType, FieldMod
  <2>3. EvalLc(diff, w) = X + Pow2[n] - Y  BY <1>8, <2>1
  <2> HIDE DEF X, Y
  <2>4. n \in 0 .. (n + 1) - 1  OBVIOUS
  <2>5. w[top] = Digit(X + Pow2[n] - Y, n)  BY <2>1, <2>3, <2>4 DEF Decomposed
  <2>6. w[top] = IF X < Y THEN 0 ELSE 1  BY <2>1, <2>2, <2>5, DiffTop
  <2>7. Plus(1, Negated(0)) = 1 /\ Plus(1, Negated(1)) = 0  BY FieldOps, DifferenceValue
  <2> HIDE DEF top
  <2>8. EvalLc(lc, w) = Truth(X < Y)  BY <1>11, <2>6, <2>7 DEF Truth
  <2> QED  BY <2>1, <2>8 DEF X, Y
<1>13. ASSUME NEW w \in Assignments, Satisfied(c, w), EvalLc(x, w) < Pow2[n], EvalLc(y, w) < Pow2[n]
       PROVE  Extendable(c, d, w)
  <2>1. PICK u \in Assignments : Agree(u, w, c.next) /\ Satisfied(c1, u)
    BY <1>4, <1>13 DEF Extendable
  <2>2. EvalLc(x, u) = EvalLc(x, w) /\ EvalLc(y, u) = EvalLc(y, w)  BY <1>3, <2>1, EvalAgree
  <2>3. PICK v \in Assignments : Agree(v, u, c1.next) /\ Satisfied(c2, v)
    BY <1>6, <1>13, <2>1, <2>2 DEF Extendable
  <2>4. Agree(v, w, c.next)  BY <1>3, <1>5, <2>1, <2>3, AgreeFacts
  <2>5. EvalLc(x, v) = EvalLc(x, w) /\ EvalLc(y, v) = EvalLc(y, w)  BY <1>3, <2>4, EvalAgree
  <2>6. EvalLc(x, v) \in Nat /\ EvalLc(y, v) \in Nat  BY <1>3, EvalType, FieldMod
  <2>7. EvalLc(diff, v) < Pow2[n + 1]  BY <1>8, <1>13, <2>5, <2>6, DiffTop
  <2>8. Extendable(c2, d, v)  BY <1>9, <2>3, <2>7
  <2> QED  BY <1>9, <1>10, <2>4, <2>8, ExtendMore
<1>14. \A w \in Assignments : Satisfied(less.c, w) => Compared(c, less, x, y, n, w)
  BY <1>1, <1>12 DEF Compared, Below
<1>15. \A w \in Assignments : Satisfied(c, w) /\ Below(x, y, n, w) => Extendable(c, less.c, w)
  BY <1>1, <1>13 DEF Below
<1> QED  BY <1>1, <1>10, <1>11, <1>14, <1>15

-----------------------------------------------------------------------------
(***************************************************************************)
(* Integer division.                                                       *)
(***************************************************************************)

\* Multiplication is monotone.
LEMMA ProductMono ==
    ASSUME NEW a \in Nat, NEW b \in Nat, NEW c \in Nat, a <= b
    PROVE  a * c <= b * c
<1>1. PICK d \in Nat : b = a + d
  <2>1. b - a \in Nat /\ b = a + (b - a)  OBVIOUS
  <2> QED  BY <2>1
<1>2. (a + d) * c = a * c + d * c /\ d * c \in Nat /\ a * c \in Nat  OBVIOUS
<1> QED  BY <1>1, <1>2

\* The product of two n-bit numbers does not wrap.
Wide(n) == n \in Nat \ {0} /\ Pow2[n] * Pow2[n] <= P

\* What such a width allows.
LEMMA WidthFacts ==
    ASSUME NEW n, Wide(n)
    PROVE  /\ n \in Nat \ {0} /\ Pow2[n] * Pow2[n] <= P /\ Ranged(n)
           /\ Pow2[n] < P /\ Pow2[n + 1] <= P /\ Pow2[n] <= P /\ n \in Nat /\ n + 1 \in Nat
<1>0. n \in Nat \ {0} /\ Pow2[n] * Pow2[n] <= P  BY DEF Wide
<1> DEFINE K == Pow2[n]
<1>1. K \in Nat /\ 2 <= K
  <2>1. n \in Nat /\ 1 \in Nat /\ 1 <= n  BY <1>0
  <2>2. Pow2[1] <= Pow2[n] /\ Pow2[n] \in Nat  BY <2>1, Pow2Mono, Pow2Facts
  <2>3. Pow2[1] = 2
    <3>1. Pow2[0 + 1] = 2 * Pow2[0] /\ Pow2[0] = 1  BY Pow2Facts
    <3> QED  BY <3>1
  <2> QED  BY <2>2, <2>3
<1>2. Pow2[n + 1] = 2 * K  BY <1>0, Pow2Facts
<1>3. K * K <= P  BY <1>0
<1> HIDE DEF K
<1>4. 2 * K <= K * K  BY <1>1, ProductMono
<1>5. K * K \in Nat /\ 2 * K \in Nat /\ P \in Nat  BY <1>1, Modulus
<1>6. K < P /\ 2 * K <= P /\ K <= P  BY <1>1, <1>3, <1>4, <1>5
<1>7. n \in Nat /\ n + 1 \in Nat  BY <1>0
<1> QED  BY <1>0, <1>2, <1>6, <1>7 DEF K, Ranged

\* An equation modulo P between numbers that do not wrap holds exactly.
LEMMA ExactDivision ==
    ASSUME NEW K \in Nat, K * K <= P, NEW x \in Field, NEW y \in Field, NEW q \in Field, NEW r \in Field,
           q < K, y < K, r < y
    PROVE  Times(q, y) = Plus(x, Negated(r)) <=> x = q * y + r
<1>1. /\ x \in Nat /\ y \in Nat /\ q \in Nat /\ r \in Nat /\ x < P /\ P \in Nat /\ P \in Int /\ P > 0
      /\ r \in Int
    BY FieldMod, Modulus
<1> DEFINE p == q * y
           s == p + r
<1>2. p \in Nat /\ p \in Int  BY <1>1
<1>3. s < P /\ s \in Nat
  <2>1. (q + 1) * y <= K * y /\ y * K <= K * K  BY <1>1, ProductMono
  <2>2. (q + 1) * y = p + y /\ K * y = y * K  BY <1>1
  <2>3. K * y \in Nat /\ K * K \in Nat  BY <1>1
  <2> HIDE DEF p
  <2> QED  BY <1>1, <1>2, <2>1, <2>2, <2>3
<1> HIDE DEF p
<1>4. s \in Field /\ s % P = s  BY <1>1, <1>3, FieldMod DEF Field
<1>5. Plus(Times(q, y), r) = s
  <2>1. (p + r) % P = Plus(p % P, r % P) /\ r % P = r  BY <1>1, <1>2, ModAdd, FieldMod
  <2> QED  BY <1>4, <2>1 DEF p, Times
<1> HIDE DEF s
<1>6. Times(q, y) \in Field /\ Negated(r) \in Field /\ Plus(x, Negated(r)) \in Field  BY FieldOps
<1>7. Plus(Plus(x, Negated(r)), r) = x
  <2> DEFINE t == Negated(r)
  <2>1. t \in Field /\ Plus(r, t) = 0 /\ Plus(t, r) = Plus(r, t) /\ Plus(x, 0) = x
    BY <1>6, FieldRing
  <2> HIDE DEF t
  <2>2. Plus(Plus(x, t), r) = Plus(x, Plus(t, r))  BY <2>1, FieldRing
  <2> QED  BY <2>1, <2>2 DEF t
<1>8. ASSUME x = s
      PROVE  Times(q, y) = Plus(x, Negated(r))
  <2> DEFINE t == Negated(r)
             u == Times(q, y)
  <2>1. t \in Field /\ u \in Field /\ Plus(r, t) = 0 /\ Plus(u, 0) = u
    BY <1>6, FieldRing, FieldOps
  <2> HIDE DEF t, u
  <2>2. Plus(Plus(u, r), t) = Plus(u, Plus(r, t))  BY <2>1, FieldRing
  <2> QED  BY <1>5, <1>8, <2>1, <2>2 DEF t, u
<1> QED  BY <1>5, <1>7, <1>8 DEF s, p

\* w extends to d with the values x and y on the first two new wires.
Placed(c, d, w, x, y) ==
    \E u \in Assignments : /\ Agree(u, w, c.next) /\ Satisfied(d, u)
                           /\ u[c.next] = x /\ u[c.next + 1] = y

\* Two new wires with recipes.
LEMMA NamedFacts ==
    ASSUME NEW m \in Nat, NEW c, Circuit(c, m), NEW f \in Recipes(c.next), NEW g \in Recipes(c.next),
           NEW d, d = AddRecipe(AddRecipe(NewWires(c, 2), c.next, f), c.next + 1, g)
    PROVE  /\ Grown(c, d, m) /\ d.next = c.next + 2 /\ d.next \in Nat /\ d.next > 0
           /\ \A w : Satisfied(d, w) <=> Satisfied(c, w)
           /\ \A x \in Field : \A y \in Field : \A w \in Assignments : Satisfied(c, w) =>
                 Placed(c, d, w, x, y)
<1> DEFINE c1 == NewWires(c, 2)
           c2 == AddRecipe(c1, c.next, f)
<1>1. c.next \in Nat /\ c.next > 0 /\ c.next + 1 \in Nat /\ c.next + 2 \in Nat  BY CircuitFacts
<1>2. /\ Grown(c, c1, m) /\ c1.next = c.next + 2
      /\ \A w : Satisfied(c1, w) <=> Satisfied(c, w)
    BY NewWiresFacts
<1>3. f \in Recipes(c1.next) /\ g \in Recipes(c1.next)  BY <1>1, <1>2, RecipeMono
<1>4. Circuit(c1, m)  BY <1>2 DEF Grown
<1> HIDE DEF c1
<1>5. /\ Grown(c1, c2, m) /\ c2.next = c1.next
      /\ \A w : Satisfied(c2, w) <=> Satisfied(c1, w)
    BY <1>1, <1>3, <1>4, AddRecipeFacts
<1>6. Circuit(c2, m)  BY <1>5 DEF Grown
<1>d. d = AddRecipe(c2, c.next + 1, g)  BY DEF c1
<1> HIDE DEF c2
<1>7. /\ Grown(c2, d, m) /\ d.next = c2.next
      /\ \A w : Satisfied(d, w) <=> Satisfied(c2, w)
    BY <1>1, <1>3, <1>5, <1>6, <1>d, AddRecipeFacts
<1>8. Grown(c, d, m)  BY <1>2, <1>4, <1>5, <1>7, GrownFacts
<1>9. \A w : Satisfied(d, w) <=> Satisfied(c, w)  BY <1>2, <1>5, <1>7
<1>10. ASSUME NEW x \in Field, NEW y \in Field, NEW w \in Assignments, Satisfied(c, w)
       PROVE  Placed(c, d, w, x, y)
  <2> DEFINE h == [v \in Nat |-> IF v = c.next THEN x ELSE y]
  <2>1. h \in [Nat -> Field] /\ h[c.next] = x /\ h[c.next + 1] = y  BY <1>1
  <2> HIDE DEF h
  <2>2. PICK u \in Assignments : Agree(u, w, c.next) /\ \A v \in Nat : v >= c.next => u[v] = h[v]
    <3>1. c.next \in Nat \ {0}  BY <1>1
    <3> DEFINE n == c.next
    <3>2. n \in Nat \ {0}  BY <3>1
    <3> HIDE DEF n
    <3>3. \E u \in Assignments : Agree(u, w, n) /\ \A v \in Nat : v >= n => u[v] = h[v]
      BY <2>1, <3>2, Chosen
    <3> QED  BY <3>3 DEF n
  <2>3. u[c.next] = x /\ u[c.next + 1] = y
    <3>1. c.next >= c.next /\ c.next + 1 >= c.next  BY <1>1
    <3> QED  BY <1>1, <2>1, <2>2, <3>1
  <2>4. Satisfied(d, u)  BY <1>9, <1>10, <2>2, SatisfiedAgree
  <2> QED  BY <2>2, <2>3, <2>4 DEF Placed
<1>11. d.next = c.next + 2 /\ d.next \in Nat /\ d.next > 0  BY <1>1, <1>2, <1>5, <1>7
<1> QED  BY <1>8, <1>9, <1>10, <1>11

\* The two wires can have any values.
LEMMA NamedPlaced ==
    ASSUME NEW m \in Nat, NEW c, Circuit(c, m), NEW f \in Recipes(c.next), NEW g \in Recipes(c.next),
           NEW d, d = AddRecipe(AddRecipe(NewWires(c, 2), c.next, f), c.next + 1, g),
           NEW x \in Field, NEW y \in Field, NEW w \in Assignments, Satisfied(c, w)
    PROVE  Placed(c, d, w, x, y)
BY NamedFacts

\* The quotient of x by y exists and has n bits, as has y.
Divides(x, y, n) == y # 0 /\ y < Pow2[n] /\ x \div y < Pow2[n]

\* int_div_mod: the quotient and the remainder are forced, and exist when Divides says so.
THEOREM IntDivModFacts ==
    ASSUME NEW m \in Nat, NEW c, Circuit(c, m), NEW x \in LCs(c.next), NEW y \in LCs(c.next),
           NEW n, Wide(n), NEW e, e = IntDivMod(c, x, y, n)
    PROVE  /\ Grown(c, e.c, m) /\ e.q \in LCs(e.c.next) /\ e.r \in LCs(e.c.next)
           /\ \A w \in Assignments : Satisfied(e.c, w) =>
                 /\ Satisfied(c, w) /\ Divides(EvalLc(x, w), EvalLc(y, w), n)
                 /\ EvalLc(e.q, w) = EvalLc(x, w) \div EvalLc(y, w)
                 /\ EvalLc(e.r, w) = EvalLc(x, w) % EvalLc(y, w)
           /\ \A w \in Assignments : Satisfied(c, w) /\ Divides(EvalLc(x, w), EvalLc(y, w), n)
                 => Extendable(c, e.c, w)
<1> DEFINE q == c.next
           r == c.next + 1
           f == Recipe("intDiv", <<x, y>>)
           g == Recipe("intMod", <<x, y>>)
           c1 == AddRecipe(AddRecipe(NewWires(c, 2), q, f), r, g)
           c2 == Num2Bits(c1, Unit(q), n)
           rest == Minus(x, Unit(r))
           c3 == AddConstraint(c2, Unit(q), y, rest)
           less == LessThan(c3, Unit(r), y, n)
           d == AddConstraint(less.c, less.lc, One, One)
<1>1. e.c = d /\ e.q = Unit(q) /\ e.r = Unit(r)  BY DEF IntDivMod
<1>2. Pow2[n] < P /\ Pow2[n + 1] <= P /\ Pow2[n] <= P /\ n \in Nat /\ Pow2[n] \in Nat /\ Ranged(n)
  BY WidthFacts, Pow2Facts
<1>2k. Pow2[n] * Pow2[n] <= P  BY WidthFacts
<1>3. /\ q \in Nat /\ r \in Nat /\ q > 0 /\ r = q + 1 /\ c.next \in Nat  BY CircuitFacts
<1>4. f \in Recipes(c.next) /\ g \in Recipes(c.next)
  <2>1. "intDiv" \in RecipeOps /\ "intMod" \in RecipeOps /\ 0 \in Int  BY DEF RecipeOps
  <2> QED  BY <2>1, RecipeIntro
<1> HIDE DEF f, g
<1>5. /\ Grown(c, c1, m) /\ c1.next = c.next + 2 /\ c1.next \in Nat /\ c1.next > 0 /\ Circuit(c1, m)
      /\ \A w : Satisfied(c1, w) <=> Satisfied(c, w)
      /\ \A a \in Field : \A b \in Field : \A w \in Assignments : Satisfied(c, w) =>
            Placed(c, c1, w, a, b)
  <2>1. c1 = AddRecipe(AddRecipe(NewWires(c, 2), c.next, f), c.next + 1, g)  OBVIOUS
  <2> HIDE DEF c1
  <2>2. /\ Grown(c, c1, m) /\ c1.next = c.next + 2 /\ c1.next \in Nat /\ c1.next > 0
        /\ \A w : Satisfied(c1, w) <=> Satisfied(c, w)
        /\ \A a \in Field : \A b \in Field : \A w \in Assignments : Satisfied(c, w) =>
              Placed(c, c1, w, a, b)
    <3>1. ASSUME NEW w PROVE Satisfied(c1, w) <=> Satisfied(c, w)  BY <1>4, <2>1, NamedFacts, SMTT(40)
    <3>2. Grown(c, c1, m) /\ c1.next = c.next + 2 /\ c1.next \in Nat /\ c1.next > 0
      BY <1>4, <2>1, NamedFacts
    <3>3. \A a \in Field : \A b \in Field : \A w \in Assignments : Satisfied(c, w) =>
            Placed(c, c1, w, a, b)
      <4> SUFFICES ASSUME NEW a \in Field, NEW b \in Field, NEW w \in Assignments, Satisfied(c, w)
                   PROVE  Placed(c, c1, w, a, b)
          OBVIOUS
      <4> QED  BY <1>4, <2>1, NamedPlaced
    <3> QED  BY <3>1, <3>2, <3>3
  <2>3. Circuit(c1, m)  BY <2>2 DEF Grown
  <2> QED  BY <2>2, <2>3
<1> HIDE DEF c1
<1>6. ASSUME NEW k \in Nat, c1.next <= k
      PROVE  /\ Unit(q) \in LCs(k) /\ Unit(r) \in LCs(k) /\ x \in LCs(k) /\ y \in LCs(k) /\ rest \in LCs(k)
             /\ One \in LCs(k)
             /\ \A w \in Assignments : EvalLc(One, w) = 1
             /\ \A w \in Assignments : EvalLc(Unit(q), w) = w[q]
             /\ \A w \in Assignments : EvalLc(Unit(r), w) = w[r]
             /\ \A w \in Assignments : EvalLc(rest, w) = Plus(EvalLc(x, w), Negated(w[r]))
  <2>1. q \in 0 .. k - 1 /\ r \in 0 .. k - 1 /\ c.next <= k /\ k > 0  BY <1>3, <1>5, <1>6
  <2>2. x \in LCs(k) /\ y \in LCs(k)  BY <1>3, <2>1, LcMono
  <2> HIDE DEF q, r
  <2>3. /\ One \in LCs(k) /\ Unit(q) \in LCs(k) /\ Unit(r) \in LCs(k)
        /\ \A w \in Assignments : EvalLc(One, w) = 1
        /\ \A w \in Assignments : EvalLc(Unit(q), w) = w[q]
        /\ \A w \in Assignments : EvalLc(Unit(r), w) = w[r]
      BY <2>1, UnitFacts, OneFacts
  <2>4. /\ rest \in LCs(k)
        /\ \A w \in Assignments : EvalLc(rest, w) = Plus(EvalLc(x, w), Negated(EvalLc(Unit(r), w)))
      BY <2>2, <2>3, MinusFacts
  <2> QED  BY <2>2, <2>3, <2>4
<1>7. /\ Grown(c1, c2, m) /\ Circuit(c2, m) /\ c2.next \in Nat /\ c1.next <= c2.next
      /\ \A w \in Assignments : Satisfied(c2, w) => Satisfied(c1, w) /\ w[q] < Pow2[n]
      /\ \A w \in Assignments : Satisfied(c1, w) /\ w[q] < Pow2[n] => Extendable(c1, c2, w)
  <2>1. Unit(q) \in LCs(c1.next) /\ \A w \in Assignments : EvalLc(Unit(q), w) = w[q]
    BY <1>5, <1>6
  <2>2. /\ Grown(c1, c2, m) /\ c2.next = c1.next + n
        /\ \A w \in Assignments : Satisfied(c2, w) <=>
              Satisfied(c1, w) /\ Decomposed(w, c1.next, n, EvalLc(Unit(q), w))
        /\ \A w \in Assignments : Satisfied(c1, w) /\ EvalLc(Unit(q), w) < Pow2[n]
              => Extendable(c1, c2, w)
      BY <1>2, <1>5, <2>1, Num2BitsFacts
  <2>3. Circuit(c2, m) /\ c2.next \in Nat /\ c1.next <= c2.next  BY <1>2, <1>5, <2>2 DEF Grown
  <2> HIDE DEF c2, q
  <2> QED  BY <2>1, <2>2, <2>3 DEF Decomposed
<1> HIDE DEF c2
<1>8. /\ Grown(c2, c3, m) /\ Circuit(c3, m) /\ c3.next = c2.next /\ c3.next \in Nat /\ c1.next <= c3.next
      /\ \A w \in Assignments : Satisfied(c3, w) <=>
            Satisfied(c2, w) /\ Times(w[q], EvalLc(y, w)) = Plus(EvalLc(x, w), Negated(w[r]))
  <2>1. /\ Unit(q) \in LCs(c2.next) /\ y \in LCs(c2.next) /\ rest \in LCs(c2.next)
        /\ \A w \in Assignments : EvalLc(Unit(q), w) = w[q]
        /\ \A w \in Assignments : EvalLc(rest, w) = Plus(EvalLc(x, w), Negated(w[r]))
      BY <1>6, <1>7
  <2> HIDE DEF rest, q, r
  <2>2. /\ Grown(c2, c3, m) /\ c3.next = c2.next
        /\ \A w : Satisfied(c3, w) <=>
              Satisfied(c2, w) /\ Times(EvalLc(Unit(q), w), EvalLc(y, w)) = EvalLc(rest, w)
    <3> DEFINE u == Unit(q)
    <3>1. /\ Circuit(c2, m) /\ u \in LCs(c2.next) /\ y \in LCs(c2.next) /\ rest \in LCs(c2.next)
      BY <1>7, <2>1
    <3> HIDE DEF u
    <3>2. c3 = AddConstraint(c2, u, y, rest)  BY DEF u
    <3> HIDE DEF c3
    <3>a. Added(c2, c3, m, u, y, rest)  BY <3>1, <3>2, AddedFacts
    <3>3. Grown(c2, c3, m) /\ c3.next = c2.next  BY <3>a DEF Added
    <3>4. \A w : Satisfied(c3, w) <=>
            Satisfied(c2, w) /\ Times(EvalLc(u, w), EvalLc(y, w)) = EvalLc(rest, w)
        BY <3>a DEF Added
    <3> QED  BY <3>3, <3>4 DEF u
  <2> HIDE DEF c3
  <2>3. Circuit(c3, m)  BY <2>2 DEF Grown
  <2> QED  BY <1>7, <2>1, <2>2, <2>3
<1> HIDE DEF c3
<1>9. /\ Grown(c3, less.c, m) /\ Circuit(less.c, m) /\ less.lc \in LCs(less.c.next)
      /\ less.c.next \in Nat /\ c3.next <= less.c.next
      /\ \A w \in Assignments : Satisfied(less.c, w) =>
            /\ Satisfied(c3, w) /\ w[r] < Pow2[n] /\ EvalLc(y, w) < Pow2[n]
            /\ EvalLc(less.lc, w) = Truth(w[r] < EvalLc(y, w))
      /\ \A w \in Assignments :
            Satisfied(c3, w) /\ w[r] < Pow2[n] /\ EvalLc(y, w) < Pow2[n] => Extendable(c3, less.c, w)
  <2>1. /\ Unit(r) \in LCs(c3.next) /\ y \in LCs(c3.next)
        /\ \A w \in Assignments : EvalLc(Unit(r), w) = w[r]
      BY <1>6, <1>8
  <2>l. less = LessThan(c3, Unit(r), y, n)  OBVIOUS
  <2> HIDE DEF r, less
  <2>2. /\ Grown(c3, less.c, m) /\ less.lc \in LCs(less.c.next)
        /\ \A w \in Assignments : Satisfied(less.c, w) =>
              /\ Satisfied(c3, w) /\ EvalLc(Unit(r), w) < Pow2[n] /\ EvalLc(y, w) < Pow2[n]
              /\ EvalLc(less.lc, w) = Truth(EvalLc(Unit(r), w) < EvalLc(y, w))
        /\ \A w \in Assignments :
              Satisfied(c3, w) /\ EvalLc(Unit(r), w) < Pow2[n] /\ EvalLc(y, w) < Pow2[n]
              => Extendable(c3, less.c, w)
    <3> DEFINE u == Unit(r)
    <3>1. /\ Circuit(c3, m) /\ u \in LCs(c3.next) /\ y \in LCs(c3.next) /\ less = LessThan(c3, u, y, n)
          /\ Ranged(n)
        BY <1>2, <1>8, <2>l, <2>1
    <3> HIDE DEF u
    <3>2. /\ Grown(c3, less.c, m) /\ less.lc \in LCs(less.c.next)
          /\ \A w \in Assignments : Satisfied(less.c, w) => Compared(c3, less, u, y, n, w)
          /\ \A w \in Assignments :
                Satisfied(c3, w) /\ Below(u, y, n, w) => Extendable(c3, less.c, w)
        BY <3>1, LessThanFacts
    <3>3. \A w \in Assignments : Satisfied(less.c, w) =>
            /\ Satisfied(c3, w) /\ EvalLc(u, w) < Pow2[n] /\ EvalLc(y, w) < Pow2[n]
            /\ EvalLc(less.lc, w) = Truth(EvalLc(u, w) < EvalLc(y, w))
        BY <3>2 DEF Compared, Below
    <3>4. \A w \in Assignments :
            Satisfied(c3, w) /\ EvalLc(u, w) < Pow2[n] /\ EvalLc(y, w) < Pow2[n]
            => Extendable(c3, less.c, w)
        BY <3>2 DEF Below
    <3> QED  BY <3>2, <3>3, <3>4 DEF u
  <2>3. Circuit(less.c, m) /\ c3.next <= less.c.next  BY <2>2 DEF Grown
  <2>4. less.c.next \in Nat  BY <2>3, CircuitFacts
  <2> QED  BY <2>1, <2>2, <2>3, <2>4
<1> HIDE DEF less
<1>10. /\ Grown(less.c, d, m) /\ Circuit(d, m) /\ d.next = less.c.next
       /\ \A w \in Assignments : Satisfied(d, w) <=> Satisfied(less.c, w) /\ EvalLc(less.lc, w) = 1
  <2>0. c1.next <= less.c.next  BY <1>5, <1>8, <1>9
  <2>1. One \in LCs(less.c.next) /\ \A w \in Assignments : EvalLc(One, w) = 1  BY <1>6, <1>9, <2>0
  <2>2. /\ Grown(less.c, d, m) /\ d.next = less.c.next
        /\ \A w : Satisfied(d, w) <=>
              Satisfied(less.c, w) /\ Times(EvalLc(less.lc, w), EvalLc(One, w)) = EvalLc(One, w)
    <3> DEFINE l == less.c
               k == less.lc
               o == One
    <3>1. Circuit(l, m) /\ k \in LCs(l.next) /\ o \in LCs(l.next)  BY <1>9, <2>1
    <3> HIDE DEF l, k, o
    <3>2. /\ Grown(l, AddConstraint(l, k, o, o), m) /\ AddConstraint(l, k, o, o).next = l.next
          /\ \A w : Satisfied(AddConstraint(l, k, o, o), w) <=>
                Satisfied(l, w) /\ Times(EvalLc(k, w), EvalLc(o, w)) = EvalLc(o, w)
      <4>1. Added(l, AddConstraint(l, k, o, o), m, k, o, o)  BY <3>1, AddedFacts
      <4> QED  BY <4>1 DEF Added
    <3> QED  BY <3>2 DEF l, k, o
  <2>3. \A w \in Assignments : Times(EvalLc(less.lc, w), 1) = EvalLc(less.lc, w)
    BY <1>9, EvalType, FieldOps, FieldRing
  <2> HIDE DEF d
  <2>4. Circuit(d, m)  BY <2>2 DEF Grown
  <2> QED  BY <2>1, <2>2, <2>3, <2>4
<1> HIDE DEF d
<1>11. Grown(c, c2, m) /\ Grown(c, c3, m) /\ Grown(c3, d, m) /\ Grown(c, d, m)
  <2>1. Grown(c, c2, m)  BY <1>5, <1>7, GrownFacts
  <2>2. Grown(c, c3, m)  BY <1>8, <2>1, GrownFacts
  <2>3. Grown(c3, d, m)  BY <1>8, <1>9, <1>10, GrownFacts
  <2>4. Grown(c, d, m)  BY <2>2, <2>3, GrownFacts
  <2> QED  BY <2>1, <2>2, <2>3, <2>4
<1>12. Unit(q) \in LCs(d.next) /\ Unit(r) \in LCs(d.next)
  <2>1. c1.next <= d.next /\ d.next \in Nat  BY <1>5, <1>8, <1>9, <1>10
  <2> QED  BY <1>6, <2>1
<1>13. \A w \in Assignments : EvalLc(Unit(q), w) = w[q] /\ EvalLc(Unit(r), w) = w[r]
  BY <1>5, <1>6
<1>14. \A w \in Assignments : /\ w[q] \in Field /\ w[r] \in Field
                              /\ EvalLc(x, w) \in Field /\ EvalLc(y, w) \in Field
    BY <1>3, AssignmentFacts, EvalType
<1>15. \A a \in Field : a \in Nat /\ a \in Int /\ a < P  BY FieldMod
<1>16. \A a, b \in Field : b # 0 => /\ a \div b \in Nat /\ a % b \in Nat /\ a % b < b
                                   /\ a = (a \div b) * b + (a % b)
                                   /\ a \div b \in Field /\ a % b \in Field
  <2> SUFFICES ASSUME NEW a \in Field, NEW b \in Field, b # 0
               PROVE  /\ a \div b \in Nat /\ a % b \in Nat /\ a % b < b
                      /\ a = (a \div b) * b + (a % b)
                      /\ a \div b \in Field /\ a % b \in Field
      OBVIOUS
  <2> DEFINE s == a \div b
             t == a % b
  <2>1. a \in Nat /\ a \in Int /\ b \in Nat \ {0} /\ a < P /\ b < P /\ P \in Nat
    BY <1>15, Modulus
  <2>2. s \in Int /\ t \in 0 .. b - 1 /\ a = b * s + t  BY <2>1, Division
  <2> HIDE DEF s, t
  <2>3. s >= 0
    <3> SUFFICES ASSUME s < 0 PROVE FALSE  BY <2>2
    <3>1. PICK j \in Nat : s = 0 - (j + 1)
      <4>1. 0 - s - 1 \in Nat /\ s = 0 - ((0 - s - 1) + 1)  BY <2>2
      <4> QED  BY <4>1
    <3>2. b * s = 0 - (b * j) - b /\ b * j \in Nat  BY <2>1, <3>1
    <3> QED  BY <2>1, <2>2, <3>2
  <2>4. s <= a
    <3>1. s \in Nat /\ 1 * s <= b * s
      <4>1. s \in Nat /\ 1 \in Nat /\ b \in Nat /\ 1 <= b  BY <2>1, <2>2, <2>3
      <4> QED  BY <4>1, ProductMono
    <3>2. 1 * s = s /\ b * s \in Nat  BY <2>1, <3>1
    <3> QED  BY <2>1, <2>2, <3>1, <3>2
  <2>5. s \in Nat /\ t \in Nat /\ t < b /\ s < P /\ t < P /\ b * s = s * b
    BY <2>1, <2>2, <2>3, <2>4
  <2> QED  BY <2>1, <2>2, <2>5 DEF s, t, Field
<1> HIDE DEF q, r
<1>17. ASSUME NEW w \in Assignments, Satisfied(d, w)
       PROVE  /\ Satisfied(c, w) /\ Divides(EvalLc(x, w), EvalLc(y, w), n)
              /\ w[q] = EvalLc(x, w) \div EvalLc(y, w) /\ w[r] = EvalLc(x, w) % EvalLc(y, w)
  <2> DEFINE X == EvalLc(x, w)
             Y == EvalLc(y, w)
  <2>1. Satisfied(less.c, w) /\ EvalLc(less.lc, w) = 1  BY <1>10, <1>17
  <2>2. /\ Satisfied(c3, w) /\ w[r] < Pow2[n] /\ Y < Pow2[n] /\ Truth(w[r] < Y) = 1  BY <1>9, <2>1
  <2>3. Satisfied(c2, w) /\ Times(w[q], Y) = Plus(X, Negated(w[r]))  BY <1>8, <2>2
  <2>4. Satisfied(c1, w) /\ w[q] < Pow2[n]  BY <1>7, <2>3
  <2>5. Satisfied(c, w)  BY <1>5, <2>4
  <2>6. X \in Field /\ Y \in Field /\ w[q] \in Field /\ w[r] \in Field  BY <1>14
  <2> HIDE DEF X, Y
  <2>7. w[r] < Y  BY <2>2 DEF Truth
  <2>8. X = w[q] * Y + w[r]  BY <1>2k, <1>2, <2>2, <2>3, <2>4, <2>6, <2>7, ExactDivision
  <2> DEFINE Q == w[q]
             Rem == w[r]
  <2>9. Q \in Int /\ Rem \in Int /\ 0 <= Rem /\ Rem < Y /\ Y \in Nat /\ X \in Int /\ X = Q * Y + Rem /\ Q < Pow2[n]
    BY <1>15, <2>4, <2>6, <2>7, <2>8, FieldMod
  <2> HIDE DEF Q, Rem
  <2>10. Y \in Nat \ {0} /\ Rem \in 0 .. Y - 1 /\ X = Y * Q + Rem  BY <2>9
  <2>11. X \div Y = Q /\ X % Y = Rem  BY <2>9, <2>10, DivisionUnique
  <2> QED  BY <2>2, <2>5, <2>9, <2>10, <2>11 DEF Divides, X, Y, Q, Rem
<1>18. ASSUME NEW w \in Assignments, Satisfied(c, w), Divides(EvalLc(x, w), EvalLc(y, w), n)
       PROVE  Extendable(c, d, w)
  <2> DEFINE X == EvalLc(x, w)
             Y == EvalLc(y, w)
             Q == X \div Y
             Rem == X % Y
  <2>1. Y # 0 /\ Y < Pow2[n] /\ Q < Pow2[n] /\ X \in Field /\ Y \in Field
    BY <1>14, <1>18 DEF Divides
  <2> HIDE DEF X, Y
  <2>2. Q \in Nat /\ Rem \in Nat /\ Rem < Y /\ X = Q * Y + Rem /\ Q \in Field /\ Rem \in Field
    BY <1>16, <2>1
  <2> HIDE DEF Q, Rem
  <2>3. Times(Q, Y) = Plus(X, Negated(Rem))  BY <1>2k, <1>2, <2>1, <2>2, ExactDivision
  <2>4. Placed(c, c1, w, Q, Rem)  BY <1>5, <1>18, <2>2
  <2>5. PICK u \in Assignments : Agree(u, w, c.next) /\ Satisfied(c1, u) /\ u[q] = Q /\ u[r] = Rem
    BY <2>4 DEF Placed, q, r
  <2>6. PICK v \in Assignments : Agree(v, u, c1.next) /\ Satisfied(c2, v)
    BY <1>7, <2>1, <2>5 DEF Extendable
  <2>7. Agree(v, w, c.next) /\ v[q] = Q /\ v[r] = Rem
    <3>1. c.next <= c1.next /\ q \in 0 .. c1.next - 1 /\ r \in 0 .. c1.next - 1
      BY <1>3, <1>5 DEF q, r
    <3>2. Agree(v, w, c.next)  BY <1>3, <1>5, <2>5, <2>6, <3>1, AgreeFacts
    <3>3. v[q] = u[q] /\ v[r] = u[r]  BY <2>6, <3>1 DEF Agree
    <3> QED  BY <2>5, <3>2, <3>3
  <2>8. EvalLc(x, v) = X /\ EvalLc(y, v) = Y  BY <1>3, <2>7, EvalAgree DEF X, Y
  <2>9. Satisfied(c3, v)  BY <1>8, <2>3, <2>6, <2>7, <2>8
  <2>10. Rem < Pow2[n]  BY <1>2, <1>15, <2>1, <2>2
  <2>11. PICK z \in Assignments : Agree(z, v, c3.next) /\ Satisfied(less.c, z)
    BY <1>9, <2>1, <2>7, <2>8, <2>9, <2>10 DEF Extendable
  <2>12. Agree(z, w, c.next) /\ z[r] = Rem /\ EvalLc(y, z) = Y
    <3>1. c.next <= c3.next /\ r \in 0 .. c3.next - 1  BY <1>3, <1>5, <1>8 DEF q, r
    <3>2. Agree(z, w, c.next)  BY <1>3, <1>8, <2>7, <2>11, <3>1, AgreeFacts
    <3>3. z[r] = v[r]  BY <2>11, <3>1 DEF Agree
    <3>4. EvalLc(y, z) = Y  BY <1>3, <3>2, EvalAgree DEF Y
    <3> QED  BY <2>7, <3>2, <3>3, <3>4
  <2>13. EvalLc(less.lc, z) = 1  BY <1>9, <2>2, <2>11, <2>12 DEF Truth
  <2>14. Satisfied(d, z)  BY <1>10, <2>11, <2>13
  <2> QED  BY <2>12, <2>14 DEF Extendable
<1> HIDE DEF d
<1>19. \A w \in Assignments : Satisfied(d, w) =>
          /\ Satisfied(c, w) /\ Divides(EvalLc(x, w), EvalLc(y, w), n)
          /\ EvalLc(Unit(q), w) = EvalLc(x, w) \div EvalLc(y, w)
          /\ EvalLc(Unit(r), w) = EvalLc(x, w) % EvalLc(y, w)
    BY <1>13, <1>17
<1> QED  BY <1>1, <1>11, <1>12, <1>18, <1>19

-----------------------------------------------------------------------------
(***************************************************************************)
(* Lowering.  F gives the value of a statement for every assignment of the *)
(* wires before it, or refuses; a circuit lowers the statement when its    *)
(* models are the models before it that F does not refuse, extended, and   *)
(* lc has the value of F in them.                                          *)
(***************************************************************************)

\* A model of d is one of c, on which F has a value, the value of lc.
Sound(c, d, lc, F) ==
    \A w \in Assignments : Satisfied(d, w) => Satisfied(c, w) /\ F[w] # Refused /\ EvalLc(lc, w) = F[w]

\* Every model of c on which F has a value extends to one of d.
Complete(c, d, F) ==
    \A w \in Assignments : Satisfied(c, w) /\ F[w] # Refused => Extendable(c, d, w)

\* The circuit d, with the value lc, lowers a statement whose value is F: no more is accepted
\* and no less.
Lowers(c, d, lc, m, F) ==
    Grown(c, d, m) /\ lc \in LCs(d.next) /\ Sound(c, d, lc, F) /\ Complete(c, d, F)

\* F depends on the wires below n only.
Local(F, n) == \A u, w \in Assignments : Agree(u, w, n) => F[u] = F[w]

\* Refused is no number.
LEMMA RefusedFacts ==
    /\ Refused \notin Field /\ \A a \in Field : a # Refused
    /\ Refused \notin {0, 1}
    /\ \A a \in Nat : a # Refused
<1>1. Refused = 0 - 1  BY DEF Refused
<1>2. \A a \in Field : a \in Nat  BY FieldMod
<1> QED  BY <1>1, <1>2

\* An assignment extends itself.
LEMMA ExtendSame ==
    ASSUME NEW c, NEW d, NEW w \in Assignments, Satisfied(d, w)
    PROVE  Extendable(c, d, w)
<1>1. Agree(w, w, c.next)  BY DEF Agree
<1> QED  BY <1>1 DEF Extendable

\* A circuit has grown by nothing.
LEMMA GrownSelf ==
    ASSUME NEW m \in Nat, NEW c, Circuit(c, m)
    PROVE  Grown(c, c, m)
BY CircuitFacts DEF Grown

\* A linear combination of old wires needs no constraint.
LEMMA PureLowers ==
    ASSUME NEW m \in Nat, NEW c, Circuit(c, m), NEW lc \in LCs(c.next),
           NEW F, \A w \in Assignments : Satisfied(c, w) => F[w] = EvalLc(lc, w)
    PROVE  Lowers(c, c, lc, m, F)
<1>1. c.next \in Nat  BY CircuitFacts
<1>2. \A w \in Assignments : EvalLc(lc, w) # Refused  BY <1>1, EvalType, RefusedFacts
<1>3. Sound(c, c, lc, F)  BY <1>2 DEF Sound
<1>4. Complete(c, c, F)  BY ExtendSame DEF Complete
<1> QED  BY <1>3, <1>4, GrownSelf DEF Lowers

\* Gadgets in sequence.
LEMMA ThenLowers ==
    ASSUME NEW m \in Nat, NEW c, Circuit(c, m), NEW d, NEW e, NEW f, NEW g, NEW F, NEW G, NEW H,
           Lowers(c, d, f, m, F), Lowers(d, e, g, m, G),
           \A w \in Assignments : Satisfied(d, w) => G[w] = H[w],
           \A w \in Assignments : H[w] # Refused => F[w] # Refused,
           Local(H, c.next)
    PROVE  Lowers(c, e, g, m, H)
<1>1. Grown(c, d, m) /\ Grown(d, e, m) /\ Sound(c, d, f, F) /\ Sound(d, e, g, G)
      /\ Complete(c, d, F) /\ Complete(d, e, G) /\ g \in LCs(e.next)
    BY DEF Lowers
<1>2. Grown(c, e, m)  BY <1>1, GrownFacts
<1>3. Sound(c, e, g, H)
  <2> SUFFICES ASSUME NEW w \in Assignments, Satisfied(e, w)
               PROVE  Satisfied(c, w) /\ H[w] # Refused /\ EvalLc(g, w) = H[w]
      BY DEF Sound
  <2>1. Satisfied(d, w) /\ G[w] # Refused /\ EvalLc(g, w) = G[w]  BY <1>1 DEF Sound
  <2>2. Satisfied(c, w)  BY <1>1, <2>1 DEF Sound
  <2> QED  BY <2>1, <2>2
<1>4. Complete(c, e, H)
  <2> SUFFICES ASSUME NEW w \in Assignments, Satisfied(c, w), H[w] # Refused
               PROVE  Extendable(c, e, w)
      BY DEF Complete
  <2>1. Extendable(c, d, w)  BY <1>1 DEF Complete
  <2>2. PICK u \in Assignments : Agree(u, w, c.next) /\ Satisfied(d, u)  BY <2>1 DEF Extendable
  <2>3. H[u] = H[w]  BY <2>2 DEF Local
  <2>4. Extendable(d, e, u)  BY <1>1, <2>2, <2>3 DEF Complete
  <2> QED  BY <1>1, <2>2, <2>4, ExtendMore
<1> QED  BY <1>1, <1>2, <1>3, <1>4 DEF Lowers

\* What a lowering gives the caller.
LEMMA LowersFacts ==
    ASSUME NEW m \in Nat, NEW c, Circuit(c, m), NEW d, NEW f, NEW F, Lowers(c, d, f, m, F)
    PROVE  /\ Circuit(d, m) /\ d.next \in Nat /\ c.next \in Nat /\ c.next <= d.next
           /\ f \in LCs(d.next) /\ d.inputs = c.inputs /\ d.out = c.out
           /\ \A g \in LCs(c.next) : g \in LCs(d.next)
           /\ \A w \in Assignments : Satisfied(d, w) =>
                 Satisfied(c, w) /\ F[w] # Refused /\ EvalLc(f, w) = F[w]
<1>1. Grown(c, d, m) /\ f \in LCs(d.next) /\ Sound(c, d, f, F)  BY DEF Lowers
<1>2. Circuit(d, m) /\ c.next <= d.next /\ d.inputs = c.inputs /\ d.out = c.out  BY <1>1 DEF Grown
<1>3. c.next \in Nat /\ d.next \in Nat  BY <1>2, CircuitFacts
<1>4. \A g \in LCs(c.next) : g \in LCs(d.next)  BY <1>2, <1>3, LcMono
<1>5. \A w \in Assignments : Satisfied(d, w) =>
         Satisfied(c, w) /\ F[w] # Refused /\ EvalLc(f, w) = F[w]
    BY <1>1 DEF Sound
<1> QED  BY <1>1, <1>2, <1>3, <1>4, <1>5

\* The constraint x * y = z determines the wire n, as F.
Determined(x, y, z, n, F) ==
    \A w \in Assignments : Times(EvalLc(x, w), EvalLc(y, w)) = EvalLc(z, w) <=> w[n] = F[w]

\* A gadget that adds one wire and the constraint that determines it.
LEMMA OneWireLowers ==
    ASSUME NEW m \in Nat, NEW c, Circuit(c, m), NEW d,
           NEW x \in LCs(c.next + 1), NEW y \in LCs(c.next + 1), NEW z \in LCs(c.next + 1),
           d = AddConstraint(NewWires(c, 1), x, y, z),
           NEW F, \A w \in Assignments : F[w] \in Field, Local(F, c.next),
           Determined(x, y, z, c.next, F)
    PROVE  Lowers(c, d, Unit(c.next), m, F) /\ d.next = c.next + 1
<1> DEFINE n == c.next
           c1 == NewWires(c, 1)
<1>1. n \in Nat \ {0} /\ n \in Nat /\ n + 1 \in Nat /\ n \in 0 .. (n + 1) - 1  BY CircuitFacts
<1>2. /\ Grown(c, c1, m) /\ c1.next = n + 1
      /\ \A w : Satisfied(c1, w) <=> Satisfied(c, w)
    BY NewWiresFacts
<1>3. Circuit(c1, m)  BY <1>2 DEF Grown
<1>d. d = AddConstraint(c1, x, y, z)  OBVIOUS
<1> HIDE DEF c1
<1>x. x \in LCs(c1.next) /\ y \in LCs(c1.next) /\ z \in LCs(c1.next)  BY <1>2
<1>a. Added(c1, d, m, x, y, z)  BY <1>x, <1>3, <1>d, AddedFacts
<1>4. Grown(c1, d, m) /\ d.next = c1.next  BY <1>a DEF Added
<1>5. \A w : Satisfied(d, w) <=>
          Satisfied(c1, w) /\ Times(EvalLc(x, w), EvalLc(y, w)) = EvalLc(z, w)
    BY <1>a DEF Added
<1>6. Grown(c, d, m)  BY <1>2, <1>4, GrownFacts
<1>7. Unit(n) \in LCs(d.next) /\ \A w \in Assignments : EvalLc(Unit(n), w) = w[n]
  <2> HIDE DEF n
  <2>1. Unit(n) \in LCs(n + 1) /\ \A w \in Assignments : EvalLc(Unit(n), w) = w[n]
    BY <1>1, UnitFacts
  <2> QED  BY <1>2, <1>4, <2>1
<1>8. \A w \in Assignments : Satisfied(d, w) <=> Satisfied(c, w) /\ w[n] = F[w]
  BY <1>2, <1>5 DEF Determined
<1>9. Sound(c, d, Unit(n), F)
  <2>1. \A w \in Assignments : F[w] # Refused  BY RefusedFacts
  <2> HIDE DEF n
  <2> QED  BY <1>7, <1>8, <2>1 DEF Sound
<1>10. Complete(c, d, F)
  <2> SUFFICES ASSUME NEW w \in Assignments, Satisfied(c, w), F[w] # Refused
               PROVE  Extendable(c, d, w)
      BY DEF Complete
  <2> DEFINE g == [v \in Nat |-> F[w]]
  <2>1. g \in [Nat -> Field] /\ g[n] = F[w]  BY <1>1
  <2> HIDE DEF g, n
  <2>2. PICK u \in Assignments : Agree(u, w, n) /\ \A v \in Nat : v >= n => u[v] = g[v]
    BY <1>1, <2>1, Chosen
  <2>3. u[n] = F[w] /\ F[u] = F[w]
    <3>1. n >= n  BY <1>1
    <3>2. u[n] = F[w]  BY <1>1, <2>1, <2>2, <3>1
    <3>3. F[u] = F[w]  BY <2>2 DEF Local, n
    <3> QED  BY <3>2, <3>3
  <2>4. Satisfied(c, u)  BY <2>2, SatisfiedAgree DEF n
  <2>5. Satisfied(d, u)  BY <1>8, <2>3, <2>4
  <2> QED  BY <2>2, <2>5 DEF Extendable, n
<1> QED  BY <1>2, <1>4, <1>6, <1>7, <1>9, <1>10 DEF Lowers

-----------------------------------------------------------------------------
(***************************************************************************)
(* Products, boolean checks and multiplexers.                              *)
(***************************************************************************)

\* Another linear combination with the same circuit.
LEMMA RelabelLowers ==
    ASSUME NEW m \in Nat, NEW c, NEW d, NEW f, NEW F, Lowers(c, d, f, m, F),
           NEW g \in LCs(d.next), NEW G,
           \A w \in Assignments : Satisfied(d, w) => EvalLc(g, w) = G[w],
           \A w \in Assignments : G[w] # Refused <=> F[w] # Refused
    PROVE  Lowers(c, d, g, m, G)
<1>1. Grown(c, d, m) /\ Sound(c, d, f, F) /\ Complete(c, d, F)  BY DEF Lowers
<1>2. Sound(c, d, g, G)  BY <1>1 DEF Sound
<1>3. Complete(c, d, G)  BY <1>1 DEF Complete
<1> QED  BY <1>1, <1>2, <1>3 DEF Lowers

\* mul_lc.
LEMMA MulLcLowers ==
    ASSUME NEW m \in Nat, NEW c, Circuit(c, m), NEW x \in LCs(c.next), NEW y \in LCs(c.next),
           NEW F, \A w \in Assignments : F[w] = Times(EvalLc(x, w), EvalLc(y, w))
    PROVE  Lowers(c, MulLc(c, x, y).c, MulLc(c, x, y).lc, m, F)
<1> DEFINE n == c.next
           N == n + 1
           u == Unit(n)
           d == AddConstraint(NewWires(c, 1), x, y, u)
<1>1. n \in Nat /\ N \in Nat /\ n <= N /\ n \in 0 .. N - 1  BY CircuitFacts
<1>2. MulLc(c, x, y).c = d /\ MulLc(c, x, y).lc = u  BY DEF MulLc
<1>3. x \in LCs(n) /\ y \in LCs(n)  OBVIOUS
<1>4. u \in LCs(N) /\ \A w \in Assignments : EvalLc(u, w) = w[n]
  <2> HIDE DEF n, N
  <2> QED  BY <1>1, UnitFacts
<1>5. x \in LCs(N) /\ y \in LCs(N)
  <2> HIDE DEF n, N
  <2> QED  BY <1>1, <1>3, LcMono
<1>6. \A w \in Assignments : EvalLc(x, w) \in Field /\ EvalLc(y, w) \in Field /\ F[w] \in Field
  BY <1>1, EvalType, FieldOps
<1>7. Local(F, n)
  <2> SUFFICES ASSUME NEW a \in Assignments, NEW w \in Assignments, Agree(a, w, n)
               PROVE  F[a] = F[w]
      BY DEF Local
  <2>1. EvalLc(x, a) = EvalLc(x, w) /\ EvalLc(y, a) = EvalLc(y, w)  BY <1>1, EvalAgree
  <2> QED  BY <2>1
<1> HIDE DEF u
<1>8. Determined(x, y, u, c.next, F)  BY <1>4 DEF Determined
<1>9. Lowers(c, d, Unit(c.next), m, F)
  <2>1. x \in LCs(c.next + 1) /\ y \in LCs(c.next + 1) /\ u \in LCs(c.next + 1)  BY <1>4, <1>5
  <2>2. d = AddConstraint(NewWires(c, 1), x, y, u)  OBVIOUS
  <2> HIDE DEF d
  <2> QED  BY <1>6, <1>7, <1>8, <2>1, <2>2, OneWireLowers
<1> QED  BY <1>2, <1>9 DEF u

\* constrain_boolean: it refuses what is not a bit.
LEMMA BooleanLowers ==
    ASSUME NEW m \in Nat, NEW c, Circuit(c, m), NEW x \in LCs(c.next),
           NEW F, \A w \in Assignments : F[w] = IF EvalLc(x, w) \in {0, 1} THEN 0 ELSE Refused
    PROVE  /\ Lowers(c, ConstrainBoolean(c, x), Zero, m, F)
           /\ ConstrainBoolean(c, x).next = c.next
<1> DEFINE d == ConstrainBoolean(c, x)
<1>1. Added(c, d, m, x, x, x)  BY AddedFacts DEF ConstrainBoolean
<1> HIDE DEF d
<1>2. c.next \in Nat  BY CircuitFacts
<1>3. /\ Grown(c, d, m) /\ d.next = c.next
      /\ \A w : Satisfied(d, w) <=> Satisfied(c, w) /\ Times(EvalLc(x, w), EvalLc(x, w)) = EvalLc(x, w)
    BY <1>1 DEF Added
<1>4. \A w \in Assignments : Satisfied(d, w) <=> Satisfied(c, w) /\ EvalLc(x, w) \in {0, 1}
  <2>1. \A w \in Assignments : EvalLc(x, w) \in Field  BY <1>2, EvalType
  <2>2. \A w \in Assignments : Times(EvalLc(x, w), EvalLc(x, w)) = EvalLc(x, w) <=> EvalLc(x, w) \in {0, 1}
    BY <2>1, BooleanValue
  <2> QED  BY <1>3, <2>2
<1>5. Zero \in LCs(d.next) /\ \A w : EvalLc(Zero, w) = 0  BY <1>2, <1>3, ZeroType, EvalZero
<1>6. 0 # Refused  BY RefusedFacts
<1>7. Sound(c, d, Zero, F)  BY <1>4, <1>5, <1>6 DEF Sound
<1>8. Complete(c, d, F)  BY <1>4, ExtendSame DEF Complete
<1> QED  BY <1>3, <1>5, <1>7, <1>8 DEF Lowers, d

\* Subtraction undoes addition.
LEMMA FieldMinus ==
    ASSUME NEW a \in Field, NEW b \in Field, NEW t \in Field
    PROVE  t = Plus(a, Negated(b)) <=> a = Plus(b, t)
<1> DEFINE k == Negated(b)
<1>1. k \in Field /\ Plus(b, k) = 0 /\ Plus(k, b) = 0  BY FieldOps, FieldRing
<1> HIDE DEF k
<1>2. ASSUME t = Plus(a, k) PROVE a = Plus(b, t)
  <2>1. Plus(b, t) = Plus(t, b) /\ Plus(Plus(a, k), b) = Plus(a, Plus(k, b)) /\ Plus(a, 0) = a
    BY <1>1, FieldRing
  <2> QED  BY <1>1, <1>2, <2>1
<1>3. ASSUME a = Plus(b, t) PROVE t = Plus(a, k)
  <2>1. Plus(b, t) = Plus(t, b) /\ Plus(Plus(t, b), k) = Plus(t, Plus(b, k)) /\ Plus(t, 0) = t
    BY <1>1, FieldRing
  <2> QED  BY <1>1, <1>3, <2>1
<1> QED  BY <1>2, <1>3 DEF k

\* What a multiplexer computes from its selector, whatever its value is.
Selection(s, x, y) == Plus(y, Times(s, Plus(x, Negated(y))))

\* With a bit as its selector it chooses.
LEMMA SelectionFacts ==
    ASSUME NEW s \in Field, NEW x \in Field, NEW y \in Field
    PROVE  /\ Selection(s, x, y) \in Field
           /\ s = 1 => Selection(s, x, y) = x
           /\ s = 0 => Selection(s, x, y) = y
           /\ s \in {0, 1} => Selection(s, x, y) = IF s = 1 THEN x ELSE y
           /\ Plus(x, Negated(y)) = 0 => Selection(s, x, y) = x /\ x = y
<1> DEFINE t == Plus(x, Negated(y))
<1>1. t \in Field /\ Times(s, t) \in Field /\ Selection(s, x, y) = Plus(y, Times(s, t))
  BY FieldOps DEF Selection
<1>2. x = Plus(y, t)  BY <1>1, FieldMinus
<1> HIDE DEF t
<1>3. Times(1, t) = t /\ Times(0, t) = 0 /\ Plus(y, 0) = y /\ Times(s, 0) = 0  BY <1>1, FieldRing
<1>4. Selection(s, x, y) \in Field  BY <1>1, FieldOps
<1>5. s = 1 => Selection(s, x, y) = x  BY <1>1, <1>2, <1>3
<1>6. s = 0 => Selection(s, x, y) = y  BY <1>1, <1>3
<1>7. t = 0 => Selection(s, x, y) = x /\ x = y  BY <1>1, <1>2, <1>3
<1> QED  BY <1>4, <1>5, <1>6, <1>7 DEF t

\* Select, the multiplexer.
LEMMA SelectLowers ==
    ASSUME NEW m \in Nat, NEW c, Circuit(c, m),
           NEW s \in LCs(c.next), NEW x \in LCs(c.next), NEW y \in LCs(c.next),
           NEW F, \A w \in Assignments : F[w] = Selection(EvalLc(s, w), EvalLc(x, w), EvalLc(y, w))
    PROVE  Lowers(c, Select(c, s, x, y).c, Select(c, s, x, y).lc, m, F)
<1> DEFINE n == c.next
           N == n + 1
           u == Unit(n)
           p == Minus(x, y)
           z == Minus(u, y)
           d == AddConstraint(NewWires(c, 1), s, p, z)
<1>1. n \in Nat /\ N \in Nat /\ n <= N /\ n \in 0 .. N - 1  BY CircuitFacts
<1>2. Select(c, s, x, y).c = d /\ Select(c, s, x, y).lc = u  BY DEF Select
<1>3. x \in LCs(n) /\ y \in LCs(n) /\ s \in LCs(n)  OBVIOUS
<1>4. u \in LCs(N) /\ \A w \in Assignments : EvalLc(u, w) = w[n]
  <2> HIDE DEF n, N
  <2> QED  BY <1>1, UnitFacts
<1>5. x \in LCs(N) /\ y \in LCs(N) /\ s \in LCs(N)
  <2> HIDE DEF n, N
  <2> QED  BY <1>1, <1>3, LcMono
<1>p. p \in LCs(N) /\ \A w \in Assignments : EvalLc(p, w) = Plus(EvalLc(x, w), Negated(EvalLc(y, w)))
  <2> HIDE DEF N
  <2> QED  BY <1>1, <1>5, MinusFacts
<1>z. z \in LCs(N) /\ \A w \in Assignments : EvalLc(z, w) = Plus(w[n], Negated(EvalLc(y, w)))
  <2> HIDE DEF N, u
  <2>1. z \in LCs(N) /\ \A w \in Assignments : EvalLc(z, w) = Plus(EvalLc(u, w), Negated(EvalLc(y, w)))
    BY <1>1, <1>4, <1>5, MinusFacts
  <2> QED  BY <1>4, <2>1
<1>6. \A w \in Assignments : EvalLc(x, w) \in Field /\ EvalLc(y, w) \in Field /\ EvalLc(s, w) \in Field
  BY <1>1, EvalType
<1>F. \A w \in Assignments : F[w] \in Field  BY <1>6, SelectionFacts
<1>7. Local(F, n)
  <2> SUFFICES ASSUME NEW a \in Assignments, NEW w \in Assignments, Agree(a, w, n)
               PROVE  F[a] = F[w]
      BY DEF Local
  <2>1. EvalLc(x, a) = EvalLc(x, w) /\ EvalLc(y, a) = EvalLc(y, w) /\ EvalLc(s, a) = EvalLc(s, w)
    BY <1>1, EvalAgree
  <2> QED  BY <2>1
<1> HIDE DEF u, p, z
<1>8. ASSUME NEW w \in Assignments
      PROVE  Times(EvalLc(s, w), EvalLc(p, w)) = EvalLc(z, w) <=> w[n] = F[w]
  <2> DEFINE X == EvalLc(x, w)
             Y == EvalLc(y, w)
             S == EvalLc(s, w)
             v == w[n]
             t == Times(S, Plus(X, Negated(Y)))
  <2>1. X \in Field /\ Y \in Field /\ S \in Field /\ v \in Field  BY <1>1, <1>6, AssignmentFacts
  <2>2. EvalLc(z, w) = Plus(v, Negated(Y)) /\ Times(EvalLc(s, w), EvalLc(p, w)) = t /\ F[w] = Plus(Y, t)
    BY <1>p, <1>z DEF Selection
  <2> HIDE DEF X, Y, S, v
  <2>3. t \in Field  BY <2>1, FieldOps
  <2> HIDE DEF t
  <2>4. t = Plus(v, Negated(Y)) <=> v = Plus(Y, t)  BY <2>1, <2>3, FieldMinus
  <2> QED  BY <2>2, <2>4 DEF v
<1>d. Determined(s, p, z, c.next, F)  BY <1>8 DEF Determined
<1>9. Lowers(c, d, Unit(c.next), m, F)
  <2>1. s \in LCs(c.next + 1) /\ p \in LCs(c.next + 1) /\ z \in LCs(c.next + 1)
    BY <1>p, <1>z, <1>5
  <2>2. d = AddConstraint(NewWires(c, 1), s, p, z)  OBVIOUS
  <2> HIDE DEF d
  <2> QED  BY <1>F, <1>7, <1>d, <2>1, <2>2, OneWireLowers
<1> QED  BY <1>2, <1>9 DEF u

\* mux, which does without a product when the branches are the same.
LEMMA MuxLowers ==
    ASSUME NEW m \in Nat, NEW c, Circuit(c, m),
           NEW s \in LCs(c.next), NEW x \in LCs(c.next), NEW y \in LCs(c.next),
           NEW F, \A w \in Assignments : F[w] = Selection(EvalLc(s, w), EvalLc(x, w), EvalLc(y, w))
    PROVE  Lowers(c, Mux(c, s, x, y).c, Mux(c, s, x, y).lc, m, F)
<1>1. c.next \in Nat  BY CircuitFacts
<1>2. CASE Minus(x, y) = Zero
  <2>1. \A w \in Assignments : Plus(EvalLc(x, w), Negated(EvalLc(y, w))) = 0
    BY <1>1, <1>2, MinusFacts, EvalZero
  <2>2. \A w \in Assignments : EvalLc(x, w) \in Field /\ EvalLc(y, w) \in Field /\ EvalLc(s, w) \in Field
    BY <1>1, EvalType
  <2>3. \A w \in Assignments : F[w] = EvalLc(x, w)  BY <2>1, <2>2, SelectionFacts
  <2>4. Mux(c, s, x, y).c = c /\ Mux(c, s, x, y).lc = x  BY <1>2 DEF Mux
  <2>5. Lowers(c, c, x, m, F)  BY <2>3, PureLowers
  <2> QED  BY <2>4, <2>5
<1>3. CASE Minus(x, y) # Zero
  <2>1. Mux(c, s, x, y) = Select(c, s, x, y)  BY <1>3 DEF Mux
  <2> QED  BY <2>1, SelectLowers
<1> QED  BY <1>2, <1>3

\* The value of a choice: refused unless the selector is a bit.
Choice(z, x, y) == IF z \in {0, 1} THEN (IF z = 1 THEN x ELSE y) ELSE Refused

\* One and Zero in a circuit.
LEMMA OneLc ==
    ASSUME NEW m \in Nat, NEW c, Circuit(c, m)
    PROVE  /\ One \in LCs(c.next) /\ Zero \in LCs(c.next)
           /\ \A w \in Assignments : EvalLc(One, w) = 1 /\ EvalLc(Zero, w) = 0
<1>1. c.next \in Nat /\ c.next > 0  BY CircuitFacts
<1> QED  BY <1>1, OneFacts, ZeroType, EvalZero

\* 1 - b negates.
LEMMA NotValue ==
    ASSUME NEW b \in BOOLEAN, NEW a, a = Truth(b)
    PROVE  Plus(1, Negated(a)) = Truth(~b) /\ a \in Field
<1>1. Plus(1, Negated(0)) = 1 /\ Plus(1, Negated(1)) = 0 /\ 0 \in Field /\ 1 \in Field
  BY FieldOps, DifferenceValue
<1> QED  BY <1>1 DEF Truth

\* logical_not.
LEMMA NotLowers ==
    ASSUME NEW m \in Nat, NEW c, Circuit(c, m), NEW e, NEW F, Lowers(c, e.c, e.lc, m, F),
           e = [c |-> e.c, lc |-> e.lc], NEW G,
           \A w \in Assignments : G[w] = IF F[w] = Refused THEN Refused ELSE Plus(1, Negated(F[w]))
    PROVE  Lowers(c, Not(e).c, Not(e).lc, m, G)
<1> DEFINE d == e.c
           f == e.lc
           g == Minus(One, f)
<1>1. Not(e).c = d /\ Not(e).lc = g
  <2>1. Not(e) = [e EXCEPT !.lc = Minus(One, e.lc)]  BY DEF Not
  <2> QED  BY <2>1
<1>2. Lowers(c, d, f, m, F)  OBVIOUS
<1> HIDE DEF d, f
<1>3. /\ Circuit(d, m) /\ d.next \in Nat /\ f \in LCs(d.next)
      /\ \A w \in Assignments : Satisfied(d, w) => F[w] # Refused /\ EvalLc(f, w) = F[w]
    BY <1>2, LowersFacts
<1>4. One \in LCs(d.next) /\ \A w \in Assignments : EvalLc(One, w) = 1  BY <1>3, OneLc
<1>5. g \in LCs(d.next) /\ \A w \in Assignments : EvalLc(g, w) = Plus(EvalLc(One, w), Negated(EvalLc(f, w)))
  BY <1>3, <1>4, MinusFacts
<1> HIDE DEF g
<1>6. \A w \in Assignments : Satisfied(d, w) => EvalLc(g, w) = G[w]  BY <1>3, <1>4, <1>5
<1>7. \A w \in Assignments : EvalLc(f, w) \in Field  BY <1>3, EvalType
<1>8. Sound(c, d, g, G)
  <2>1. \A w \in Assignments : Satisfied(d, w) => Satisfied(c, w) /\ EvalLc(g, w) # Refused
    <3>1. \A w \in Assignments : EvalLc(g, w) \in Field  BY <1>3, <1>5, EvalType
    <3> QED  BY <1>2, <3>1, RefusedFacts DEF Lowers, Sound
  <2> QED  BY <1>6, <2>1 DEF Sound
<1>9. Complete(c, d, G)  BY <1>2 DEF Complete, Lowers
<1> QED  BY <1>1, <1>2, <1>5, <1>8, <1>9 DEF Lowers

\* An if expression, with a constant selector or another.
LEMMA BranchLowers ==
    ASSUME NEW m \in Nat, NEW c, Circuit(c, m),
           NEW s \in LCs(c.next), NEW x \in LCs(c.next), NEW y \in LCs(c.next),
           IsConst(s) => \A w \in Assignments : Satisfied(c, w) => EvalLc(s, w) \in {0, 1},
           NEW F, \A w \in Assignments : F[w] = Choice(EvalLc(s, w), EvalLc(x, w), EvalLc(y, w)),
           NEW e, e = Branch(c, s, x, y)
    PROVE  Lowers(c, e.c, e.lc, m, F)
<1>1. c.next \in Nat  BY CircuitFacts
<1>2. \A w \in Assignments : EvalLc(x, w) \in Field /\ EvalLc(y, w) \in Field /\ EvalLc(s, w) \in Field
  BY <1>1, EvalType
<1>3. Local(F, c.next)
  <2> SUFFICES ASSUME NEW a \in Assignments, NEW w \in Assignments, Agree(a, w, c.next)
               PROVE  F[a] = F[w]
      BY DEF Local
  <2>1. EvalLc(x, a) = EvalLc(x, w) /\ EvalLc(y, a) = EvalLc(y, w) /\ EvalLc(s, a) = EvalLc(s, w)
    BY <1>1, EvalAgree
  <2> QED  BY <2>1
<1>4. CASE IsConst(s)
  <2> DEFINE lc == IF s = Zero THEN y ELSE x
  <2>1. e.c = c /\ e.lc = lc  BY <1>4 DEF Branch
  <2>2. lc \in LCs(c.next)  OBVIOUS
  <2>3. ASSUME NEW w \in Assignments, Satisfied(c, w)
        PROVE  F[w] = EvalLc(lc, w)
    <3>1. EvalLc(s, w) \in {0, 1} /\ EvalLc(s, w) = Coef(s, 0)  BY <1>1, <1>4, <2>3, IsConstFacts
    <3>2. CASE s = Zero
      <4>1. EvalLc(s, w) = 0  BY <3>2, EvalZero
      <4> QED  BY <3>2, <4>1 DEF Choice
    <3>3. CASE s # Zero
      <4>1. EvalLc(s, w) # 0
        <5>1. Wires(s) # {}
          <6> SUFFICES ASSUME Wires(s) = {} PROVE FALSE  OBVIOUS
          <6>1. s \in [{} -> 1 .. P - 1]  BY <1>1, LcFacts
          <6> QED  BY <3>3, <6>1 DEF Zero
        <5>2. 0 \in Wires(s)  BY <1>4, <5>1 DEF IsConst
        <5>3. s[0] # 0  BY <1>1, <5>2, LcFacts
        <5> QED  BY <3>1, <5>2, <5>3 DEF Coef
      <4> QED  BY <3>1, <3>3, <4>1 DEF Choice
    <3> QED  BY <3>2, <3>3
  <2> HIDE DEF lc
  <2>4. Lowers(c, c, lc, m, F)  BY <2>2, <2>3, PureLowers
  <2> QED  BY <2>1, <2>4
<1>5. CASE ~IsConst(s)
  <2> DEFINE bit == ConstrainBoolean(c, s)
             B == [w \in Assignments |-> IF EvalLc(s, w) \in {0, 1} THEN 0 ELSE Refused]
  <2>1. \A w \in Assignments : B[w] = IF EvalLc(s, w) \in {0, 1} THEN 0 ELSE Refused  OBVIOUS
  <2> HIDE DEF B
  <2>2. Lowers(c, bit, Zero, m, B) /\ bit.next = c.next  BY <2>1, BooleanLowers
  <2> HIDE DEF bit
  <2>3. /\ Circuit(bit, m) /\ s \in LCs(bit.next) /\ x \in LCs(bit.next) /\ y \in LCs(bit.next)
        /\ \A w \in Assignments : Satisfied(bit, w) => EvalLc(s, w) \in {0, 1}
      BY <2>1, <2>2, LowersFacts
  <2>4. \A w \in Assignments : F[w] # Refused => B[w] # Refused
    <3>1. 0 # Refused  BY RefusedFacts
    <3> QED  BY <2>1, <3>1 DEF Choice
  <2>5. CASE x = y
    <3>1. e.c = bit /\ e.lc = x  BY <1>5, <2>5 DEF Branch, bit
    <3> DEFINE X == [w \in Assignments |-> EvalLc(x, w)]
    <3>2. \A w \in Assignments : X[w] = EvalLc(x, w)  OBVIOUS
    <3> HIDE DEF X
    <3>3. Lowers(bit, bit, x, m, X)  BY <2>3, <3>2, PureLowers
    <3>4. \A w \in Assignments : Satisfied(bit, w) => X[w] = F[w]  BY <2>3, <2>5, <3>2 DEF Choice
    <3>5. Lowers(c, bit, x, m, F)  BY <1>3, <2>2, <2>4, <3>3, <3>4, ThenLowers
    <3> QED  BY <3>1, <3>5
  <2>6. CASE x # y
    <3> DEFINE sel == Select(bit, s, x, y)
               S == [w \in Assignments |-> Selection(EvalLc(s, w), EvalLc(x, w), EvalLc(y, w))]
    <3>1. e = sel  BY <1>5, <2>6 DEF Branch, bit
    <3>2. \A w \in Assignments : S[w] = Selection(EvalLc(s, w), EvalLc(x, w), EvalLc(y, w))
        OBVIOUS
    <3> HIDE DEF S
    <3>3. Lowers(bit, sel.c, sel.lc, m, S)  BY <2>3, <3>2, SelectLowers
    <3>4. \A w \in Assignments : Satisfied(bit, w) => S[w] = F[w]
      BY <1>2, <2>3, <3>2, SelectionFacts DEF Choice
    <3> HIDE DEF sel
    <3>5. Lowers(c, sel.c, sel.lc, m, F)  BY <1>3, <2>2, <2>4, <3>3, <3>4, ThenLowers
    <3> QED  BY <3>1, <3>5
  <2> QED  BY <2>5, <2>6
<1> QED  BY <1>4, <1>5

\* A constant selector takes its branch and adds nothing.
LEMMA ConstBranch ==
    ASSUME NEW m \in Nat, NEW c, Circuit(c, m),
           NEW s \in LCs(c.next), NEW x \in LCs(c.next), NEW y \in LCs(c.next), IsConst(s),
           \A w \in Assignments : Satisfied(c, w) => EvalLc(s, w) \in {0, 1},
           NEW F, \A w \in Assignments : F[w] = Choice(EvalLc(s, w), EvalLc(x, w), EvalLc(y, w))
    PROVE  Lowers(c, c, IF s = Zero THEN y ELSE x, m, F)
<1> DEFINE e == Branch(c, s, x, y)
<1>1. e.c = c /\ e.lc = IF s = Zero THEN y ELSE x  BY DEF Branch
<1>2. Lowers(c, e.c, e.lc, m, F)  BY BranchLowers
<1> QED  BY <1>1, <1>2

\* A multiplexer makes the choice.
LEMMA SelectChosen ==
    ASSUME NEW s \in {0, 1}, NEW x \in Field, NEW y \in Field
    PROVE  Selection(s, x, y) = Choice(s, x, y) /\ Choice(s, x, y) \in Field
<1>1. s \in Field  BY FieldOps
<1>2. Selection(s, x, y) = IF s = 1 THEN x ELSE y  BY <1>1, SelectionFacts
<1> QED  BY <1>2 DEF Choice

\* A predicated return.
LEMMA ReturnLowers ==
    ASSUME NEW m \in Nat, NEW c, Circuit(c, m),
           NEW s \in LCs(c.next), NEW x \in LCs(c.next), NEW y \in LCs(c.next),
           IsConst(s) => \A w \in Assignments : Satisfied(c, w) => EvalLc(s, w) \in {0, 1},
           NEW F, \A w \in Assignments : F[w] = Choice(EvalLc(s, w), EvalLc(x, w), EvalLc(y, w)),
           NEW e, e = PredicatedReturn(c, s, x, y)
    PROVE  Lowers(c, e.c, e.lc, m, F)
<1>1. CASE IsConst(s)
  <2>1. e.c = c /\ e.lc = IF s = Zero THEN y ELSE x  BY <1>1 DEF PredicatedReturn
  <2> QED  BY <1>1, <2>1, ConstBranch
<1>2. CASE ~IsConst(s)
  <2> DEFINE B == [w \in Assignments |-> IF EvalLc(s, w) \in {0, 1} THEN 0 ELSE Refused]
             bit == ConstrainBoolean(c, s)
             flag == Mux(bit, s, One, Zero)
             value == Mux(flag.c, s, x, Zero)
             rest == Minus(One, flag.lc)
             joined == MulLc(value.c, rest, One)
             last == Mux(joined.c, flag.lc, value.lc, y)
             S1 == [w \in Assignments |-> Selection(EvalLc(s, w), EvalLc(One, w), EvalLc(Zero, w))]
             H1 == [w \in Assignments |-> IF EvalLc(s, w) \in {0, 1} THEN EvalLc(s, w) ELSE Refused]
             S2 == [w \in Assignments |-> Selection(EvalLc(s, w), EvalLc(x, w), EvalLc(Zero, w))]
             H2 == [w \in Assignments |-> Choice(EvalLc(s, w), EvalLc(x, w), 0)]
             S3 == [w \in Assignments |-> Times(EvalLc(rest, w), EvalLc(One, w))]
             S4 == [w \in Assignments |->
                       Selection(EvalLc(flag.lc, w), EvalLc(value.lc, w), EvalLc(y, w))]
             H3 == [w \in Assignments |-> IF EvalLc(s, w) \in {0, 1} THEN Plus(1, Negated(EvalLc(s, w))) ELSE Refused]
  <2>e. e = last  BY <1>2 DEF PredicatedReturn
  <2>0. c.next \in Nat /\ 0 # Refused  BY CircuitFacts, RefusedFacts
  <2>t. \A w \in Assignments : EvalLc(x, w) \in Field /\ EvalLc(y, w) \in Field /\ EvalLc(s, w) \in Field
    BY <2>0, EvalType
  <2>f. /\ \A w \in Assignments : S1[w] = Selection(EvalLc(s, w), EvalLc(One, w), EvalLc(Zero, w))
        /\ \A w \in Assignments : S2[w] = Selection(EvalLc(s, w), EvalLc(x, w), EvalLc(Zero, w))
        /\ \A w \in Assignments : S3[w] = Times(EvalLc(rest, w), EvalLc(One, w))
        /\ \A w \in Assignments : S4[w] = Selection(EvalLc(flag.lc, w), EvalLc(value.lc, w), EvalLc(y, w))
        /\ \A w \in Assignments : H1[w] = IF EvalLc(s, w) \in {0, 1} THEN EvalLc(s, w) ELSE Refused
        /\ \A w \in Assignments : H2[w] = Choice(EvalLc(s, w), EvalLc(x, w), 0)
        /\ \A w \in Assignments : H3[w] =
              IF EvalLc(s, w) \in {0, 1} THEN Plus(1, Negated(EvalLc(s, w))) ELSE Refused
        /\ \A w \in Assignments : B[w] = IF EvalLc(s, w) \in {0, 1} THEN 0 ELSE Refused
      OBVIOUS
  <2> HIDE DEF S1, S2, S3, S4, H1, H2, H3, B
  <2>l. Local(H1, c.next) /\ Local(H2, c.next) /\ Local(H3, c.next) /\ Local(F, c.next)
    <3>1. \A a \in Assignments : \A w \in Assignments : Agree(a, w, c.next) =>
             EvalLc(x, a) = EvalLc(x, w) /\ EvalLc(y, a) = EvalLc(y, w) /\ EvalLc(s, a) = EvalLc(s, w)
        BY <2>0, EvalAgree
    <3> QED  BY <2>f, <3>1 DEF Local
  <2>1. Lowers(c, bit, Zero, m, B)  BY <2>f, BooleanLowers
  <2> HIDE DEF bit
  <2>2. /\ Circuit(bit, m) /\ s \in LCs(bit.next) /\ x \in LCs(bit.next) /\ y \in LCs(bit.next)
        /\ One \in LCs(bit.next) /\ Zero \in LCs(bit.next)
        /\ \A w \in Assignments : Satisfied(bit, w) => EvalLc(s, w) \in {0, 1}
        /\ \A w \in Assignments : EvalLc(One, w) = 1 /\ EvalLc(Zero, w) = 0
    <3>1. /\ Circuit(bit, m) /\ s \in LCs(bit.next) /\ x \in LCs(bit.next) /\ y \in LCs(bit.next)
          /\ \A w \in Assignments : Satisfied(bit, w) => EvalLc(s, w) \in {0, 1}
        BY <2>f, <2>1, LowersFacts
    <3> QED  BY <3>1, OneLc
  <2>3. Lowers(bit, flag.c, flag.lc, m, S1)  BY <2>2, <2>f, MuxLowers
  <2>4. Lowers(c, flag.c, flag.lc, m, H1)
    <3>1. \A w \in Assignments : Satisfied(bit, w) => S1[w] = H1[w]
      <4> SUFFICES ASSUME NEW w \in Assignments, Satisfied(bit, w) PROVE S1[w] = H1[w]  OBVIOUS
      <4> DEFINE S == EvalLc(s, w)
      <4>1. S \in {0, 1} /\ S1[w] = Selection(S, 1, 0) /\ H1[w] = S  BY <2>2, <2>f
      <4> HIDE DEF S
      <4>2. Selection(S, 1, 0) = Choice(S, 1, 0)  BY <4>1, FieldOps, SelectChosen
      <4> QED  BY <4>1, <4>2 DEF Choice
    <3>2. \A w \in Assignments : H1[w] # Refused => B[w] # Refused  BY <2>f, <2>0
    <3> HIDE DEF flag
    <3> QED  BY <2>l, <2>1, <2>3, <3>1, <3>2, ThenLowers
  <2> HIDE DEF flag
  <2>5. /\ Circuit(flag.c, m) /\ s \in LCs(flag.c.next) /\ x \in LCs(flag.c.next) /\ y \in LCs(flag.c.next)
        /\ flag.lc \in LCs(flag.c.next) /\ One \in LCs(flag.c.next) /\ Zero \in LCs(flag.c.next)
        /\ \A w \in Assignments : Satisfied(flag.c, w) => EvalLc(s, w) \in {0, 1} /\ EvalLc(flag.lc, w) = EvalLc(s, w)
    <3>1. /\ Circuit(flag.c, m) /\ s \in LCs(flag.c.next) /\ x \in LCs(flag.c.next) /\ y \in LCs(flag.c.next)
          /\ flag.lc \in LCs(flag.c.next)
          /\ \A w \in Assignments : Satisfied(flag.c, w) => EvalLc(s, w) \in {0, 1} /\ EvalLc(flag.lc, w) = EvalLc(s, w)
        BY <2>f, <2>4, LowersFacts
    <3> QED  BY <3>1, OneLc
  <2>6. Lowers(flag.c, value.c, value.lc, m, S2)
    <3>1. Zero \in LCs(flag.c.next)  BY <2>5
    <3> QED  BY <3>1, <2>5, <2>f, MuxLowers
  <2>7. Lowers(c, value.c, value.lc, m, H2)
    <3>1. \A w \in Assignments : Satisfied(flag.c, w) => S2[w] = H2[w]
      <4> SUFFICES ASSUME NEW w \in Assignments, Satisfied(flag.c, w) PROVE S2[w] = H2[w]  OBVIOUS
      <4> DEFINE S == EvalLc(s, w)
                 X == EvalLc(x, w)
      <4>1. S \in {0, 1} /\ S2[w] = Selection(S, X, 0) /\ H2[w] = Choice(S, X, 0) /\ X \in Field
        BY <2>2, <2>5, <2>f, <2>t
      <4> HIDE DEF S, X
      <4>2. Selection(S, X, 0) = Choice(S, X, 0)  BY <4>1, FieldOps, SelectChosen
      <4> QED  BY <4>1, <4>2
    <3>2. \A w \in Assignments : H2[w] # Refused => H1[w] # Refused
      <4>1. \A a \in {0, 1} : a # Refused  BY RefusedFacts
      <4> QED  BY <2>f, <4>1 DEF Choice
    <3> HIDE DEF value
    <3> QED  BY <2>l, <2>4, <2>6, <3>1, <3>2, ThenLowers
  <2> HIDE DEF value
  <2>8. /\ Circuit(value.c, m) /\ value.c.next \in Nat /\ s \in LCs(value.c.next) /\ y \in LCs(value.c.next)
        /\ flag.lc \in LCs(value.c.next) /\ value.lc \in LCs(value.c.next) /\ One \in LCs(value.c.next)
        /\ \A w \in Assignments : Satisfied(value.c, w) =>
              /\ EvalLc(s, w) \in {0, 1} /\ EvalLc(flag.lc, w) = EvalLc(s, w)
              /\ EvalLc(value.lc, w) = Choice(EvalLc(s, w), EvalLc(x, w), 0)
    <3>1. /\ Circuit(value.c, m) /\ value.c.next \in Nat /\ s \in LCs(value.c.next)
          /\ y \in LCs(value.c.next) /\ value.lc \in LCs(value.c.next)
          /\ \A w \in Assignments : Satisfied(value.c, w) => EvalLc(value.lc, w) = H2[w]
        BY <2>7, LowersFacts
    <3>2. /\ flag.lc \in LCs(value.c.next)
          /\ \A w \in Assignments : Satisfied(value.c, w) => Satisfied(flag.c, w)
        BY <2>5, <2>6, LowersFacts
    <3>3. One \in LCs(value.c.next)  BY <3>1, OneLc
    <3> QED  BY <2>5, <2>f, <3>1, <3>2, <3>3
  <2>9. /\ rest \in LCs(value.c.next)
        /\ \A w \in Assignments : EvalLc(rest, w) = Plus(EvalLc(One, w), Negated(EvalLc(flag.lc, w)))
      BY <2>8, MinusFacts
  <2> HIDE DEF rest
  <2>10. Lowers(value.c, joined.c, joined.lc, m, S3)  BY <2>8, <2>9, <2>f, MulLcLowers
  <2>11. Lowers(c, joined.c, joined.lc, m, H3)
    <3>1. \A w \in Assignments : Satisfied(value.c, w) => S3[w] = H3[w]
      <4> SUFFICES ASSUME NEW w \in Assignments, Satisfied(value.c, w) PROVE S3[w] = H3[w]
          OBVIOUS
      <4> DEFINE a == Plus(1, Negated(EvalLc(s, w)))
      <4>1. S3[w] = Times(a, 1)  BY <2>2, <2>8, <2>9, <2>f
      <4>2. H3[w] = a /\ a \in Field  BY <2>8, <2>f, <2>t, FieldOps
      <4> HIDE DEF a
      <4>3. Times(a, 1) = a  BY <4>2, FieldRing
      <4> QED  BY <4>1, <4>2, <4>3
    <3>2. \A w \in Assignments : H3[w] # Refused => H2[w] # Refused
      <4>1. \A w \in Assignments : EvalLc(x, w) # Refused  BY <2>t, RefusedFacts
      <4> QED  BY <2>f, <2>0, <4>1 DEF Choice
    <3> HIDE DEF joined
    <3> QED  BY <2>l, <2>7, <2>10, <3>1, <3>2, ThenLowers
  <2> HIDE DEF joined
  <2>12. /\ Circuit(joined.c, m) /\ y \in LCs(joined.c.next)
         /\ flag.lc \in LCs(joined.c.next) /\ value.lc \in LCs(joined.c.next)
         /\ \A w \in Assignments : Satisfied(joined.c, w) => Satisfied(value.c, w)
    <3>1. Circuit(joined.c, m) /\ y \in LCs(joined.c.next)  BY <2>11, LowersFacts
    <3>2. /\ flag.lc \in LCs(joined.c.next) /\ value.lc \in LCs(joined.c.next)
          /\ \A w \in Assignments : Satisfied(joined.c, w) => Satisfied(value.c, w)
        BY <2>8, <2>10, LowersFacts
    <3> QED  BY <3>1, <3>2
  <2>13. Lowers(joined.c, last.c, last.lc, m, S4)  BY <2>12, <2>f, MuxLowers
  <2>14. Lowers(c, last.c, last.lc, m, F)
    <3>1. \A w \in Assignments : Satisfied(joined.c, w) => S4[w] = F[w]
      <4> SUFFICES ASSUME NEW w \in Assignments, Satisfied(joined.c, w) PROVE S4[w] = F[w]
          OBVIOUS
      <4> DEFINE S == EvalLc(s, w)
                 X == EvalLc(x, w)
                 Y == EvalLc(y, w)
      <4>1. S \in {0, 1} /\ EvalLc(flag.lc, w) = S /\ EvalLc(value.lc, w) = Choice(S, X, 0)
        BY <2>8, <2>12
      <4>2. X \in Field /\ Y \in Field /\ S \in Field /\ 0 \in Field  BY <2>t, FieldOps
      <4>3. S4[w] = Selection(S, Choice(S, X, 0), Y)  BY <2>f, <4>1
      <4>4. F[w] = Choice(S, X, Y)  OBVIOUS
      <4> HIDE DEF S, X, Y
      <4> DEFINE v == Choice(S, X, 0)
      <4>5. v \in Field  BY <4>1, <4>2, SelectChosen
      <4>6. Choice(S, v, Y) = Choice(S, X, Y)  BY <4>1 DEF Choice
      <4> HIDE DEF v
      <4>7. Selection(S, v, Y) = Choice(S, v, Y)  BY <4>1, <4>2, <4>5, SelectChosen
      <4> QED  BY <4>3, <4>4, <4>6, <4>7 DEF v
    <3>2. \A w \in Assignments : F[w] # Refused => H3[w] # Refused
      <4>1. \A w \in Assignments : Plus(1, Negated(EvalLc(s, w))) # Refused
        BY <2>t, FieldOps, RefusedFacts
      <4> QED  BY <2>f, <4>1 DEF Choice
    <3> HIDE DEF last
    <3> QED  BY <2>l, <2>11, <2>13, <3>1, <3>2, ThenLowers
  <2> QED  BY <2>e, <2>14
<1> QED  BY <1>1, <1>2

-----------------------------------------------------------------------------
(***************************************************************************)
(* Division and comparisons as statements.                                 *)
(***************************************************************************)

\* Quotient and remainder as statements.
LEMMA DivModLowers ==
    ASSUME NEW m \in Nat, NEW c, Circuit(c, m), NEW x \in LCs(c.next), NEW y \in LCs(c.next),
           NEW n, Wide(n), NEW e, e = IntDivMod(c, x, y, n),
           NEW F, \A w \in Assignments : F[w] =
              IF Divides(EvalLc(x, w), EvalLc(y, w), n) THEN EvalLc(x, w) \div EvalLc(y, w) ELSE Refused,
           NEW G, \A w \in Assignments : G[w] =
              IF Divides(EvalLc(x, w), EvalLc(y, w), n) THEN EvalLc(x, w) % EvalLc(y, w) ELSE Refused
    PROVE  Lowers(c, e.c, e.q, m, F) /\ Lowers(c, e.c, e.r, m, G)
<1>1. /\ Grown(c, e.c, m) /\ e.q \in LCs(e.c.next) /\ e.r \in LCs(e.c.next)
      /\ \A w \in Assignments : Satisfied(e.c, w) =>
            /\ Satisfied(c, w) /\ Divides(EvalLc(x, w), EvalLc(y, w), n)
            /\ EvalLc(e.q, w) = EvalLc(x, w) \div EvalLc(y, w)
            /\ EvalLc(e.r, w) = EvalLc(x, w) % EvalLc(y, w)
      /\ \A w \in Assignments : Satisfied(c, w) /\ Divides(EvalLc(x, w), EvalLc(y, w), n)
            => Extendable(c, e.c, w)
    BY IntDivModFacts
<1>2. e.c.next \in Nat  BY <1>1, CircuitFacts DEF Grown
<1>3. \A w \in Assignments : EvalLc(e.q, w) # Refused /\ EvalLc(e.r, w) # Refused
  BY <1>1, <1>2, EvalType, RefusedFacts
<1>4. Sound(c, e.c, e.q, F)
  <2> SUFFICES ASSUME NEW w \in Assignments, Satisfied(e.c, w)
               PROVE  Satisfied(c, w) /\ F[w] # Refused /\ EvalLc(e.q, w) = F[w]
      BY DEF Sound
  <2>1. Satisfied(c, w) /\ F[w] = EvalLc(e.q, w)  BY <1>1
  <2> QED  BY <1>3, <2>1
<1>5. Sound(c, e.c, e.r, G)
  <2> SUFFICES ASSUME NEW w \in Assignments, Satisfied(e.c, w)
               PROVE  Satisfied(c, w) /\ G[w] # Refused /\ EvalLc(e.r, w) = G[w]
      BY DEF Sound
  <2>1. Satisfied(c, w) /\ G[w] = EvalLc(e.r, w)  BY <1>1
  <2> QED  BY <1>3, <2>1
<1>6. Complete(c, e.c, F)
  <2> SUFFICES ASSUME NEW w \in Assignments, Satisfied(c, w), F[w] # Refused
               PROVE  Extendable(c, e.c, w)
      BY DEF Complete
  <2>1. Divides(EvalLc(x, w), EvalLc(y, w), n)  OBVIOUS
  <2> QED  BY <1>1, <2>1
<1>7. Complete(c, e.c, G)
  <2> SUFFICES ASSUME NEW w \in Assignments, Satisfied(c, w), G[w] # Refused
               PROVE  Extendable(c, e.c, w)
      BY DEF Complete
  <2>1. Divides(EvalLc(x, w), EvalLc(y, w), n)  OBVIOUS
  <2> QED  BY <1>1, <2>1
<1> QED  BY <1>1, <1>4, <1>5, <1>6, <1>7 DEF Lowers

\* less_than as a statement.
LEMMA LessLowers ==
    ASSUME NEW m \in Nat, NEW c, Circuit(c, m), NEW x \in LCs(c.next), NEW y \in LCs(c.next),
           NEW n, Ranged(n), NEW e, e = LessThan(c, x, y, n),
           NEW F, \A w \in Assignments : F[w] =
              IF Below(x, y, n, w) THEN Truth(EvalLc(x, w) < EvalLc(y, w)) ELSE Refused
    PROVE  Lowers(c, e.c, e.lc, m, F)
<1>1. /\ Grown(c, e.c, m) /\ e.lc \in LCs(e.c.next)
      /\ \A w \in Assignments : Satisfied(e.c, w) => Compared(c, e, x, y, n, w)
      /\ \A w \in Assignments : Satisfied(c, w) /\ Below(x, y, n, w) => Extendable(c, e.c, w)
    BY LessThanFacts
<1>2. \A b \in BOOLEAN : Truth(b) # Refused  BY RefusedFacts DEF Truth
<1>3. Sound(c, e.c, e.lc, F)
  <2> SUFFICES ASSUME NEW w \in Assignments, Satisfied(e.c, w)
               PROVE  Satisfied(c, w) /\ F[w] # Refused /\ EvalLc(e.lc, w) = F[w]
      BY DEF Sound
  <2>1. Satisfied(c, w) /\ Below(x, y, n, w) /\ EvalLc(e.lc, w) = Truth(EvalLc(x, w) < EvalLc(y, w))
    BY <1>1 DEF Compared
  <2>2. Truth(EvalLc(x, w) < EvalLc(y, w)) # Refused  BY RefusedFacts DEF Truth
  <2> QED  BY <2>1, <2>2
<1>4. Complete(c, e.c, F)  BY <1>1 DEF Complete
<1> QED  BY <1>1, <1>3, <1>4 DEF Lowers

\* The four comparisons.
CompareOps == {"lt", "le", "gt", "ge"}

\* What they compute.
CompareValue(op, x, y, n) ==
    IF x < Pow2[n] /\ y < Pow2[n] THEN Truth(Ordered(op, x, y)) ELSE Refused

\* Each is a less_than, swapped or negated.
LEMMA ComparisonLowers ==
    ASSUME NEW m \in Nat, NEW c, Circuit(c, m), NEW x \in LCs(c.next), NEW y \in LCs(c.next),
           NEW n, Ranged(n), NEW op \in CompareOps, NEW e, e = Comparison(op, c, x, y, n),
           NEW F, \A w \in Assignments : F[w] = CompareValue(op, EvalLc(x, w), EvalLc(y, w), n)
    PROVE  Lowers(c, e.c, e.lc, m, F)
<1> DEFINE up == LessThan(c, x, y, n)
           down == LessThan(c, y, x, n)
           U == [w \in Assignments |->
                    IF Below(x, y, n, w) THEN Truth(EvalLc(x, w) < EvalLc(y, w)) ELSE Refused]
           D == [w \in Assignments |->
                    IF Below(y, x, n, w) THEN Truth(EvalLc(y, w) < EvalLc(x, w)) ELSE Refused]
<1>1. /\ \A w \in Assignments : U[w] =
            IF Below(x, y, n, w) THEN Truth(EvalLc(x, w) < EvalLc(y, w)) ELSE Refused
      /\ \A w \in Assignments : D[w] =
            IF Below(y, x, n, w) THEN Truth(EvalLc(y, w) < EvalLc(x, w)) ELSE Refused
    OBVIOUS
<1>2. up = [c |-> up.c, lc |-> up.lc] /\ down = [c |-> down.c, lc |-> down.lc]  BY DEF LessThan
<1> HIDE DEF U, D
<1>3. Lowers(c, up.c, up.lc, m, U) /\ Lowers(c, down.c, down.lc, m, D)  BY <1>1, LessLowers
<1>4. c.next \in Nat  BY CircuitFacts
<1>5. \A w \in Assignments : EvalLc(x, w) \in Int /\ EvalLc(y, w) \in Int
  BY <1>4, EvalType, FieldMod
<1>6. e = CASE op = "lt" -> up [] op = "le" -> Not(down) [] op = "gt" -> down [] op = "ge" -> Not(up)
  BY DEF Comparison, CompareOps
<1> HIDE DEF up, down
<1>7. \A b \in BOOLEAN : Truth(b) # Refused /\ Plus(1, Negated(Truth(b))) = Truth(~b)
  BY NotValue, RefusedFacts DEF Truth
<1>8. CASE op = "lt"
  <2>1. \A w \in Assignments : F[w] = U[w]  BY <1>1, <1>8 DEF Ordered, Below, CompareValue
  <2>2. Lowers(c, up.c, up.lc, m, F)  BY <1>3, <2>1 DEF Lowers, Sound, Complete
  <2> QED  BY <1>6, <1>8, <2>2
<1>9. CASE op = "gt"
  <2>1. \A w \in Assignments : F[w] = D[w]  BY <1>1, <1>5, <1>9 DEF Ordered, Below, CompareValue
  <2>2. Lowers(c, down.c, down.lc, m, F)  BY <1>3, <2>1 DEF Lowers, Sound, Complete
  <2> QED  BY <1>6, <1>9, <2>2
<1>10. CASE op = "le"
  <2>1. ASSUME NEW w \in Assignments
        PROVE  F[w] = IF D[w] = Refused THEN Refused ELSE Plus(1, Negated(D[w]))
    <3>1. (EvalLc(x, w) <= EvalLc(y, w)) = ~(EvalLc(y, w) < EvalLc(x, w))  BY <1>5
    <3>2. (EvalLc(y, w) < EvalLc(x, w)) \in BOOLEAN  OBVIOUS
    <3>3. F[w] = IF Below(y, x, n, w) THEN Truth(~(EvalLc(y, w) < EvalLc(x, w))) ELSE Refused
      BY <1>10, <3>1 DEF Ordered, Below, CompareValue
    <3> DEFINE b == EvalLc(y, w) < EvalLc(x, w)
    <3>4. D[w] = IF Below(y, x, n, w) THEN Truth(b) ELSE Refused  BY <1>1
    <3> HIDE DEF b
    <3>5. b \in BOOLEAN  BY <3>2 DEF b
    <3>6. Truth(b) # Refused /\ Plus(1, Negated(Truth(b))) = Truth(~b)  BY <1>7, <3>5
    <3> QED  BY <3>3, <3>4, <3>6 DEF b
  <2>2. Lowers(c, Not(down).c, Not(down).lc, m, F)  BY <1>2, <1>3, <2>1, NotLowers
  <2> QED  BY <1>6, <1>10, <2>2
<1>11. CASE op = "ge"
  <2>1. ASSUME NEW w \in Assignments
        PROVE  F[w] = IF U[w] = Refused THEN Refused ELSE Plus(1, Negated(U[w]))
    <3>1. (EvalLc(x, w) >= EvalLc(y, w)) = ~(EvalLc(x, w) < EvalLc(y, w))  BY <1>5
    <3>2. (EvalLc(x, w) < EvalLc(y, w)) \in BOOLEAN  OBVIOUS
    <3>3. F[w] = IF Below(x, y, n, w) THEN Truth(~(EvalLc(x, w) < EvalLc(y, w))) ELSE Refused
      BY <1>11, <3>1 DEF Ordered, Below, CompareValue
    <3> DEFINE b == EvalLc(x, w) < EvalLc(y, w)
    <3>4. U[w] = IF Below(x, y, n, w) THEN Truth(b) ELSE Refused  BY <1>1
    <3> HIDE DEF b
    <3>5. b \in BOOLEAN  BY <3>2 DEF b
    <3>6. Truth(b) # Refused /\ Plus(1, Negated(Truth(b))) = Truth(~b)  BY <1>7, <3>5
    <3> QED  BY <3>3, <3>4, <3>6 DEF b
  <2>2. Lowers(c, Not(up).c, Not(up).lc, m, F)  BY <1>2, <1>3, <2>1, NotLowers
  <2> QED  BY <1>6, <1>11, <2>2
<1> QED  BY <1>8, <1>9, <1>10, <1>11 DEF CompareOps

-----------------------------------------------------------------------------
(***************************************************************************)
(* Logic and equality.                                                     *)
(***************************************************************************)

\* and, or: bits only.
LEMMA LogicalLowers ==
    ASSUME NEW m \in Nat, NEW c, Circuit(c, m), NEW x \in LCs(c.next), NEW y \in LCs(c.next),
           NEW op \in {"and", "or"}, NEW e, e = Logical(op, c, x, y),
           NEW F, \A w \in Assignments : F[w] =
              IF {EvalLc(x, w), EvalLc(y, w)} \subseteq {0, 1}
              THEN (IF op = "and" THEN EvalLc(x, w) * EvalLc(y, w) ELSE Truth(EvalLc(x, w) + EvalLc(y, w) > 0))
              ELSE Refused
    PROVE  Lowers(c, e.c, e.lc, m, F)
<1> DEFINE A == [w \in Assignments |-> IF EvalLc(x, w) \in {0, 1} THEN 0 ELSE Refused]
           B == [w \in Assignments |-> IF EvalLc(y, w) \in {0, 1} THEN 0 ELSE Refused]
           AB == [w \in Assignments |->
                     IF EvalLc(x, w) \in {0, 1} /\ EvalLc(y, w) \in {0, 1} THEN 0 ELSE Refused]
           T == [w \in Assignments |-> Times(EvalLc(x, w), EvalLc(y, w))]
           M == [w \in Assignments |->
                     IF EvalLc(x, w) \in {0, 1} /\ EvalLc(y, w) \in {0, 1}
                     THEN EvalLc(x, w) * EvalLc(y, w) ELSE Refused]
           c1 == ConstrainBoolean(c, x)
           c2 == ConstrainBoolean(c1, y)
           both == MulLc(c2, x, y)
           sum == AddLinear(x, y, 1)
           or == Minus(sum, both.lc)
<1>1. /\ \A w \in Assignments : A[w] = IF EvalLc(x, w) \in {0, 1} THEN 0 ELSE Refused
      /\ \A w \in Assignments : B[w] = IF EvalLc(y, w) \in {0, 1} THEN 0 ELSE Refused
      /\ \A w \in Assignments : AB[w] =
            IF EvalLc(x, w) \in {0, 1} /\ EvalLc(y, w) \in {0, 1} THEN 0 ELSE Refused
      /\ \A w \in Assignments : T[w] = Times(EvalLc(x, w), EvalLc(y, w))
      /\ \A w \in Assignments : M[w] =
            IF EvalLc(x, w) \in {0, 1} /\ EvalLc(y, w) \in {0, 1}
            THEN EvalLc(x, w) * EvalLc(y, w) ELSE Refused
    OBVIOUS
<1> HIDE DEF A, B, AB, T, M
<1>2. /\ op = "and" => e.c = both.c /\ e.lc = both.lc
      /\ op = "or" => e.c = both.c /\ e.lc = or
  <2>1. both = [c |-> both.c, lc |-> both.lc]  BY DEF MulLc
  <2>2. e = IF op = "and" THEN both ELSE [both EXCEPT !.lc = Minus(AddLinear(x, y, 1), both.lc)]
    BY DEF Logical
  <2> HIDE DEF both
  <2> QED  BY <2>1, <2>2
<1>3. c.next \in Nat /\ 0 # Refused /\ 1 # Refused  BY CircuitFacts, RefusedFacts
<1>4. \A a \in Assignments : \A w \in Assignments : Agree(a, w, c.next) =>
         EvalLc(x, a) = EvalLc(x, w) /\ EvalLc(y, a) = EvalLc(y, w)
    BY <1>3, EvalAgree
<1>5. Local(AB, c.next) /\ Local(M, c.next)  BY <1>1, <1>4 DEF Local
<1>6. Lowers(c, c1, Zero, m, A)  BY <1>1, BooleanLowers
<1> HIDE DEF c1
<1>7. /\ Circuit(c1, m) /\ x \in LCs(c1.next) /\ y \in LCs(c1.next)
      /\ \A w \in Assignments : Satisfied(c1, w) => EvalLc(x, w) \in {0, 1}
    BY <1>1, <1>6, LowersFacts
<1>8. Lowers(c1, c2, Zero, m, B)  BY <1>1, <1>7, BooleanLowers
<1> HIDE DEF c2
<1>9. Lowers(c, c2, Zero, m, AB)
  <2>1. \A w \in Assignments : Satisfied(c1, w) => B[w] = AB[w]  BY <1>1, <1>7
  <2>2. \A w \in Assignments : AB[w] # Refused => A[w] # Refused  BY <1>1
  <2> QED  BY <1>5, <1>6, <1>8, <2>1, <2>2, ThenLowers
<1>10. /\ Circuit(c2, m) /\ x \in LCs(c2.next) /\ y \in LCs(c2.next)
       /\ \A w \in Assignments : Satisfied(c2, w) => EvalLc(x, w) \in {0, 1} /\ EvalLc(y, w) \in {0, 1}
    BY <1>1, <1>9, LowersFacts
<1>11. Lowers(c2, both.c, both.lc, m, T)  BY <1>1, <1>10, MulLcLowers
<1> HIDE DEF both
<1>v. /\ Times(0, 0) = 0 /\ Times(0, 1) = 0 /\ Times(1, 0) = 0 /\ Times(1, 1) = 1
      /\ 0 \in Field /\ 1 \in Field
    BY FieldOps, FieldRing
<1>12. Lowers(c, both.c, both.lc, m, M)
  <2>1. \A w \in Assignments : Satisfied(c2, w) => T[w] = M[w]  BY <1>1, <1>10, <1>v
  <2>2. \A w \in Assignments : M[w] # Refused => AB[w] # Refused  BY <1>1, <1>3
  <2> QED  BY <1>5, <1>9, <1>11, <2>1, <2>2, ThenLowers
<1>13. CASE op = "and"
  <2>1. \A w \in Assignments : F[w] = M[w]  BY <1>1, <1>13
  <2>2. Lowers(c, both.c, both.lc, m, F)  BY <1>12, <2>1 DEF Lowers, Sound, Complete
  <2> QED  BY <1>2, <1>13, <2>2
<1>14. CASE op = "or"
  <2>1. /\ both.c.next \in Nat /\ x \in LCs(both.c.next) /\ y \in LCs(both.c.next)
        /\ both.lc \in LCs(both.c.next)
        /\ \A w \in Assignments : Satisfied(both.c, w) =>
              /\ EvalLc(x, w) \in {0, 1} /\ EvalLc(y, w) \in {0, 1}
              /\ EvalLc(both.lc, w) = EvalLc(x, w) * EvalLc(y, w)
      BY <1>1, <1>12, LowersFacts
  <2>2. /\ sum \in LCs(both.c.next)
        /\ \A w \in Assignments : EvalLc(sum, w) = Plus(EvalLc(x, w), Times(1, EvalLc(y, w)))
      BY <1>v, <2>1, AddLinearFacts
  <2> HIDE DEF sum
  <2>3. /\ or \in LCs(both.c.next)
        /\ \A w \in Assignments : EvalLc(or, w) = Plus(EvalLc(sum, w), Negated(EvalLc(both.lc, w)))
      BY <2>1, <2>2, MinusFacts
  <2> HIDE DEF or
  <2>4. ASSUME NEW w \in Assignments, Satisfied(both.c, w)
        PROVE  EvalLc(or, w) = F[w]
    <3> DEFINE X == EvalLc(x, w)
               Y == EvalLc(y, w)
    <3>1. X \in {0, 1} /\ Y \in {0, 1} /\ EvalLc(both.lc, w) = X * Y  BY <2>1, <2>4
    <3>2. EvalLc(or, w) = Plus(Plus(X, Times(1, Y)), Negated(X * Y))  BY <2>2, <2>3, <3>1
    <3>3. F[w] = Truth(X + Y > 0)  BY <1>14, <3>1
    <3> HIDE DEF X, Y
    <3>4. /\ Plus(0, 0) = 0 /\ Plus(0, 1) = 1 /\ Plus(1, 0) = 1 /\ Plus(1, 1) = 2 /\ 2 \in Field
      BY <1>v, SumValue, Modulus DEF Field
    <3>5. /\ Plus(0, Negated(0)) = 0 /\ Plus(1, Negated(0)) = 1 /\ Plus(2, Negated(1)) = 1
      BY <1>v, <3>4, DifferenceValue
    <3>6. /\ 0 * 0 = 0 /\ 0 * 1 = 0 /\ 1 * 0 = 0 /\ 1 * 1 = 1
          /\ (0 + 0 > 0) = FALSE /\ (0 + 1 > 0) = TRUE /\ (1 + 0 > 0) = TRUE /\ (1 + 1 > 0) = TRUE
        OBVIOUS
    <3>a. CASE X = 0 /\ Y = 0  BY <1>v, <3>2, <3>3, <3>4, <3>5, <3>6, <3>a DEF Truth
    <3>b. CASE X = 0 /\ Y = 1  BY <1>v, <3>2, <3>3, <3>4, <3>5, <3>6, <3>b DEF Truth
    <3>c. CASE X = 1 /\ Y = 0  BY <1>v, <3>2, <3>3, <3>4, <3>5, <3>6, <3>c DEF Truth
    <3>d. CASE X = 1 /\ Y = 1  BY <1>v, <3>2, <3>3, <3>4, <3>5, <3>6, <3>d DEF Truth
    <3> QED  BY <3>1, <3>a, <3>b, <3>c, <3>d
  <2>5. ASSUME NEW w \in Assignments PROVE F[w] # Refused <=> M[w] # Refused
    <3> DEFINE X == EvalLc(x, w)
               Y == EvalLc(y, w)
    <3>1. F[w] = IF X \in {0, 1} /\ Y \in {0, 1} THEN Truth(X + Y > 0) ELSE Refused  BY <1>14
    <3>2. M[w] = IF X \in {0, 1} /\ Y \in {0, 1} THEN X * Y ELSE Refused  BY <1>1
    <3> HIDE DEF X, Y
    <3>3. Truth(X + Y > 0) # Refused  BY <1>3 DEF Truth
    <3>4. X \in {0, 1} /\ Y \in {0, 1} => X * Y \in {0, 1}  OBVIOUS
    <3> QED  BY <1>3, <3>1, <3>2, <3>3, <3>4
  <2>6. Lowers(c, both.c, or, m, F)  BY <1>12, <2>3, <2>4, <2>5, RelabelLowers
  <2> QED  BY <1>2, <1>14, <2>6
<1> QED  BY <1>13, <1>14

\* A constant is 0 when it has no coefficient.
LEMMA ConstValue ==
    ASSUME NEW n \in Nat, NEW f \in LCs(n), IsConst(f), NEW w \in Assignments
    PROVE  EvalLc(f, w) = 0 <=> f = Zero
<1>1. EvalLc(f, w) = Coef(f, 0)  BY IsConstFacts
<1>2. f = Zero => EvalLc(f, w) = 0  BY EvalZero
<1>3. ASSUME f # Zero PROVE EvalLc(f, w) # 0
  <2>1. Wires(f) # {}
    <3> SUFFICES ASSUME Wires(f) = {} PROVE FALSE  OBVIOUS
    <3>1. f \in [{} -> 1 .. P - 1]  BY LcFacts
    <3> QED  BY <1>3, <3>1 DEF Zero
  <2>2. 0 \in Wires(f)  BY <2>1 DEF IsConst
  <2>3. f[0] # 0  BY <2>2, LcFacts
  <2> QED  BY <1>1, <2>2, <2>3 DEF Coef
<1> QED  BY <1>2, <1>3

\* Equal means that the difference is 0.
LEMMA ZeroDifference ==
    ASSUME NEW x \in Field, NEW y \in Field
    PROVE  Plus(x, Negated(y)) = 0 <=> x = y
<1>1. 0 \in Field /\ Plus(y, 0) = y  BY FieldOps, FieldRing
<1> QED  BY <1>1, FieldMinus

\* Equality, by the inverse of the difference or 0.
LEMMA EqualLowers ==
    ASSUME NEW m \in Nat, NEW c, Circuit(c, m), NEW x \in LCs(c.next), NEW y \in LCs(c.next),
           NEW e, e = Equal(c, x, y),
           NEW F, \A w \in Assignments : F[w] = Truth(EvalLc(x, w) = EvalLc(y, w))
    PROVE  Lowers(c, e.c, e.lc, m, F) /\ e = [c |-> e.c, lc |-> e.lc]
<1> DEFINE d == Minus(x, y)
           eq == c.next
           inv == c.next + 1
           f == Recipe("isZero", <<d>>)
           g == Recipe("invOrZero", <<d>>)
           c1 == AddRecipe(AddRecipe(NewWires(c, 2), eq, f), inv, g)
           c2 == AddConstraint(c1, d, Unit(eq), Zero)
           rest == Minus(One, Unit(eq))
           c3 == AddConstraint(c2, d, Unit(inv), rest)
<1>0. e = IF IsConst(d) THEN [c |-> c, lc |-> IF d = Zero THEN One ELSE Zero]
          ELSE [c |-> c3, lc |-> Unit(eq)]
    BY DEF Equal
<1>1. c.next \in Nat /\ c.next > 0 /\ 0 # Refused /\ 1 # Refused  BY CircuitFacts, RefusedFacts
<1>2. /\ d \in LCs(c.next)
      /\ \A w \in Assignments : EvalLc(d, w) \in Field
      /\ \A w \in Assignments : EvalLc(d, w) = 0 <=> EvalLc(x, w) = EvalLc(y, w)
  <2>1. /\ d \in LCs(c.next)
        /\ \A w \in Assignments : EvalLc(d, w) = Plus(EvalLc(x, w), Negated(EvalLc(y, w)))
      BY <1>1, MinusFacts
  <2>2. \A w \in Assignments : EvalLc(x, w) \in Field /\ EvalLc(y, w) \in Field /\ EvalLc(d, w) \in Field
    BY <1>1, <2>1, EvalType
  <2> QED  BY <2>1, <2>2, ZeroDifference
<1>3. One \in LCs(c.next) /\ Zero \in LCs(c.next)
      /\ \A w \in Assignments : EvalLc(One, w) = 1 /\ EvalLc(Zero, w) = 0
    BY OneLc
<1> HIDE DEF d
<1>4. CASE IsConst(d)
  <2> DEFINE lc == IF d = Zero THEN One ELSE Zero
  <2>1. lc \in LCs(c.next)  BY <1>3
  <2>2. \A w \in Assignments : F[w] = EvalLc(lc, w)
    BY <1>1, <1>2, <1>3, <1>4, ConstValue DEF Truth
  <2> HIDE DEF lc
  <2>3. Lowers(c, c, lc, m, F)  BY <2>1, <2>2, PureLowers
  <2>4. e = [c |-> c, lc |-> lc]  BY <1>0, <1>4 DEF lc
  <2> QED  BY <2>3, <2>4
<1>5. CASE ~IsConst(d)
  <2>1. f \in Recipes(c.next) /\ g \in Recipes(c.next)
    <3>1. "isZero" \in RecipeOps /\ "invOrZero" \in RecipeOps /\ 0 \in Int  BY DEF RecipeOps
    <3> QED  BY <3>1, <1>2, RecipeIntro
  <2> HIDE DEF f, g
  <2>2. c1 = AddRecipe(AddRecipe(NewWires(c, 2), c.next, f), c.next + 1, g)  OBVIOUS
  <2> HIDE DEF c1
  <2>3. /\ Grown(c, c1, m) /\ c1.next = c.next + 2 /\ c1.next \in Nat /\ c1.next > 0
        /\ \A w : Satisfied(c1, w) <=> Satisfied(c, w)
      BY <2>1, <2>2, NamedFacts
  <2>4. Circuit(c1, m)  BY <2>3 DEF Grown
  <2>5. \A w \in Assignments : Satisfied(c, w) => \A a \in Field : \A b \in Field : Placed(c, c1, w, a, b)
    BY <2>1, <2>2, NamedPlaced
  <2>6. /\ d \in LCs(c1.next) /\ Unit(eq) \in LCs(c1.next) /\ Unit(inv) \in LCs(c1.next)
        /\ One \in LCs(c1.next) /\ Zero \in LCs(c1.next)
        /\ \A w \in Assignments : EvalLc(Unit(eq), w) = w[eq]
        /\ \A w \in Assignments : EvalLc(Unit(inv), w) = w[inv]
    <3> DEFINE k == c1.next
    <3>1. eq \in 0 .. k - 1 /\ inv \in 0 .. k - 1 /\ c.next <= k /\ k \in Nat  BY <1>1, <2>3
    <3>2. d \in LCs(k) /\ One \in LCs(k) /\ Zero \in LCs(k)  BY <1>1, <1>2, <1>3, <3>1, LcMono
    <3> HIDE DEF eq, inv, k
    <3>3. /\ Unit(eq) \in LCs(k) /\ Unit(inv) \in LCs(k)
          /\ \A w \in Assignments : EvalLc(Unit(eq), w) = w[eq]
          /\ \A w \in Assignments : EvalLc(Unit(inv), w) = w[inv]
        BY <3>1, UnitFacts
    <3> QED  BY <3>2, <3>3 DEF k
  <2>7. /\ rest \in LCs(c1.next)
        /\ \A w \in Assignments : EvalLc(rest, w) = Plus(1, Negated(w[eq]))
    <3> DEFINE u == Unit(eq)
    <3>1. u \in LCs(c1.next) /\ \A w \in Assignments : EvalLc(u, w) = w[eq]  BY <2>6
    <3> HIDE DEF u
    <3>2. /\ Minus(One, u) \in LCs(c1.next)
          /\ \A w \in Assignments : EvalLc(Minus(One, u), w) = Plus(EvalLc(One, w), Negated(EvalLc(u, w)))
        BY <2>3, <2>6, <3>1, MinusFacts
    <3> QED  BY <1>3, <3>1, <3>2 DEF u
  <2> HIDE DEF rest
  <2>8. /\ Grown(c1, c2, m) /\ c2.next = c1.next
        /\ \A w \in Assignments : Satisfied(c2, w) <=> Satisfied(c1, w) /\ Times(EvalLc(d, w), w[eq]) = 0
    <3> DEFINE u == Unit(eq)
    <3>1. u \in LCs(c1.next) /\ \A w \in Assignments : EvalLc(u, w) = w[eq]  BY <2>6
    <3>2. c2 = AddConstraint(c1, d, u, Zero)  OBVIOUS
    <3> HIDE DEF u, c2
    <3>3. Added(c1, c2, m, d, u, Zero)  BY <2>4, <2>6, <3>1, <3>2, AddedFacts
    <3> QED  BY <1>3, <3>1, <3>3 DEF Added
  <2> HIDE DEF c2
  <2>9. Circuit(c2, m)  BY <2>8 DEF Grown
  <2>10. /\ Grown(c2, c3, m) /\ c3.next = c2.next
         /\ \A w \in Assignments : Satisfied(c3, w) <=>
               Satisfied(c2, w) /\ Times(EvalLc(d, w), w[inv]) = Plus(1, Negated(w[eq]))
    <3> DEFINE u == Unit(inv)
    <3>1. u \in LCs(c2.next) /\ d \in LCs(c2.next) /\ rest \in LCs(c2.next)
          /\ \A w \in Assignments : EvalLc(u, w) = w[inv]
        BY <2>6, <2>7, <2>8
    <3>2. c3 = AddConstraint(c2, d, u, rest)  OBVIOUS
    <3> HIDE DEF u, c3
    <3>3. Added(c2, c3, m, d, u, rest)  BY <2>9, <3>1, <3>2, AddedFacts
    <3> QED  BY <2>7, <3>1, <3>3 DEF Added
  <2> HIDE DEF c3
  <2>11. Grown(c, c3, m)
    <3>1. Grown(c, c2, m)  BY <2>3, <2>8, GrownFacts
    <3> QED  BY <3>1, <2>10, GrownFacts
  <2>12. Unit(eq) \in LCs(c3.next)  BY <2>6, <2>8, <2>10
  <2>13. \A w \in Assignments : w[eq] \in Field /\ w[inv] \in Field  BY <1>1, AssignmentFacts
  <2>14. Plus(1, Negated(0)) = 1 /\ Plus(1, Negated(1)) = 0 /\ 0 \in Field /\ 1 \in Field
    BY FieldOps, DifferenceValue
  <2>15. ASSUME NEW w \in Assignments, Satisfied(c3, w)
         PROVE  Satisfied(c, w) /\ w[eq] = F[w]
    <3> DEFINE D == EvalLc(d, w)
               a == w[eq]
               b == w[inv]
    <3>1. D \in Field /\ a \in Field /\ b \in Field /\ Times(D, a) = 0 /\ Times(D, b) = Plus(1, Negated(a))
      BY <1>2, <2>8, <2>10, <2>13, <2>15
    <3>2. Satisfied(c, w)  BY <2>3, <2>8, <2>10, <2>15
    <3>3. F[w] = Truth(D = 0)  BY <1>2 DEF Truth
    <3> HIDE DEF D, a, b
    <3>4. CASE D = 0
      <4>1. Times(D, b) = 0  BY <3>1, <3>4, FieldRing
      <4>2. 1 = Plus(a, 0)  BY <2>14, <3>1, <4>1, FieldMinus
      <4>3. Plus(a, 0) = a  BY <3>1, FieldRing
      <4> QED  BY <3>2, <3>3, <3>4, <4>2, <4>3 DEF Truth, a
    <3>5. CASE D # 0
      <4>1. a = Times(Inverted(D), 0) /\ Inverted(D) \in Field
        BY <2>14, <3>1, <3>5, SolveFor, InvertedDef
      <4>2. Times(Inverted(D), 0) = 0  BY <4>1, FieldRing
      <4> QED  BY <3>2, <3>3, <3>5, <4>1, <4>2 DEF Truth, a
    <3> QED  BY <3>4, <3>5
  <2>16. ASSUME NEW w \in Assignments, Satisfied(c, w)
         PROVE  Extendable(c, c3, w)
    <3> DEFINE D == EvalLc(d, w)
               a == IF D = 0 THEN 1 ELSE 0
               b == IF D = 0 THEN 0 ELSE Inverted(D)
    <3>1. D \in Field  BY <1>2
    <3> HIDE DEF D
    <3>2. a \in Field /\ b \in Field /\ Times(D, a) = 0 /\ Times(D, b) = Plus(1, Negated(a))
      <4>1. CASE D = 0  BY <2>14, <3>1, <4>1, FieldRing
      <4>2. CASE D # 0  BY <2>14, <3>1, <4>2, FieldRing, InvertedDef
      <4> QED  BY <4>1, <4>2
    <3> HIDE DEF a, b
    <3>3. Placed(c, c1, w, a, b)  BY <2>5, <2>16, <3>2
    <3>4. PICK u \in Assignments : Agree(u, w, c.next) /\ Satisfied(c1, u) /\ u[eq] = a /\ u[inv] = b
      BY <3>3 DEF Placed
    <3>5. EvalLc(d, u) = D  BY <1>1, <1>2, <3>4, EvalAgree DEF D
    <3>6. Satisfied(c3, u)  BY <2>8, <2>10, <3>2, <3>4, <3>5
    <3> QED  BY <3>4, <3>6 DEF Extendable
  <2>17. Sound(c, c3, Unit(eq), F)
    <3>1. \A w \in Assignments : F[w] # Refused  BY <1>1 DEF Truth
    <3> QED  BY <2>6, <2>15, <3>1 DEF Sound
  <2>18. Complete(c, c3, F)  BY <2>16 DEF Complete
  <2>19. Lowers(c, c3, Unit(eq), m, F)  BY <2>11, <2>12, <2>17, <2>18 DEF Lowers
  <2>20. e = [c |-> c3, lc |-> Unit(eq)]  BY <1>0, <1>5
  <2> QED  BY <2>19, <2>20
<1> QED  BY <1>4, <1>5

-----------------------------------------------------------------------------
(***************************************************************************)
(* Range checks and bounds.                                                *)
(***************************************************************************)

\* num2bits as a range check.
LEMMA BitsLower ==
    ASSUME NEW m \in Nat, NEW c, Circuit(c, m), NEW value \in LCs(c.next), NEW n \in Nat, Pow2[n] <= P,
           NEW F, \A w \in Assignments : F[w] = IF EvalLc(value, w) < Pow2[n] THEN 0 ELSE Refused
    PROVE  Lowers(c, Num2Bits(c, value, n), Zero, m, F)
<1> DEFINE d == Num2Bits(c, value, n)
<1>1. /\ Grown(c, d, m) /\ d.next = c.next + n
      /\ \A w \in Assignments : Satisfied(d, w) <=>
            Satisfied(c, w) /\ Decomposed(w, c.next, n, EvalLc(value, w))
      /\ \A w \in Assignments : Satisfied(c, w) /\ EvalLc(value, w) < Pow2[n] => Extendable(c, d, w)
    BY Num2BitsFacts
<1> HIDE DEF d
<1>2. Circuit(d, m)  BY <1>1 DEF Grown
<1>3. Zero \in LCs(d.next) /\ \A w \in Assignments : EvalLc(Zero, w) = 0  BY <1>2, OneLc
<1>4. Sound(c, d, Zero, F)
  <2>1. 0 # Refused  BY RefusedFacts
  <2>2. \A w \in Assignments : Satisfied(d, w) => Satisfied(c, w) /\ EvalLc(value, w) < Pow2[n]
    BY <1>1 DEF Decomposed
  <2> QED  BY <1>3, <2>1, <2>2 DEF Sound
<1>5. Complete(c, d, F)  BY <1>1 DEF Complete
<1> QED  BY <1>1, <1>3, <1>4, <1>5 DEF Lowers, d

\* 2^k is above k.
LEMMA Pow2Above ==
    ASSUME NEW k \in Nat
    PROVE  Pow2[k] > k
<1> DEFINE S == {i \in Nat : Pow2[i] > i}
<1>1. S \subseteq Nat /\ 0 \in S  BY Pow2Facts
<1>2. \A i \in S : i + 1 \in S
  <2> SUFFICES ASSUME NEW i \in Nat, Pow2[i] > i PROVE i + 1 \in Nat /\ Pow2[i + 1] > i + 1
      OBVIOUS
  <2>1. Pow2[i] \in Nat /\ Pow2[i] >= 1 /\ Pow2[i + 1] = 2 * Pow2[i]  BY Pow2Facts
  <2> QED  BY <2>1
<1> HIDE DEF S
<1>3. S = Nat  BY <1>1, <1>2, SetInduction
<1> QED  BY <1>3 DEF S

\* The width computed for a bound is wide enough.
LEMMA WidthOfFacts ==
    ASSUME NEW k \in Nat, k < P
    PROVE  WidthOf(k) \in Nat /\ Pow2[WidthOf(k)] > k
<1> DEFINE T == {i \in 0 .. P : Pow2[i] > k}
<1>1. P \in Nat  BY Modulus
<1>2. P \in T
  <2>1. Pow2[P] > P /\ Pow2[P] \in Nat  BY <1>1, Pow2Above, Pow2Facts
  <2> QED  BY <1>1, <2>1
<1>3. T \subseteq Nat /\ T # {}  BY <1>1, <1>2
<1>4. WidthOf(k) = Min(T)  BY DEF WidthOf
<1>5. Min(T) \in T
  <2> HIDE DEF T
  <2> QED  BY <1>3, LeastOf
<1> QED  BY <1>1, <1>4, <1>5

\* The bounds of a let that the compiler accepts.
Bounds(lo, hi) ==
    lo \in Nat /\ hi \in Nat /\ lo <= hi /\ hi < P /\ 2 * Pow2[WidthOf(hi - lo)] <= P

\* Both range checks succeed exactly between the bounds.
LEMMA BoundsFacts ==
    ASSUME NEW lo, NEW hi, Bounds(lo, hi)
    PROVE  /\ lo \in Field /\ hi \in Field /\ lo % P = lo /\ hi % P = hi /\ lo \in Int /\ hi \in Int
           /\ WidthOf(hi - lo) \in Nat /\ Pow2[WidthOf(hi - lo)] <= P
           /\ \A x \in Field :
                 Plus(x, Negated(lo)) < Pow2[WidthOf(hi - lo)] /\ Plus(hi, Negated(x)) < Pow2[WidthOf(hi - lo)]
                 <=> x \in lo .. hi
<1> DEFINE k == hi - lo
           K == Pow2[WidthOf(hi - lo)]
<1>1. lo \in Nat /\ hi \in Nat /\ lo <= hi /\ hi < P /\ 2 * K <= P /\ P \in Nat /\ P > 2
  BY Modulus DEF Bounds
<1>2. k \in Nat /\ k < P  BY <1>1
<1>3. WidthOf(hi - lo) \in Nat /\ K > k
  <2> HIDE DEF k
  <2>1. WidthOf(k) \in Nat /\ Pow2[WidthOf(k)] > k  BY <1>2, WidthOfFacts
  <2> QED  BY <2>1 DEF k
<1>4. K \in Nat  BY <1>3, Pow2Facts
<1>5. K > hi - lo  BY <1>3
<1> HIDE DEF K, k
<1>6. lo \in Field /\ hi \in Field  BY <1>1 DEF Field
<1>7. lo % P = lo /\ hi % P = hi  BY <1>6, FieldMod
<1>8. K <= P  BY <1>1, <1>4
<1>9. ASSUME NEW x \in Field
      PROVE  Plus(x, Negated(lo)) < K /\ Plus(hi, Negated(x)) < K <=> x \in lo .. hi
  <2>1. x \in Nat /\ x < P  BY FieldMod
  <2>2. /\ Plus(x, Negated(lo)) = IF lo <= x THEN x - lo ELSE x - lo + P
        /\ Plus(hi, Negated(x)) = IF x <= hi THEN hi - x ELSE hi - x + P
      BY <1>6, DifferenceValue
  <2>3. CASE x < lo  BY <1>1, <1>4, <1>5, <2>1, <2>2, <2>3
  <2>4. CASE x > hi  BY <1>1, <1>4, <1>5, <2>1, <2>2, <2>4
  <2>5. CASE lo <= x /\ x <= hi  BY <1>1, <1>4, <1>5, <2>1, <2>2, <2>5
  <2> QED  BY <1>1, <2>1, <2>3, <2>4, <2>5
<1>10. lo \in Int /\ hi \in Int  BY <1>1
<1> QED  BY <1>3, <1>6, <1>7, <1>8, <1>9, <1>10 DEF K

\* A let with bounds.
LEMMA BoundedLowers ==
    ASSUME NEW m \in Nat, NEW c, Circuit(c, m), NEW x \in LCs(c.next), NEW lo, NEW hi, Bounds(lo, hi),
           NEW F, \A w \in Assignments : F[w] = IF EvalLc(x, w) \in lo .. hi THEN EvalLc(x, w) ELSE Refused
    PROVE  Lowers(c, Bounded(c, x, lo, hi), x, m, F)
<1> DEFINE k == WidthOf(hi - lo)
           low == Minus(x, Const(lo))
           high == Minus(Const(hi), x)
           c1 == Num2Bits(c, low, k)
           d == Num2Bits(c1, high, k)
           A == [w \in Assignments |-> IF EvalLc(low, w) < Pow2[k] THEN 0 ELSE Refused]
           B == [w \in Assignments |-> IF EvalLc(high, w) < Pow2[k] THEN 0 ELSE Refused]
           AB == [w \in Assignments |-> IF EvalLc(x, w) \in lo .. hi THEN 0 ELSE Refused]
<1>1. Bounded(c, x, lo, hi) = d  BY DEF Bounded
<1>2. /\ lo \in Field /\ hi \in Field /\ lo % P = lo /\ hi % P = hi /\ lo \in Int /\ hi \in Int
      /\ k \in Nat /\ Pow2[k] <= P
      /\ \A a \in Field :
            Plus(a, Negated(lo)) < Pow2[k] /\ Plus(hi, Negated(a)) < Pow2[k] <=> a \in lo .. hi
    BY BoundsFacts
<1> HIDE DEF k
<1>3. c.next \in Nat /\ c.next > 0 /\ 0 # Refused  BY CircuitFacts, RefusedFacts
<1>4. \A w \in Assignments : EvalLc(x, w) \in Field  BY <1>3, EvalType
<1>5. /\ low \in LCs(c.next) /\ high \in LCs(c.next)
      /\ \A w \in Assignments : EvalLc(low, w) = Plus(EvalLc(x, w), Negated(lo))
      /\ \A w \in Assignments : EvalLc(high, w) = Plus(hi, Negated(EvalLc(x, w)))
  <2> DEFINE l == Const(lo)
             h == Const(hi)
  <2>1. /\ l \in LCs(c.next) /\ h \in LCs(c.next)
        /\ \A w \in Assignments : EvalLc(l, w) = lo
        /\ \A w \in Assignments : EvalLc(h, w) = hi
      BY <1>2, <1>3, ConstFacts
  <2> HIDE DEF l, h
  <2>2. /\ Minus(x, l) \in LCs(c.next) /\ Minus(h, x) \in LCs(c.next)
        /\ \A w \in Assignments : EvalLc(Minus(x, l), w) = Plus(EvalLc(x, w), Negated(EvalLc(l, w)))
        /\ \A w \in Assignments : EvalLc(Minus(h, x), w) = Plus(EvalLc(h, w), Negated(EvalLc(x, w)))
      BY <1>3, <2>1, MinusFacts
  <2> QED  BY <2>1, <2>2 DEF l, h
<1> HIDE DEF low, high
<1>6. /\ \A w \in Assignments : A[w] = IF EvalLc(low, w) < Pow2[k] THEN 0 ELSE Refused
      /\ \A w \in Assignments : B[w] = IF EvalLc(high, w) < Pow2[k] THEN 0 ELSE Refused
      /\ \A w \in Assignments : AB[w] = IF EvalLc(x, w) \in lo .. hi THEN 0 ELSE Refused
    OBVIOUS
<1> HIDE DEF A, B, AB
<1>7. Lowers(c, c1, Zero, m, A)  BY <1>2, <1>5, <1>6, BitsLower
<1> HIDE DEF c1
<1>8. /\ Circuit(c1, m) /\ high \in LCs(c1.next)
      /\ \A w \in Assignments : Satisfied(c1, w) => EvalLc(low, w) < Pow2[k]
    BY <1>5, <1>6, <1>7, LowersFacts
<1>9. Lowers(c1, d, Zero, m, B)  BY <1>2, <1>6, <1>8, BitsLower
<1> HIDE DEF d
<1>10. Lowers(c, d, Zero, m, AB)
  <2>1. \A w \in Assignments : EvalLc(low, w) < Pow2[k] /\ EvalLc(high, w) < Pow2[k] <=> EvalLc(x, w) \in lo .. hi
    BY <1>2, <1>4, <1>5
  <2>2. \A w \in Assignments : Satisfied(c1, w) => B[w] = AB[w]  BY <1>6, <1>8, <2>1
  <2>3. \A w \in Assignments : AB[w] # Refused => A[w] # Refused  BY <1>3, <1>6, <2>1
  <2>4. Local(AB, c.next)  BY <1>3, <1>6, EvalAgree DEF Local
  <2> QED  BY <1>7, <1>9, <2>2, <2>3, <2>4, ThenLowers
<1>11. /\ x \in LCs(d.next)
       /\ \A w \in Assignments : Satisfied(d, w) => EvalLc(x, w) = F[w]
    BY <1>6, <1>10, LowersFacts
<1>12. \A w \in Assignments : F[w] # Refused <=> AB[w] # Refused
  <2>1. \A w \in Assignments : EvalLc(x, w) # Refused  BY <1>4, RefusedFacts
  <2> QED  BY <1>3, <1>6, <2>1
<1> QED  BY <1>1, <1>10, <1>11, <1>12, RelabelLowers

-----------------------------------------------------------------------------
(***************************************************************************)
(* Bitwise operations.  The gadget has the bits of both operands and their *)
(* products; or and xor are linear in these.                               *)
(***************************************************************************)

\* What an operation does to two bits.
BitOf(op, a, b) ==
    CASE op = "bitand" -> a * b [] op = "bitor" -> Truth(a + b > 0) [] op = "bitxor" -> Truth(a # b)

\* The digits of x as a string,
Bits(x) == [i \in Nat |-> Digit(x, i)]

\* and those of an operation.
Combined(op, x, y) == [i \in Nat |-> BitOf(op, Digit(x, i), Digit(y, i))]

\* The bitwise operations.
BitOps == {"bitand", "bitor", "bitxor"}

\* or and xor by sum and product.
LEMMA BitOfFacts ==
    ASSUME NEW a \in {0, 1}, NEW b \in {0, 1}
    PROVE  /\ \A op \in BitOps : BitOf(op, a, b) \in {0, 1}
           /\ Times(a, b) = BitOf("bitand", a, b)
           /\ a + b = BitOf("bitor", a, b) + BitOf("bitand", a, b)
           /\ a + b = BitOf("bitxor", a, b) + 2 * BitOf("bitand", a, b)
<1>1. /\ BitOf("bitand", a, b) = a * b /\ BitOf("bitor", a, b) = Truth(a + b > 0)
      /\ BitOf("bitxor", a, b) = Truth(a # b)
    BY DEF BitOf
<1>2. a * b \in {0, 1} /\ a * b \in Field /\ (a * b) % P = a * b
  <2>1. a * b \in {0, 1}  OBVIOUS
  <2>2. 0 \in Field /\ 1 \in Field  BY FieldOps
  <2> QED  BY <2>1, <2>2, FieldMod
<1>3. \A op \in BitOps : BitOf(op, a, b) \in {0, 1}
  <2>1. Truth(a + b > 0) \in {0, 1} /\ Truth(a # b) \in {0, 1}  BY DEF Truth
  <2> QED  BY <1>1, <1>2, <2>1 DEF BitOps
<1>4. Times(a, b) = BitOf("bitand", a, b)  BY <1>1, <1>2 DEF Times
<1>5. a + b = BitOf("bitor", a, b) + BitOf("bitand", a, b)  BY <1>1 DEF Truth
<1>6. a + b = BitOf("bitxor", a, b) + 2 * BitOf("bitand", a, b)  BY <1>1 DEF Truth
<1> QED  BY <1>3, <1>4, <1>5, <1>6

\* The strings are strings of bits.
LEMMA BitsFacts ==
    ASSUME NEW x \in Nat, NEW y \in Nat
    PROVE  /\ Bits(x) \in BitStrings /\ \A i \in Nat : Bits(x)[i] = Digit(x, i)
           /\ \A op \in BitOps : Combined(op, x, y) \in BitStrings
           /\ \A op \in BitOps : \A i \in Nat :
                 Combined(op, x, y)[i] = BitOf(op, Digit(x, i), Digit(y, i))
<1>1. \A i \in Nat : Digit(x, i) \in {0, 1} /\ Digit(y, i) \in {0, 1}  BY DigitType
<1>2. \A op \in BitOps : \A i \in Nat : BitOf(op, Digit(x, i), Digit(y, i)) \in {0, 1}
  BY <1>1, BitOfFacts
<1> QED  BY <1>1, <1>2 DEF Bits, Combined, BitStrings

\* BitSum, the meaning of the statement, is the number with the combined bits.
LEMMA BitSumBin ==
    ASSUME NEW x \in Nat, NEW y \in Nat, NEW n \in Nat, NEW op \in BitOps
    PROVE  BitSum(op, x, y, n) = Bin(Combined(op, x, y), n)
<1> DEFINE h == [i \in Nat |-> Pow2[i] * Combined(op, x, y)[i]]
           f == [i \in 0 .. n - 1 |-> h[i]]
           g == [i \in 0 .. n - 1 |-> Pow2[i] * BitOf(op, (x \div Pow2[i]) % 2, (y \div Pow2[i]) % 2)]
<1>1. f = g
  <2> SUFFICES ASSUME NEW i \in 0 .. n - 1
               PROVE  h[i] = Pow2[i] * BitOf(op, (x \div Pow2[i]) % 2, (y \div Pow2[i]) % 2)
      OBVIOUS
  <2>1. i \in Nat  OBVIOUS
  <2>2. Combined(op, x, y)[i] = BitOf(op, Digit(x, i), Digit(y, i))  BY <2>1, BitsFacts
  <2> QED  BY <2>1, <2>2 DEF Digit
<1>2. Bin(Combined(op, x, y), n) = SumFunction(f)  BY DEF Bin, Total
<1>3. BitSum(op, x, y, n) = SumFunction(g)  BY DEF BitSum, BitOf
<1> QED  BY <1>1, <1>2, <1>3

\* The bits a + b are s + t * r.
Splits(a, b, s, r, t) == \A i \in Nat : a[i] + b[i] = s[i] + t * r[i]

\* So are the numbers.
LEMMA BinLinear ==
    ASSUME NEW a \in BitStrings, NEW b \in BitStrings, NEW s \in BitStrings, NEW r \in BitStrings,
           NEW t \in {1, 2}, Splits(a, b, s, r, t)
    PROVE  \A k \in Nat : Bin(a, k) + Bin(b, k) = Bin(s, k) + t * Bin(r, k)
<1> DEFINE S == {k \in Nat : Bin(a, k) + Bin(b, k) = Bin(s, k) + t * Bin(r, k)}
<1>1. S \subseteq Nat /\ 0 \in S  BY BinStep
<1>2. \A k \in S : k + 1 \in S
  <2> SUFFICES ASSUME NEW k \in Nat, Bin(a, k) + Bin(b, k) = Bin(s, k) + t * Bin(r, k)
               PROVE  Bin(a, k + 1) + Bin(b, k + 1) = Bin(s, k + 1) + t * Bin(r, k + 1)
      OBVIOUS
  <2> DEFINE K == Pow2[k]
  <2>1. a[k] \in {0, 1} /\ b[k] \in {0, 1} /\ s[k] \in {0, 1} /\ r[k] \in {0, 1}
    BY DEF BitStrings
  <2>2. K \in Int  BY Pow2Facts
  <2>3. /\ Bin(a, k + 1) = Bin(a, k) + K * a[k] /\ Bin(a, k) \in Int
        /\ Bin(b, k + 1) = Bin(b, k) + K * b[k] /\ Bin(b, k) \in Int
        /\ Bin(s, k + 1) = Bin(s, k) + K * s[k] /\ Bin(s, k) \in Int
        /\ Bin(r, k + 1) = Bin(r, k) + K * r[k] /\ Bin(r, k) \in Int
      BY BinStep
  <2> HIDE DEF K
  <2>4. K * a[k] + K * b[k] = K * s[k] + t * (K * r[k])
    <3>1. a[k] + b[k] = s[k] + t * r[k]  BY DEF Splits
    <3>2. /\ K * a[k] = IF a[k] = 1 THEN K ELSE 0
          /\ K * b[k] = IF b[k] = 1 THEN K ELSE 0
          /\ K * s[k] = IF s[k] = 1 THEN K ELSE 0
          /\ K * r[k] = IF r[k] = 1 THEN K ELSE 0
        BY <2>1, <2>2
    <3> DEFINE A == K * a[k]
               B == K * b[k]
               C0 == K * s[k]
               D == K * r[k]
    <3>3. /\ A = IF a[k] = 1 THEN K ELSE 0
          /\ B = IF b[k] = 1 THEN K ELSE 0
          /\ C0 = IF s[k] = 1 THEN K ELSE 0
          /\ D = IF r[k] = 1 THEN K ELSE 0
        BY <3>2
    <3> HIDE DEF A, B, C0, D
    <3>4. A + B = C0 + t * D  BY <2>1, <2>2, <3>1, <3>3
    <3> QED  BY <3>4 DEF A, B, C0, D
  <2> DEFINE A == K * a[k]
             B == K * b[k]
             C0 == K * s[k]
             D == K * r[k]
  <2>5. A \in Int /\ B \in Int /\ C0 \in Int /\ D \in Int /\ A + B = C0 + t * D
    <3>1. a[k] \in Int /\ b[k] \in Int /\ s[k] \in Int /\ r[k] \in Int  BY <2>1
    <3>2. \A i \in Int : K * i \in Int  BY <2>2
    <3>3. A \in Int /\ B \in Int /\ C0 \in Int /\ D \in Int  BY <3>1, <3>2
    <3> QED  BY <2>4, <3>3
  <2>6. /\ Bin(a, k + 1) = Bin(a, k) + A /\ Bin(b, k + 1) = Bin(b, k) + B
        /\ Bin(s, k + 1) = Bin(s, k) + C0 /\ Bin(r, k + 1) = Bin(r, k) + D
      BY <2>3
  <2> HIDE DEF A, B, C0, D
  <2> DEFINE u == t * Bin(r, k)
             v == t * D
  <2>7. u \in Int /\ v \in Int /\ t * Bin(r, k + 1) = u + v
    <3> DEFINE r0 == Bin(r, k)
               r1 == Bin(r, k + 1)
    <3>1. r0 \in Int /\ r1 = r0 + D /\ D \in Int  BY <2>3, <2>5, <2>6
    <3> HIDE DEF r0, r1
    <3>2. t * r0 \in Int /\ t * D \in Int /\ t * r1 = t * r0 + t * D
      <4>1. CASE t = 1  BY <3>1, <4>1
      <4>2. CASE t = 2  BY <3>1, <4>2
      <4> QED  BY <4>1, <4>2
    <3> QED  BY <3>2 DEF r0, r1
  <2>8. Bin(a, k) + Bin(b, k) = Bin(s, k) + u /\ A + B = C0 + v  BY <2>5
  <2> HIDE DEF u, v
  <2>9. Bin(a, k + 1) + Bin(b, k + 1) = Bin(s, k + 1) + (u + v)  BY <2>3, <2>5, <2>6, <2>7, <2>8
  <2> QED  BY <2>7, <2>9
<1> HIDE DEF S
<1>3. S = Nat  BY <1>1, <1>2, SetInduction
<1> QED  BY <1>3 DEF S

\* The n wires from p on are the products of those from a and b on.
Multiplied(w, a, b, p, n) == \A i \in 0 .. n - 1 : w[p + i] = Times(w[a + i], w[b + i])

\* The constraints that say so.
Products(c, a, b, n) ==
    [NewWires(c, n) EXCEPT !.cs =
        @ \o [i \in 1 .. n |->
                 Constraint(Unit(a + (i - 1)), Unit(b + (i - 1)), Unit(c.next + (i - 1)))]]

\* They say so, and can be satisfied.
LEMMA ProductsFacts ==
    ASSUME NEW m \in Nat, NEW c, Circuit(c, m), NEW n \in Nat, NEW a \in Nat, NEW b \in Nat,
           a + n <= c.next, b + n <= c.next, NEW d, d = Products(c, a, b, n)
    PROVE  /\ Grown(c, d, m) /\ d.next = c.next + n
           /\ \A w \in Assignments :
                 Satisfied(d, w) <=> Satisfied(c, w) /\ Multiplied(w, a, b, c.next, n)
           /\ \A w \in Assignments : Satisfied(c, w) => Extendable(c, d, w)
<1> DEFINE p == c.next
           N == p + n
           products == [i \in 1 .. n |->
                           Constraint(Unit(a + (i - 1)), Unit(b + (i - 1)), Unit(p + (i - 1)))]
           cs == c.cs \o products
           e == [next |-> N, cs |-> cs, rec |-> c.rec, inputs |-> c.inputs, out |-> c.out]
<1>1. /\ p \in Nat /\ p > 0 /\ c.cs \in Seq(Constraints(p)) /\ c.rec \in RecipeMaps(p)
      /\ c = [next |-> p, cs |-> c.cs, rec |-> c.rec, inputs |-> c.inputs, out |-> c.out]
    BY CircuitFacts
<1>2. d = e
  <2>1. d = [[c EXCEPT !.next = @ + n] EXCEPT !.cs = @ \o products]  BY DEF Products, NewWires
  <2> HIDE DEF products
  <2>2. d = [c EXCEPT !.next = N, !.cs = cs]  BY <1>1, <2>1
  <2> HIDE DEF N, cs
  <2> QED  BY <1>1, <2>2
<1>3. N \in Nat /\ p <= N /\ N > 0  BY <1>1
<1>4. c.cs \in Seq(Constraints(N)) /\ c.rec \in RecipeMaps(N)
  <2>1. RecipeMaps(p) \subseteq RecipeMaps(N) /\ Constraints(p) \subseteq Constraints(N)
    BY <1>1, <1>3, RecipeMono
  <2> HIDE DEF N
  <2> QED  BY <1>1, <2>1
<1>5. ASSUME NEW i \in 0 .. n - 1
      PROVE  LET k == Constraint(Unit(a + i), Unit(b + i), Unit(p + i))
             IN  /\ k \in Constraints(N)
                 /\ \A w \in Assignments : Holds(k, w) <=> w[p + i] = Times(w[a + i], w[b + i])
  <2> DEFINE x == Unit(a + i)
             y == Unit(b + i)
             z == Unit(p + i)
             u == a + i
             v == b + i
             t == p + i
  <2>1. u \in 0 .. N - 1 /\ v \in 0 .. N - 1 /\ t \in 0 .. N - 1  BY <1>1
  <2>2. /\ x = Unit(u) /\ y = Unit(v) /\ z = Unit(t)  OBVIOUS
  <2> HIDE DEF u, v, t, N
  <2>3. /\ x \in LCs(N) /\ y \in LCs(N) /\ z \in LCs(N)
        /\ \A w \in Assignments : EvalLc(x, w) = w[u]
        /\ \A w \in Assignments : EvalLc(y, w) = w[v]
        /\ \A w \in Assignments : EvalLc(z, w) = w[t]
      BY <1>3, <2>1, <2>2, UnitFacts
  <2> HIDE DEF x, y, z
  <2>4. Constraint(x, y, z) \in Constraints(N)  BY <2>3 DEF Constraint, Constraints
  <2>5. \A w \in Assignments : Holds(Constraint(x, y, z), w) <=> w[t] = Times(w[u], w[v])
    BY <2>3 DEF Constraint, Holds
  <2> QED  BY <2>4, <2>5 DEF x, y, z, u, v, t
<1>6. /\ products \in Seq(Constraints(N)) /\ DOMAIN products = 1 .. n
      /\ \A w \in Assignments : AllHold(products, w) <=> Multiplied(w, a, b, p, n)
  <2>1. \A i \in 1 .. n : i - 1 \in 0 .. n - 1 /\ i - 1 \in Int  OBVIOUS
  <2>2. \A i \in 0 .. n - 1 : i + 1 \in 1 .. n /\ (i + 1) - 1 = i  OBVIOUS
  <2> DEFINE K(j) == Constraint(Unit(a + j), Unit(b + j), Unit(p + j))
  <2>3. /\ \A j \in 0 .. n - 1 : K(j) \in Constraints(N)
        /\ \A j \in 0 .. n - 1 : \A w \in Assignments :
              Holds(K(j), w) <=> w[p + j] = Times(w[a + j], w[b + j])
      BY <1>5
  <2>4. products = [i \in 1 .. n |-> K(i - 1)]  OBVIOUS
  <2> HIDE DEF K, products, N
  <2>5. \A i \in 1 .. n : K(i - 1) \in Constraints(N)  BY <2>1, <2>3
  <2>6. products \in [1 .. n -> Constraints(N)] /\ \A i \in 1 .. n : products[i] = K(i - 1)
    BY <2>4, <2>5
  <2>7. products \in Seq(Constraints(N)) /\ DOMAIN products = 1 .. n  BY <2>6
  <2>8. ASSUME NEW w \in Assignments
        PROVE  AllHold(products, w) <=> Multiplied(w, a, b, p, n)
    <3>1. AllHold(products, w) <=> \A i \in 1 .. n : Holds(K(i - 1), w)  BY <2>6, <2>7 DEF AllHold
    <3>2. (\A i \in 1 .. n : Holds(K(i - 1), w)) <=> \A j \in 0 .. n - 1 : Holds(K(j), w)
      BY <2>1, <2>2
    <3> QED  BY <2>3, <3>1, <3>2 DEF Multiplied
  <2> QED  BY <2>7, <2>8
<1> HIDE DEF products
<1>7. cs \in Seq(Constraints(N)) /\ \A w : AllHold(cs, w) <=> AllHold(c.cs, w) /\ AllHold(products, w)
  <2> HIDE DEF N
  <2>1. \A w : AllHold(c.cs \o products, w) <=> AllHold(c.cs, w) /\ AllHold(products, w)
    <3>1. Constraint(Zero, Zero, Zero) \in Constraints(N)
      BY <1>3, ZeroType DEF Constraint, Constraints
    <3> QED  BY <1>4, <1>6, <3>1, AllHoldFacts
  <2> QED  BY <1>4, <1>6, <2>1
<1> HIDE DEF cs
<1>8. Circuit(e, m)
  <2> HIDE DEF N
  <2> QED  BY <1>1, <1>3, <1>4, <1>7, CircuitIntro
<1>9. Grown(c, d, m) /\ d.next = N /\ d.cs = cs  BY <1>1, <1>2, <1>3, <1>8 DEF Grown
<1>10. \A w \in Assignments : Satisfied(d, w) <=> Satisfied(c, w) /\ Multiplied(w, a, b, p, n)
  BY <1>6, <1>7, <1>9, SatisfiedDef
<1>11. ASSUME NEW w \in Assignments, Satisfied(c, w)
       PROVE  Extendable(c, d, w)
  <2> DEFINE g == [v \in Nat |-> IF v >= p /\ v < N THEN Times(w[a + (v - p)], w[b + (v - p)]) ELSE 0]
  <2>1. g \in [Nat -> Field]
    <3> SUFFICES ASSUME NEW v \in Nat
                 PROVE  (IF v >= p /\ v < N THEN Times(w[a + (v - p)], w[b + (v - p)]) ELSE 0) \in Field
        OBVIOUS
    <3>1. v >= p => a + (v - p) \in Nat /\ b + (v - p) \in Nat  BY <1>1
    <3>2. v >= p => w[a + (v - p)] \in Field /\ w[b + (v - p)] \in Field  BY <3>1, AssignmentFacts
    <3> QED  BY <3>2, FieldOps
  <2>2. \A i \in 0 .. n - 1 : /\ p + i \in Nat /\ p + i >= p
                              /\ g[p + i] = Times(w[a + i], w[b + i])
    <3>1. \A i \in 0 .. n - 1 : p + i \in Nat /\ p + i >= p /\ p + i < N /\ (p + i) - p = i
      BY <1>1
    <3> HIDE DEF p, N
    <3> QED  BY <3>1
  <2> HIDE DEF g
  <2>3. p \in Nat \ {0}  BY <1>1
  <2> HIDE DEF p
  <2>4. PICK u \in Assignments : Agree(u, w, p) /\ \A v \in Nat : v >= p => u[v] = g[v]
    BY <2>1, <2>3, Chosen
  <2>5. Satisfied(c, u)  BY <1>11, <2>4, SatisfiedAgree DEF p
  <2>6. Multiplied(u, a, b, p, n)
    <3> SUFFICES ASSUME NEW i \in 0 .. n - 1 PROVE u[p + i] = Times(u[a + i], u[b + i])
      BY DEF Multiplied
    <3>1. u[p + i] = Times(w[a + i], w[b + i])  BY <2>2, <2>4
    <3>2. a + i \in 0 .. p - 1 /\ b + i \in 0 .. p - 1  BY <1>1 DEF p
    <3>3. u[a + i] = w[a + i] /\ u[b + i] = w[b + i]  BY <2>4, <3>2 DEF Agree
    <3> QED  BY <3>1, <3>3
  <2>7. Satisfied(d, u)  BY <1>10, <2>5, <2>6 DEF p
  <2> QED  BY <2>4, <2>7 DEF Extendable, p
<1> QED  BY <1>9, <1>10, <1>11

\* Linear combinations of different wires are added by joining them.
LEMMA OverDisjoint ==
    ASSUME NEW n \in Nat, NEW f \in LCs(n), NEW g \in LCs(n), Wires(f) \cap Wires(g) = {}
    PROVE  Over(f, g) = AddLinear(f, g, 1)
<1> DEFINE sum(w) == Plus(Coef(f, w), Times(1, Coef(g, w)))
           D == {v \in Wires(f) \cup Wires(g) : sum(v) # 0}
<1>1. \A v \in Wires(f) : v \notin Wires(g) /\ Coef(f, v) = f[v] /\ Coef(g, v) = 0 /\ f[v] \in Field /\ f[v] # 0
  BY LcFacts DEF Coef
<1>2. \A v \in Wires(g) : v \notin Wires(f) /\ Coef(g, v) = g[v] /\ Coef(f, v) = 0 /\ g[v] \in Field /\ g[v] # 0
  BY LcFacts DEF Coef
<1>3. \A x \in Field : Plus(x, Times(1, 0)) = x /\ Plus(0, Times(1, x)) = x
  BY FieldRing, FieldOps
<1>4. \A v \in Wires(f) : sum(v) = f[v]  BY <1>1, <1>3
<1>5. \A v \in Wires(g) : sum(v) = g[v]  BY <1>2, <1>3
<1> HIDE DEF sum
<1>6. D = Wires(f) \cup Wires(g)  BY <1>1, <1>2, <1>4, <1>5
<1>7. AddLinear(f, g, 1) = [w \in D |-> sum(w)]  BY DEF AddLinear, sum
<1>8. \A w \in Wires(f) \cup Wires(g) : sum(w) = IF w \in Wires(f) THEN f[w] ELSE g[w]
  BY <1>4, <1>5
<1>9. Over(f, g) = [w \in Wires(f) \cup Wires(g) |-> IF w \in Wires(f) THEN f[w] ELSE g[w]]
  BY DEF Over, Wires
<1> HIDE DEF D
<1> QED  BY <1>6, <1>7, <1>8, <1>9

\* A linear combination that recomposes bits.
LEMMA BitLcs ==
    ASSUME NEW n \in Nat, Pow2[n] <= P, NEW a \in Nat \ {0}, NEW N \in Nat, a + n <= N
    PROVE  /\ [v \in a .. a + n - 1 |-> Pow2[v - a] % P] = Weights(a, n, 0)
           /\ Weights(a, n, 0) \in LCs(N) /\ Wires(Weights(a, n, 0)) = a .. a + n - 1
           /\ \A w \in Assignments : \A b \in BitStrings :
                 (\A i \in 0 .. n - 1 : w[a + i] = b[i]) => EvalLc(Weights(a, n, 0), w) = Bin(b, n)
<1>1. ASSUME NEW v \in a .. a + n - 1 PROVE Pow2[v - a] % P = Pow2[0 + (v - a)]
  <2> DEFINE j == v - a
  <2>1. j \in Nat /\ j + 1 \in Nat /\ j + 1 <= n /\ 0 + j = j  OBVIOUS
  <2> HIDE DEF j
  <2>2. Pow2[j] \in Nat \ {0} /\ Pow2[j + 1] = 2 * Pow2[j] /\ Pow2[n] \in Int  BY <2>1, Pow2Facts
  <2>3. Pow2[j + 1] <= Pow2[n]  BY <2>1, Pow2Mono
  <2>4. Pow2[j] \in Field  BY <2>2, <2>3, Modulus DEF Field
  <2>5. Pow2[j] % P = Pow2[j]  BY <2>4, FieldMod
  <2> QED  BY <2>1, <2>5 DEF j
<1>2. Wires(Weights(a, n, 0)) = a .. a + n - 1  BY DEF Weights, Wires
<1>3. [v \in a .. a + n - 1 |-> Pow2[v - a] % P] = Weights(a, n, 0)  BY <1>1 DEF Weights
<1> DEFINE f == Weights(a, n, 0)
<1>4. 0 \in Nat /\ Pow2[0 + n] <= P /\ Pow2[0] = 1 /\ \A b \in BitStrings : Bin(b, n) \in Int
  <2>1. 0 + n = n  OBVIOUS
  <2> QED  BY <2>1, Pow2Facts, BinStep
<1>5. /\ f \in LCs(N)
      /\ \A w \in Assignments : \A b \in BitStrings :
            (\A i \in 0 .. n - 1 : w[a + i] = b[i]) => EvalLc(f, w) = Pow2[0] * Bin(b, n)
    BY <1>4, WeightsFacts
<1> HIDE DEF f
<1>6. \A b \in BitStrings : Pow2[0] * Bin(b, n) = Bin(b, n)  BY <1>4
<1> QED  BY <1>2, <1>3, <1>5, <1>6 DEF f

\* s + r - r is s,
LEMMA CancelOnce ==
    ASSUME NEW s \in Field, NEW r \in Field
    PROVE  Plus(Plus(s, r), Negated(r)) = s
BY FieldRing, FieldOps

\* and s + 2r - 2r.
LEMMA CancelTwice ==
    ASSUME NEW s \in Field, NEW r \in Field
    PROVE  Plus(Plus(s, Plus(r, r)), Times(P - 2, r)) = s
<1>1. P - 2 \in Field /\ P - 1 \in Field /\ Plus(P - 1, P - 1) = P - 2
  <2>1. P - 2 \in Field /\ P - 1 \in Field  BY Modulus DEF Field
  <2> QED  BY <2>1, SumValue, Modulus
<1> DEFINE t == Negated(r)
<1>2. t \in Field /\ Plus(r, t) = 0 /\ Times(P - 1, r) = t  BY FieldRing, FieldOps
<1>3. Times(P - 2, r) = Plus(t, t)
  <2>1. Times(r, Plus(P - 1, P - 1)) = Plus(Times(r, P - 1), Times(r, P - 1))  BY <1>1, FieldRing
  <2>2. Times(r, P - 1) = t /\ Times(P - 2, r) = Times(r, P - 2)  BY <1>1, <1>2, FieldRing
  <2> QED  BY <1>1, <2>1, <2>2
<1> HIDE DEF t
<1>4. Plus(r, r) \in Field /\ Plus(t, t) \in Field /\ 0 \in Field /\ Plus(s, r) \in Field
  BY <1>2, FieldOps
<1>5. Plus(Plus(s, Plus(r, r)), Plus(t, t)) = Plus(Plus(Plus(s, Plus(r, r)), t), t)
  BY <1>2, <1>4, FieldRing, FieldOps
<1>6. Plus(s, Plus(r, r)) = Plus(Plus(s, r), r)  BY FieldRing
<1>7. Plus(Plus(Plus(s, r), r), t) = Plus(s, r)
  <2>1. Plus(Plus(Plus(s, r), r), t) = Plus(Plus(s, r), Plus(r, t))  BY <1>2, <1>4, FieldRing
  <2> QED  BY <1>2, <1>4, <2>1, FieldRing
<1>8. Plus(Plus(s, r), t) = s
  <2>1. Plus(Plus(s, r), t) = Plus(s, Plus(r, t))  BY <1>2, FieldRing
  <2> QED  BY <1>2, <2>1, FieldRing, <1>4
<1> QED  BY <1>3, <1>5, <1>6, <1>7, <1>8

\* What and, or and xor are in the field.
LEMMA BitSumFacts ==
    ASSUME NEW x \in Nat, NEW y \in Nat, NEW n \in Nat, Pow2[n] <= P, x < Pow2[n], y < Pow2[n]
    PROVE  /\ \A op \in BitOps : BitSum(op, x, y, n) \in Field
           /\ Bin(Bits(x), n) = x /\ Bin(Bits(y), n) = y
           /\ Bin(Combined("bitand", x, y), n) = BitSum("bitand", x, y, n)
           /\ Plus(x, y) = Plus(BitSum("bitor", x, y, n), BitSum("bitand", x, y, n))
           /\ Plus(x, y) = Plus(BitSum("bitxor", x, y, n),
                                Plus(BitSum("bitand", x, y, n), BitSum("bitand", x, y, n)))
<1> DEFINE X == Bits(x)
           Y == Bits(y)
           A == Combined("bitand", x, y)
           O == Combined("bitor", x, y)
           E == Combined("bitxor", x, y)
<1>1. "bitand" \in BitOps /\ "bitor" \in BitOps /\ "bitxor" \in BitOps  BY DEF BitOps
<1>2. X \in BitStrings /\ Y \in BitStrings /\ A \in BitStrings /\ O \in BitStrings /\ E \in BitStrings
  BY <1>1, BitsFacts
<1>3. \A i \in Nat : /\ X[i] = Digit(x, i) /\ Y[i] = Digit(y, i)
                     /\ A[i] = BitOf("bitand", X[i], Y[i])
                     /\ O[i] = BitOf("bitor", X[i], Y[i]) /\ E[i] = BitOf("bitxor", X[i], Y[i])
    BY <1>1, BitsFacts
<1> HIDE DEF X, Y, A, O, E
<1>4. \A i \in Nat : X[i] \in {0, 1} /\ Y[i] \in {0, 1}  BY <1>2 DEF BitStrings
<1>5. \A i \in Nat : X[i] + Y[i] = O[i] + 1 * A[i]
  <2> SUFFICES ASSUME NEW i \in Nat PROVE X[i] + Y[i] = O[i] + 1 * A[i]  OBVIOUS
  <2>1. X[i] + Y[i] = O[i] + A[i]  BY <1>3, <1>4, BitOfFacts
  <2>2. A[i] \in {0, 1}  BY <1>2 DEF BitStrings
  <2> QED  BY <2>1, <2>2
<1>6. \A i \in Nat : X[i] + Y[i] = E[i] + 2 * A[i]  BY <1>3, <1>4, BitOfFacts
<1>7. Bin(X, n) + Bin(Y, n) = Bin(O, n) + 1 * Bin(A, n)
  <2> DEFINE t == 1
  <2>1. t \in {1, 2} /\ Splits(X, Y, O, A, t)  BY <1>5 DEF Splits
  <2> HIDE DEF t
  <2>2. \A k \in Nat : Bin(X, k) + Bin(Y, k) = Bin(O, k) + t * Bin(A, k)  BY <1>2, <2>1, BinLinear
  <2>3. Bin(X, n) + Bin(Y, n) = Bin(O, n) + t * Bin(A, n)  BY <2>2
  <2> QED  BY <2>3 DEF t
<1>8. Bin(X, n) + Bin(Y, n) = Bin(E, n) + 2 * Bin(A, n)
  <2> DEFINE t == 2
  <2>1. t \in {1, 2} /\ Splits(X, Y, E, A, t)  BY <1>6 DEF Splits
  <2> HIDE DEF t
  <2>2. \A k \in Nat : Bin(X, k) + Bin(Y, k) = Bin(E, k) + t * Bin(A, k)  BY <1>2, <2>1, BinLinear
  <2>3. Bin(X, n) + Bin(Y, n) = Bin(E, n) + t * Bin(A, n)  BY <2>2
  <2> QED  BY <2>3 DEF t
<1>9. Pow2[n] \in Nat \ {0}  BY Pow2Facts
<1>10. Bin(X, n) = x /\ Bin(Y, n) = y
  <2>1. \A i \in 0 .. n - 1 : X[i] = Digit(x, i) /\ Y[i] = Digit(y, i)  BY <1>3
  <2>2. Bin(X, n) = x % Pow2[n] /\ Bin(Y, n) = y % Pow2[n]  BY <1>2, <2>1, DigitsBin
  <2> QED  BY <1>9, <2>2, SmallMod
<1>11. ASSUME NEW b \in BitStrings PROVE Bin(b, n) \in Field
  <2>1. Bin(b, n) \in 0 .. Pow2[n] - 1  BY BinBound
  <2> QED  BY <1>9, <2>1, Modulus DEF Field
<1>12. /\ BitSum("bitand", x, y, n) = Bin(A, n) /\ BitSum("bitor", x, y, n) = Bin(O, n)
       /\ BitSum("bitxor", x, y, n) = Bin(E, n)
    BY <1>1, BitSumBin DEF A, O, E
<1>13. \A op \in BitOps : BitSum(op, x, y, n) \in Field  BY <1>2, <1>11, <1>12 DEF BitOps
<1> DEFINE s == Bin(O, n)
           e == Bin(E, n)
           r == Bin(A, n)
<1>14. s \in Field /\ e \in Field /\ r \in Field /\ x + y = s + r /\ x + y = e + (r + r)
  <2>1. s \in Field /\ e \in Field /\ r \in Field  BY <1>2, <1>11
  <2>2. x + y = s + 1 * r /\ x + y = e + 2 * r  BY <1>7, <1>8, <1>10
  <2> HIDE DEF s, e, r
  <2>3. s \in Int /\ e \in Int /\ r \in Int  BY <2>1, FieldMod
  <2> QED  BY <2>1, <2>2, <2>3
<1> HIDE DEF s, e, r
<1>15. Plus(x, y) = Plus(s, r)  BY <1>14 DEF Plus
<1>16. Plus(x, y) = Plus(e, Plus(r, r))
  <2>1. e \in Int /\ r \in Int /\ r + r \in Int /\ e % P = e  BY <1>14, FieldMod
  <2>2. (e + (r + r)) % P = Plus(e % P, (r + r) % P)  BY <2>1, ModAdd
  <2> QED  BY <1>14, <2>1, <2>2 DEF Plus
<1> QED  BY <1>10, <1>12, <1>13, <1>15, <1>16 DEF s, e, r, X, Y, A

\* The wires of a bitwise gadget: the bits of x and of y, and their products.
BitParts(w, a, n, x, y) ==
    /\ x < Pow2[n] /\ y < Pow2[n]
    /\ \A i \in 0 .. n - 1 : w[a + i] = Digit(x, i)
    /\ \A i \in 0 .. n - 1 : w[a + n + i] = Digit(y, i)
    /\ \A i \in 0 .. n - 1 : w[a + 2 * n + i] = Times(w[a + i], w[a + n + i])

\* Its circuit says exactly that.
LEMMA BitwiseCircuit ==
    ASSUME NEW m \in Nat, NEW c, Circuit(c, m), NEW x \in LCs(c.next), NEW y \in LCs(c.next),
           NEW n \in Nat, Pow2[n] <= P, NEW op, NEW e, e = Bitwise(op, c, x, y, n)
    PROVE  /\ Grown(c, e.c, m) /\ e.c.next = c.next + 3 * n
           /\ \A w \in Assignments : Satisfied(e.c, w) =>
                 Satisfied(c, w) /\ BitParts(w, c.next, n, EvalLc(x, w), EvalLc(y, w))
           /\ \A w \in Assignments :
                 Satisfied(c, w) /\ Below(x, y, n, w) => Extendable(c, e.c, w)
<1> DEFINE a == c.next
           d == e.c
           c1 == Num2Bits(c, x, n)
           c2 == Num2Bits(c1, y, n)
<1>1. a \in Nat /\ a > 0  BY CircuitFacts
<1>2. /\ Grown(c, c1, m) /\ c1.next = a + n
      /\ \A w \in Assignments : Satisfied(c1, w) <=> Satisfied(c, w) /\ Decomposed(w, a, n, EvalLc(x, w))
      /\ \A w \in Assignments : Satisfied(c, w) /\ EvalLc(x, w) < Pow2[n] => Extendable(c, c1, w)
    BY Num2BitsFacts
<1>d. d = [NewWires(c2, n) EXCEPT !.cs =
              @ \o [i \in 1 .. n |-> Constraint(Unit(a + (i - 1)), Unit(a + n + (i - 1)),
                                                Unit(a + 2 * n + (i - 1)))]]
    BY DEF Bitwise
<1> HIDE DEF c1, d
<1>3. Circuit(c1, m) /\ c1.next \in Nat /\ y \in LCs(c1.next) /\ a <= c1.next
  BY <1>1, <1>2, LcMono DEF Grown
<1>4. /\ Grown(c1, c2, m) /\ c2.next = c1.next + n
      /\ \A w \in Assignments : Satisfied(c2, w) <=>
            Satisfied(c1, w) /\ Decomposed(w, c1.next, n, EvalLc(y, w))
      /\ \A w \in Assignments : Satisfied(c1, w) /\ EvalLc(y, w) < Pow2[n] => Extendable(c1, c2, w)
    BY <1>3, Num2BitsFacts
<1> HIDE DEF c2
<1>5. Circuit(c2, m) /\ c2.next \in Nat /\ c2.next = a + 2 * n /\ a + n + n <= c2.next /\ a + n <= c2.next
      /\ a + n \in Nat
    BY <1>1, <1>2, <1>4 DEF Grown
<1>6. d = Products(c2, a, a + n, n)
  <2>1. \A i \in 1 .. n : c2.next + (i - 1) = a + 2 * n + (i - 1)  BY <1>1, <1>5
  <2>2. [i \in 1 .. n |-> Constraint(Unit(a + (i - 1)), Unit(a + n + (i - 1)), Unit(a + 2 * n + (i - 1)))]
        = [i \in 1 .. n |-> Constraint(Unit(a + (i - 1)), Unit(a + n + (i - 1)), Unit(c2.next + (i - 1)))]
      BY <2>1
  <2> HIDE DEF a
  <2> QED  BY <1>d, <2>2 DEF Products
<1>7. /\ Grown(c2, d, m) /\ d.next = c2.next + n
      /\ \A w \in Assignments :
            Satisfied(d, w) <=> Satisfied(c2, w) /\ Multiplied(w, a, a + n, c2.next, n)
      /\ \A w \in Assignments : Satisfied(c2, w) => Extendable(c2, d, w)
  <2> HIDE DEF a
  <2> QED  BY <1>1, <1>5, <1>6, ProductsFacts
<1>8. Grown(c, c2, m) /\ Grown(c, d, m) /\ d.next = a + 3 * n
  BY <1>1, <1>2, <1>3, <1>4, <1>5, <1>7, GrownFacts
<1>9. ASSUME NEW w \in Assignments, Satisfied(d, w)
      PROVE  Satisfied(c, w) /\ BitParts(w, a, n, EvalLc(x, w), EvalLc(y, w))
  <2>1. /\ Satisfied(c, w) /\ Decomposed(w, a, n, EvalLc(x, w))
        /\ Decomposed(w, a + n, n, EvalLc(y, w)) /\ Multiplied(w, a, a + n, a + 2 * n, n)
      BY <1>2, <1>4, <1>5, <1>7, <1>9
  <2> HIDE DEF a
  <2> QED  BY <2>1 DEF BitParts, Decomposed, Multiplied
<1>10. ASSUME NEW w \in Assignments, Satisfied(c, w), Below(x, y, n, w)
       PROVE  Extendable(c, d, w)
  <2>0. EvalLc(x, w) < Pow2[n] /\ EvalLc(y, w) < Pow2[n]  BY <1>10 DEF Below
  <2>1. PICK u \in Assignments : Agree(u, w, c.next) /\ Satisfied(c1, u)
    BY <1>2, <1>10, <2>0 DEF Extendable
  <2>2. EvalLc(y, u) = EvalLc(y, w)  BY <1>1, <2>1, EvalAgree
  <2>3. PICK v \in Assignments : Agree(v, u, c1.next) /\ Satisfied(c2, v)
    BY <1>4, <2>0, <2>1, <2>2 DEF Extendable
  <2>4. Agree(v, w, c.next)  BY <1>1, <1>3, <2>1, <2>3, AgreeFacts
  <2>5. Extendable(c2, d, v)  BY <1>7, <2>3
  <2> QED  BY <1>7, <1>8, <2>4, <2>5, ExtendMore
<1> QED  BY <1>8, <1>9, <1>10 DEF d

\* f is the number with the n bits from a on.
Recomposes(f, a, n) ==
    \A w \in Assignments : \A s \in BitStrings :
        (\A i \in 0 .. n - 1 : w[a + i] = s[i]) => EvalLc(f, w) = Bin(s, n)

\* The three ways in which the result is combined.
FormedOf(lc, op, a, n) ==
    \E f, g, h \in LCs(a + 3 * n) :
        /\ lc = CASE op = "bitand" -> h
                 [] op = "bitor" -> Minus(AddLinear(f, g, 1), h)
                 [] op = "bitxor" -> AddLinear(AddLinear(f, g, 1), h, P - 2)
        /\ Recomposes(f, a, n) /\ Recomposes(g, a + n, n) /\ Recomposes(h, a + 2 * n, n)

\* The gadget's linear combination has one of these forms,
LEMMA BitwiseForm ==
    ASSUME NEW a \in Nat \ {0}, NEW n \in Nat, Pow2[n] <= P, NEW op \in BitOps, NEW c, c.next = a,
           NEW x, NEW y, NEW lc, lc = Bitwise(op, c, x, y, n).lc
    PROVE  /\ lc \in LCs(a + 3 * n)
           /\ FormedOf(lc, op, a, n)
<1> DEFINE N == a + 3 * n
           b == a + n
           p == a + 2 * n
           f == Weights(a, n, 0)
           g == Weights(b, n, 0)
           h == Weights(p, n, 0)
           either == Over(f, g)
<1>1. N \in Nat /\ a + n <= N /\ b \in Nat \ {0} /\ b + n <= N /\ p \in Nat \ {0} /\ p + n <= N
    OBVIOUS
<1>2. /\ [v \in a .. a + n - 1 |-> Pow2[v - a] % P] = f
      /\ f \in LCs(N) /\ Wires(f) = a .. a + n - 1
      /\ \A w \in Assignments : \A s \in BitStrings : (\A i \in 0 .. n - 1 : w[a + i] = s[i]) => EvalLc(f, w) = Bin(s, n)
  <2> HIDE DEF N
  <2> QED  BY <1>1, BitLcs
<1>3. /\ [v \in b .. b + n - 1 |-> Pow2[v - b] % P] = g
      /\ g \in LCs(N) /\ Wires(g) = b .. b + n - 1
      /\ \A w \in Assignments : \A s \in BitStrings : (\A i \in 0 .. n - 1 : w[b + i] = s[i]) => EvalLc(g, w) = Bin(s, n)
  <2> HIDE DEF N, b
  <2> QED  BY <1>1, BitLcs
<1>4. /\ [v \in p .. p + n - 1 |-> Pow2[v - p] % P] = h
      /\ h \in LCs(N)
      /\ \A w \in Assignments : \A s \in BitStrings : (\A i \in 0 .. n - 1 : w[p + i] = s[i]) => EvalLc(h, w) = Bin(s, n)
  <2> HIDE DEF N, p
  <2> QED  BY <1>1, BitLcs
<1>5. lc = CASE op = "bitand" -> h
             [] op = "bitor" -> Minus(either, h)
             [] op = "bitxor" -> AddLinear(either, h, P - 2)
  <2>1. /\ [v \in a .. a + n - 1 |-> Pow2[v - a] % P] = f
        /\ [v \in (a + n) .. (a + n) + n - 1 |-> Pow2[v - (a + n)] % P] = g
        /\ [v \in (a + 2 * n) .. (a + 2 * n) + n - 1 |-> Pow2[v - (a + 2 * n)] % P] = h
      BY <1>2, <1>3, <1>4
  <2> HIDE DEF f, g, h
  <2>2. /\ a + 0 = a /\ a + n + 0 = a + n /\ a + 2 * n + 0 = a + 2 * n  OBVIOUS
  <2>3. lc = CASE op = "bitand" -> [v \in (a + 2 * n + 0) .. (a + 2 * n + 0) + n - 1 |-> Pow2[v - (a + 2 * n + 0)] % P]
           [] op = "bitor" -> Minus(Over([v \in (a + 0) .. (a + 0) + n - 1 |-> Pow2[v - (a + 0)] % P],
                                         [v \in (a + n + 0) .. (a + n + 0) + n - 1 |-> Pow2[v - (a + n + 0)] % P]),
                                    [v \in (a + 2 * n + 0) .. (a + 2 * n + 0) + n - 1 |-> Pow2[v - (a + 2 * n + 0)] % P])
           [] op = "bitxor" -> AddLinear(Over([v \in (a + 0) .. (a + 0) + n - 1 |-> Pow2[v - (a + 0)] % P],
                                         [v \in (a + n + 0) .. (a + n + 0) + n - 1 |-> Pow2[v - (a + n + 0)] % P]),
                                    [v \in (a + 2 * n + 0) .. (a + 2 * n + 0) + n - 1 |-> Pow2[v - (a + 2 * n + 0)] % P], P - 2)
      BY DEF Bitwise
  <2> QED  BY <2>1, <2>2, <2>3
<1>6. either = AddLinear(f, g, 1)
  <2>1. Wires(f) \cap Wires(g) = {}  BY <1>1, <1>2, <1>3
  <2> HIDE DEF N, f, g
  <2> QED  BY <1>1, <1>2, <1>3, <2>1, OverDisjoint
<1>7. AddLinear(f, g, 1) \in LCs(N) /\ 1 \in Field /\ P - 2 \in Field
  <2>1. P - 2 \in Field /\ 1 \in Field  BY Modulus DEF Field
  <2> HIDE DEF N, f, g
  <2> QED  BY <1>1, <1>2, <1>3, <2>1, AddLinearFacts
<1> HIDE DEF f, g, h, either, N
<1>8. Recomposes(f, a, n) /\ Recomposes(g, b, n) /\ Recomposes(h, p, n)
  BY <1>2, <1>3, <1>4 DEF Recomposes
<1>9. lc \in LCs(N)
  <2>1. Minus(AddLinear(f, g, 1), h) \in LCs(N) /\ AddLinear(AddLinear(f, g, 1), h, P - 2) \in LCs(N)
    BY <1>1, <1>4, <1>7, MinusFacts, AddLinearFacts
  <2> QED  BY <1>4, <1>5, <1>6, <2>1 DEF BitOps
<1> QED  BY <1>2, <1>3, <1>4, <1>5, <1>6, <1>8, <1>9 DEF N, b, p, FormedOf

\* so that it has the value of the operation.
LEMMA BitwiseLc ==
    ASSUME NEW a \in Nat \ {0}, NEW n \in Nat, Pow2[n] <= P, NEW op \in BitOps, NEW c, c.next = a,
           NEW x, NEW y, NEW lc, lc = Bitwise(op, c, x, y, n).lc,
           NEW w \in Assignments, NEW X \in Field, NEW Y \in Field, BitParts(w, a, n, X, Y)
    PROVE  lc \in LCs(a + 3 * n) /\ EvalLc(lc, w) = BitSum(op, X, Y, n)
<1> DEFINE N == a + 3 * n
           b == a + n
           p == a + 2 * n
<1>1. N \in Nat  OBVIOUS
<1>2. lc \in LCs(N) /\ FormedOf(lc, op, a, n)  BY BitwiseForm
<1>3. PICK f, g, h \in LCs(N) :
             /\ lc = CASE op = "bitand" -> h
                      [] op = "bitor" -> Minus(AddLinear(f, g, 1), h)
                      [] op = "bitxor" -> AddLinear(AddLinear(f, g, 1), h, P - 2)
             /\ Recomposes(f, a, n) /\ Recomposes(g, b, n) /\ Recomposes(h, p, n)
    BY <1>2 DEF FormedOf
<1> DEFINE either == AddLinear(f, g, 1)
<1>5. lc = CASE op = "bitand" -> h
             [] op = "bitor" -> Minus(either, h)
             [] op = "bitxor" -> AddLinear(either, h, P - 2)
    BY <1>3
<1> HIDE DEF either
<1> DEFINE Both == BitSum("bitand", X, Y, n)
<1>7. X \in Nat /\ Y \in Nat /\ X < Pow2[n] /\ Y < Pow2[n]  BY FieldMod DEF BitParts
<1>8. /\ \A o \in BitOps : BitSum(o, X, Y, n) \in Field
      /\ Bin(Bits(X), n) = X /\ Bin(Bits(Y), n) = Y
      /\ Bin(Combined("bitand", X, Y), n) = Both
      /\ Plus(X, Y) = Plus(BitSum("bitor", X, Y, n), Both)
      /\ Plus(X, Y) = Plus(BitSum("bitxor", X, Y, n), Plus(Both, Both))
    BY <1>7, BitSumFacts
<1>9. EvalLc(f, w) = X
  <2>1. Bits(X) \in BitStrings /\ \A i \in 0 .. n - 1 : w[a + i] = Bits(X)[i]
    BY <1>7, BitsFacts DEF BitParts
  <2> QED  BY <1>3, <1>8, <2>1 DEF Recomposes
<1>10. EvalLc(g, w) = Y
  <2>1. Bits(Y) \in BitStrings /\ \A i \in 0 .. n - 1 : w[b + i] = Bits(Y)[i]
    BY <1>7, BitsFacts DEF BitParts
  <2> QED  BY <1>3, <1>8, <2>1 DEF Recomposes
<1>o. "bitand" \in BitOps /\ "bitor" \in BitOps /\ "bitxor" \in BitOps  BY DEF BitOps
<1>11. EvalLc(h, w) = Both /\ Both \in Field
  <2> DEFINE s == Combined("bitand", X, Y)
  <2>1. s \in BitStrings /\ \A i \in Nat : s[i] = BitOf("bitand", Digit(X, i), Digit(Y, i))
    BY <1>7, <1>o, BitsFacts
  <2> HIDE DEF s
  <2>2. \A i \in 0 .. n - 1 : w[p + i] = s[i]
    <3> SUFFICES ASSUME NEW i \in 0 .. n - 1 PROVE w[p + i] = s[i]  OBVIOUS
    <3>1. i \in Nat  OBVIOUS
    <3>2. w[p + i] = Times(Digit(X, i), Digit(Y, i))  BY DEF BitParts
    <3>3. Digit(X, i) \in {0, 1} /\ Digit(Y, i) \in {0, 1}  BY <1>7, <3>1, DigitType
    <3>4. Times(Digit(X, i), Digit(Y, i)) = BitOf("bitand", Digit(X, i), Digit(Y, i))
      BY <3>3, BitOfFacts
    <3> QED  BY <2>1, <3>1, <3>2, <3>4
  <2>3. Bin(s, n) = Both  BY <1>8 DEF s
  <2> HIDE DEF p, Both
  <2>4. EvalLc(h, w) = Both  BY <1>3, <2>1, <2>2, <2>3 DEF Recomposes
  <2> QED  BY <1>8, <1>o, <2>4 DEF Both
<1> HIDE DEF Both, N
<1>12. /\ either \in LCs(N) /\ EvalLc(either, w) = Plus(X, Y)
  <2>1. /\ AddLinear(f, g, 1) \in LCs(N)
        /\ EvalLc(AddLinear(f, g, 1), w) = Plus(EvalLc(f, w), Times(1, EvalLc(g, w)))
      BY <1>1, <1>3, AddLinearFacts, FieldOps
  <2>2. Times(1, Y) = Y  BY FieldRing
  <2> QED  BY <1>9, <1>10, <2>1, <2>2 DEF either
<1>13. CASE op = "bitand"  BY <1>3, <1>5, <1>11, <1>13 DEF Both, N
<1>14. CASE op = "bitor"
  <2> DEFINE S == BitSum("bitor", X, Y, n)
  <2>1. /\ Minus(either, h) \in LCs(N)
        /\ EvalLc(Minus(either, h), w) = Plus(EvalLc(either, w), Negated(EvalLc(h, w)))
      BY <1>1, <1>3, <1>12, MinusFacts
  <2>2. S \in Field /\ Plus(X, Y) = Plus(S, Both)  BY <1>8, <1>o
  <2> HIDE DEF S
  <2>3. EvalLc(Minus(either, h), w) = S  BY <1>11, <1>12, <2>1, <2>2, CancelOnce
  <2> QED  BY <1>5, <1>14, <2>1, <2>3 DEF S, N
<1>15. CASE op = "bitxor"
  <2> DEFINE S == BitSum("bitxor", X, Y, n)
  <2>0. P - 2 \in Field  BY Modulus DEF Field
  <2>1. /\ AddLinear(either, h, P - 2) \in LCs(N)
        /\ EvalLc(AddLinear(either, h, P - 2), w) = Plus(EvalLc(either, w), Times(P - 2, EvalLc(h, w)))
      BY <1>1, <1>3, <1>12, <2>0, AddLinearFacts
  <2>2. S \in Field /\ Plus(X, Y) = Plus(S, Plus(Both, Both))  BY <1>8, <1>o
  <2> HIDE DEF S
  <2>3. EvalLc(AddLinear(either, h, P - 2), w) = S  BY <1>11, <1>12, <2>1, <2>2, CancelTwice
  <2> QED  BY <1>5, <1>15, <2>1, <2>3 DEF S, N
<1> QED  BY <1>13, <1>14, <1>15 DEF BitOps

\* bitand, bitor and bitxor.
LEMMA BitwiseLowers ==
    ASSUME NEW m \in Nat, NEW c, Circuit(c, m), NEW x \in LCs(c.next), NEW y \in LCs(c.next),
           NEW n \in Nat, Pow2[n] <= P, NEW op \in BitOps, NEW e, e = Bitwise(op, c, x, y, n),
           NEW F, \A w \in Assignments : F[w] =
              IF EvalLc(x, w) < Pow2[n] /\ EvalLc(y, w) < Pow2[n]
              THEN BitSum(op, EvalLc(x, w), EvalLc(y, w), n) ELSE Refused
    PROVE  Lowers(c, e.c, e.lc, m, F)
<1> DEFINE a == c.next
           d == e.c
           lc == e.lc
<1>1. a \in Nat \ {0} /\ a \in Nat  BY CircuitFacts
<1>2. d = Bitwise(op, c, x, y, n).c /\ lc = Bitwise(op, c, x, y, n).lc  OBVIOUS
<1> HIDE DEF d, lc
<1>3. /\ Grown(c, d, m) /\ d.next = a + 3 * n
      /\ \A w \in Assignments : Satisfied(d, w) =>
            Satisfied(c, w) /\ BitParts(w, a, n, EvalLc(x, w), EvalLc(y, w))
      /\ \A w \in Assignments :
            Satisfied(c, w) /\ Below(x, y, n, w) => Extendable(c, d, w)
  <2>1. /\ Grown(c, e.c, m) /\ e.c.next = c.next + 3 * n
        /\ \A w \in Assignments : Satisfied(e.c, w) =>
              Satisfied(c, w) /\ BitParts(w, c.next, n, EvalLc(x, w), EvalLc(y, w))
        /\ \A w \in Assignments :
              Satisfied(c, w) /\ Below(x, y, n, w) => Extendable(c, e.c, w)
      BY BitwiseCircuit
  <2> QED  BY <2>1 DEF d
<1>4. lc \in LCs(d.next)
  <2> HIDE DEF a
  <2>1. c.next = a  BY DEF a
  <2>2. lc \in LCs(a + 3 * n)  BY <1>1, <1>2, <2>1, BitwiseForm
  <2> QED  BY <1>3, <2>2
<1>5. ASSUME NEW w \in Assignments, Satisfied(d, w)
      PROVE  Satisfied(c, w) /\ F[w] # Refused /\ EvalLc(lc, w) = F[w]
  <2> DEFINE X == EvalLc(x, w)
             Y == EvalLc(y, w)
  <2>1. X \in Field /\ Y \in Field  BY <1>1, EvalType
  <2>2. Satisfied(c, w) /\ BitParts(w, a, n, X, Y)  BY <1>3, <1>5
  <2>3. F[w] = IF X < Pow2[n] /\ Y < Pow2[n] THEN BitSum(op, X, Y, n) ELSE Refused  OBVIOUS
  <2> HIDE DEF X, Y
  <2>4. EvalLc(lc, w) = BitSum(op, X, Y, n)
    <3> HIDE DEF a
    <3>1. c.next = a  BY DEF a
    <3> QED  BY <1>1, <1>2, <2>1, <2>2, <3>1, BitwiseLc
  <2>5. X < Pow2[n] /\ Y < Pow2[n]  BY <2>2 DEF BitParts
  <2>6. X \in Nat /\ Y \in Nat  BY <2>1, FieldMod
  <2>7. BitSum(op, X, Y, n) \in Field  BY <2>5, <2>6, BitSumFacts
  <2> QED  BY <2>2, <2>3, <2>4, <2>5, <2>7, RefusedFacts
<1>6. ASSUME NEW w \in Assignments, Satisfied(c, w), F[w] # Refused
      PROVE  Extendable(c, d, w)
    BY <1>3, <1>6 DEF Below
<1> QED  BY <1>3, <1>4, <1>5, <1>6 DEF Lowers, Sound, Complete, d, lc

\* Dividing twice.
LEMMA DivDiv ==
    ASSUME NEW x \in Nat, NEW a \in Nat \ {0}, NEW b \in Nat \ {0}
    PROVE  x \div (a * b) = (x \div a) \div b
<1> DEFINE q == x \div a
           r == x % a
           s == q \div b
           t == q % b
<1>1. q \in Int /\ r \in 0 .. a - 1 /\ x = a * q + r  BY Division
<1> HIDE DEF q, r
<1>2. s \in Int /\ t \in 0 .. b - 1 /\ q = b * s + t  BY <1>1, Division
<1> HIDE DEF s, t
<1>3. a * b \in Nat \ {0}
  <2>1. a * b \in Nat /\ a * b >= 1  OBVIOUS
  <2> QED  BY <2>1
<1> DEFINE k == a * b
           u == a * t + r
<1>4. u \in 0 .. k - 1
  <2> DEFINE z == (b - 1) - t
  <2>1. z \in Nat /\ t = (b - 1) - z /\ t \in Nat /\ r \in Nat /\ r < a  BY <1>1, <1>2
  <2>2. a * z \in Nat /\ a * t \in Nat  BY <2>1
  <2>3. a * t = a * b - a - a * z  BY <2>1
  <2> QED  BY <2>1, <2>2, <2>3, <1>3
<1>5. x = k * s + u
  <2>1. a * (b * s + t) = (a * b) * s + a * t  BY <1>2
  <2>2. x = a * (b * s + t) + r  BY <1>1, <1>2
  <2>3. a * t \in Int /\ (a * b) * s \in Int /\ r \in Int  BY <1>1, <1>2
  <2> QED  BY <2>1, <2>2, <2>3
<1>6. k \in Nat \ {0}  BY <1>3
<1> HIDE DEF k, u
<1>7. x \div k = s  BY <1>2, <1>4, <1>5, <1>6, DivisionUnique
<1> QED  BY <1>7 DEF k, s, q

\* Shifts, in terms of digits.
LEMMA ShiftValues ==
    ASSUME NEW x \in Nat, NEW a \in Nat, NEW n \in Nat, x < Pow2[n]
    PROVE  /\ a <= n => /\ (x * Pow2[a]) % Pow2[n] = Pow2[a] * Bin(Bits(x), n - a)
                        /\ x \div Pow2[a] = Bin(Bits(x \div Pow2[a]), n - a)
           /\ ~(a <= n) => (x * Pow2[a]) % Pow2[n] = 0 /\ x \div Pow2[a] = 0
           /\ (x * Pow2[a]) % Pow2[n] \in 0 .. Pow2[n] - 1
           /\ x \div Pow2[a] \in Nat
           /\ \A i \in Nat : Digit(x, a + i) = Bits(x \div Pow2[a])[i]
           /\ Bits(x) \in BitStrings /\ Bits(x \div Pow2[a]) \in BitStrings
           /\ \A i \in Nat : Digit(x, i) = Bits(x)[i]
<1> DEFINE A == Pow2[a]
           N == Pow2[n]
           v == x \div A
<1>1. A \in Nat \ {0} /\ N \in Nat \ {0}  BY Pow2Facts
<1>2. v \in Nat /\ x % A \in 0 .. A - 1 /\ x = A * v + (x % A)  BY DigitType
<1>3. \A i \in Nat : Digit(x, a + i) = Digit(v, i)
  <2> SUFFICES ASSUME NEW i \in Nat PROVE x \div Pow2[a + i] = v \div Pow2[i]  BY DEF Digit
  <2>1. Pow2[i] \in Nat \ {0} /\ Pow2[a + i] = A * Pow2[i]  BY Pow2Facts, Pow2Add
  <2> QED  BY <1>1, <2>1, DivDiv
<1>4. /\ Bits(x) \in BitStrings /\ Bits(v) \in BitStrings
      /\ \A i \in Nat : Bits(x)[i] = Digit(x, i)
      /\ \A i \in Nat : Bits(v)[i] = Digit(v, i)
  <2> HIDE DEF v
  <2> QED  BY <1>2, BitsFacts
<1>5. (x * A) % N \in 0 .. N - 1
  <2>1. x * A \in Int  BY <1>1
  <2> QED  BY <1>1, <2>1, Division
<1>6. ASSUME a <= n
      PROVE  /\ (x * A) % N = A * Bin(Bits(x), n - a)
             /\ v = Bin(Bits(v), n - a)
  <2> DEFINE k == n - a
             K == Pow2[k]
             q == x \div K
             r == x % K
  <2>1. k \in Nat /\ a + k = n  BY <1>6
  <2>0. k = n - a  OBVIOUS
  <2> HIDE DEF k
  <2>2. N = A * K /\ K \in Nat \ {0}  BY <2>1, Pow2Add, Pow2Facts
  <2>3. q \in Int /\ r \in 0 .. K - 1 /\ x = K * q + r
    <3>1. K \in Nat \ {0} /\ x \in Int  BY <2>2
    <3> HIDE DEF K
    <3>2. q \in Int /\ r \in 0 .. K - 1 /\ x = K * q + r  BY <3>1, Division
    <3> QED  BY <3>2
  <2>4. r = Bin(Bits(x), k)  BY <1>4, <2>1, DigitsBin
  <2>5. A * r \in 0 .. N - 1
    <3>1. A * Bin(Bits(x), k) \in 0 .. Pow2[a + k] - 1  BY <1>4, <2>1, ScaledBin
    <3> QED  BY <2>1, <2>4, <3>1
  <2>6. v % K = Bin(Bits(v), k)
    <3> HIDE DEF v
    <3> QED  BY <1>2, <1>4, <2>1, DigitsBin
  <2> HIDE DEF K, q, r, v, A, N
  <2>7. x * A = N * q + A * r
    <3>1. (K * q + r) * A = (A * K) * q + A * r  BY <1>1, <2>2, <2>3
    <3> QED  BY <2>2, <2>3, <3>1
  <2>8. (x * A) % N = A * r
    <3>1. x * A \in Int  BY <1>1
    <3> DEFINE z == x * A
               s == A * r
    <3>2. z \in Int /\ s \in 0 .. N - 1 /\ z = N * q + s  BY <2>5, <2>7, <3>1
    <3> HIDE DEF z, s
    <3>3. z % N = s  BY <1>1, <2>3, <3>2, DivisionUnique
    <3> QED  BY <3>3 DEF z, s
  <2>9. v < K
    <3> SUFFICES ASSUME ~(v < K) PROVE FALSE  OBVIOUS
    <3> DEFINE z == v - K
    <3>1. z \in Nat /\ v = K + z  BY <1>2, <2>2
    <3>2. A * v = A * K + A * z /\ A * z \in Nat /\ A * K \in Nat  BY <1>1, <2>2, <3>1
    <3>3. x >= A * v
      <4>1. A * v \in Nat /\ x % A \in Nat  BY <1>1, <1>2
      <4> QED  BY <1>2, <4>1
    <3>4. x < N  BY DEF N
    <3> QED  BY <2>2, <3>2, <3>3, <3>4
  <2>10. v % K = v  BY <1>2, <2>2, <2>9, SmallMod
  <2> QED  BY <2>0, <2>4, <2>6, <2>8, <2>10
<1>7. ASSUME ~(a <= n)
      PROVE  (x * A) % N = 0 /\ v = 0
  <2> DEFINE k == a - n
             K == Pow2[k]
  <2>1. k \in Nat /\ n + k = a /\ n <= a  BY <1>7
  <2>2. A = N * K /\ K \in Nat \ {0}
    <3>1. Pow2[n + k] = Pow2[n] * Pow2[k]  BY <2>1, Pow2Add
    <3>2. Pow2[k] \in Nat \ {0}  BY <2>1, Pow2Facts
    <3> QED  BY <2>1, <3>1, <3>2
  <2>3. N <= A  BY <2>1, Pow2Mono
  <2>4. x < A  BY <1>1, <2>3
  <2>5. v = 0
    <3> HIDE DEF A
    <3> QED  BY <1>1, <2>4, SmallMod
  <2> HIDE DEF K, A, N, v
  <2>6. (x * A) % N = 0
    <3> DEFINE q == x * K
               z == x * A
    <3>1. q \in Int /\ z \in Int /\ z = N * q + 0
      <4>1. x * (N * K) = N * (x * K)  BY <1>1, <2>2
      <4>2. x * K \in Int /\ x * A \in Int /\ N * (x * K) \in Int  BY <1>1, <2>2
      <4> QED  BY <2>2, <4>1, <4>2
    <3>2. 0 \in 0 .. N - 1  BY <1>1
    <3> HIDE DEF q, z
    <3>3. z % N = 0  BY <1>1, <3>1, <3>2, DivisionUnique
    <3> QED  BY <3>3 DEF z
  <2> QED  BY <2>5, <2>6
<1> QED  BY <1>2, <1>3, <1>4, <1>5, <1>6, <1>7

-----------------------------------------------------------------------------
(***************************************************************************)
(* Shifts by a constant.                                                   *)
(***************************************************************************)

\* The weights of the bits that stay in range when moved by t.
Moved(first, n, t) ==
    LET kept == {i \in 0 .. n - 1 : i + t \in 0 .. n - 1}
    IN  [w \in {first + (i + t) : i \in kept} |-> Pow2[CHOOSE i \in kept : first + (i + t) = w]]

\* They are consecutive powers of two.
LEMMA MovedWeights ==
    ASSUME NEW first \in Int, NEW n \in Nat, NEW t \in Int, NEW f \in Int, NEW k \in Nat, NEW b \in Int,
           f + k <= first + n, f + k <= first + n + t, f >= first, f >= first + t,
           k > 0 => f = first \/ f = first + t,
           k = 0 => n + t <= 0 \/ n <= t,
           k > 0 => f + k = first + n \/ f + k = first + n + t,
           b = f - first - t
    PROVE  Moved(first, n, t) = Weights(f, k, b)
<1> DEFINE kept == {i \in 0 .. n - 1 : i + t \in 0 .. n - 1}
           D == {first + (i + t) : i \in kept}
           E == f .. f + k - 1
           G(v) == CHOOSE i \in kept : first + (i + t) = v
<1>1. ASSUME NEW v \in E
      PROVE  v - first - t \in kept /\ v = first + ((v - first - t) + t) /\ b + (v - f) = v - first - t
    OBVIOUS
<1>2. ASSUME NEW i \in kept PROVE first + (i + t) \in E  OBVIOUS
<1>3. D = E
  <2>1. \A v \in E : v \in D  BY <1>1
  <2>2. \A v \in D : v \in E  BY <1>2
  <2> QED  BY <2>1, <2>2
<1>4. ASSUME NEW v \in E PROVE G(v) = b + (v - f)
  <2> DEFINE j == b + (v - f)
  <2>1. j \in kept /\ first + (j + t) = v  BY <1>1
  <2>2. \A i \in kept : first + (i + t) = v => i = j  BY <1>1
  <2> DEFINE Q(i) == first + (i + t) = v
  <2>3. j \in kept /\ Q(j) /\ \A i \in kept : Q(i) => i = j  BY <2>1, <2>2
  <2>4. G(v) = CHOOSE i \in kept : Q(i)  OBVIOUS
  <2> HIDE DEF kept, j, Q, G
  <2>5. (CHOOSE i \in kept : Q(i)) = j  BY <2>3
  <2> QED  BY <2>4, <2>5 DEF j
<1>5. Moved(first, n, t) = [v \in D |-> Pow2[G(v)]]  BY DEF Moved
<1>6. Weights(f, k, b) = [v \in E |-> Pow2[b + (v - f)]]  BY DEF Weights
<1> HIDE DEF D, E, kept, G
<1> QED  BY <1>3, <1>4, <1>5, <1>6

\* The linear combination of a shift, with and without bits left.
LEMMA ShiftForm ==
    ASSUME NEW c, NEW x, NEW n \in Nat, NEW a \in Nat, NEW op \in {"shl", "shr"},
           NEW e, e = Shift(op, c, x, a, n), c.next \in Nat
    PROVE  /\ e.c = Num2Bits(c, x, n)
           /\ a <= n => e.lc = IF op = "shl" THEN Weights(c.next, n - a, a) ELSE Weights(c.next + a, n - a, 0)
           /\ ~(a <= n) => e.lc = Weights(c.next, 0, 0) \/ e.lc = Zero
<1> DEFINE first == c.next
           t == IF op = "shl" THEN 0 - a ELSE a
           source(i) == IF op = "shl" THEN i - a ELSE i + a
           kept == {i \in 0 .. n - 1 : source(i) \in 0 .. n - 1}
           keptT == {i \in 0 .. n - 1 : i + t \in 0 .. n - 1}
           g(w) == CHOOSE i \in kept : first + source(i) = w
           gT(w) == CHOOSE i \in keptT : first + (i + t) = w
           lc == [w \in {first + source(i) : i \in kept} |-> Pow2[g(w)]]
           lcT == [w \in {first + (i + t) : i \in keptT} |-> Pow2[gT(w)]]
<1>1. e.c = Num2Bits(c, x, n) /\ e.lc = lc  BY DEF Shift
<1>2. \A i \in 0 .. n - 1 : source(i) = i + t  OBVIOUS
<1> HIDE DEF source
<1>3. kept = keptT  BY <1>2
<1>4. \A i \in kept : source(i) = i + t  BY <1>2
<1>5. lc = lcT
  <2> HIDE DEF kept, t
  <2>1. {first + source(i) : i \in kept} = {first + (i + t) : i \in kept}  BY <1>4
  <2>2. \A w : g(w) = (CHOOSE i \in kept : first + (i + t) = w)  BY <1>4
  <2>3. \A w : g(w) = gT(w)  BY <1>3, <2>2, Zenon
  <2> HIDE DEF keptT, g, gT
  <2> QED  BY <1>3, <2>1, <2>3
<1>6. lcT = Moved(first, n, t)  BY DEF Moved
<1> HIDE DEF lc, lcT
<1>7. e.lc = Moved(first, n, t)  BY <1>1, <1>5, <1>6
<1> HIDE DEF kept, keptT, first
<1>8. first \in Nat  BY DEF first
<1>9. ASSUME a <= n, op = "shl" PROVE e.lc = Weights(first, n - a, a)
  <2>1. t \in Int /\ t = 0 - a  BY <1>9
  <2> HIDE DEF t
  <2> QED  BY <1>7, <1>8, <1>9, <2>1, MovedWeights
<1>10. ASSUME a <= n, op = "shr" PROVE e.lc = Weights(first + a, n - a, 0)
  <2>1. t \in Int /\ t = a  BY <1>10
  <2> HIDE DEF t
  <2> QED  BY <1>7, <1>8, <1>10, <2>1, MovedWeights
<1>11. ASSUME ~(a <= n) PROVE e.lc = Weights(first, 0, 0)
  <2> DEFINE Z == {i \in 0 .. n - 1 : i + t \in 0 .. n - 1}
  <2>1. Z = {} /\ first .. first + 0 - 1 = {}  BY <1>8, <1>11
  <2>2. Moved(first, n, t) = [w \in {first + (i + t) : i \in Z} |-> Pow2[CHOOSE i \in Z : first + (i + t) = w]]
    BY DEF Moved
  <2>3. Weights(first, 0, 0) = [v \in first .. first + 0 - 1 |-> Pow2[0 + (v - first)]]
    BY DEF Weights
  <2> HIDE DEF Z
  <2>4. {first + (i + t) : i \in Z} = {}  BY <2>1
  <2> QED  BY <1>7, <2>1, <2>2, <2>3, <2>4
<1> QED  BY <1>1, <1>9, <1>10, <1>11 DEF first

\* What a shift computes.
Shifted(op, x, a, n) == IF op = "shl" THEN (x * Pow2[a]) % Pow2[n] ELSE x \div Pow2[a]

\* The weighted bits are the shifted number.
LEMMA ShiftLcs ==
    ASSUME NEW first \in Nat \ {0}, NEW n \in Nat, Pow2[n] <= P, NEW a \in Nat, a <= n,
           NEW N \in Nat, first + n <= N
    PROVE  /\ Weights(first, n - a, a) \in LCs(N) /\ Weights(first + a, n - a, 0) \in LCs(N)
           /\ \A w \in Assignments : \A x \in Nat : x < Pow2[n] /\ Decomposed(w, first, n, x) =>
                 /\ EvalLc(Weights(first, n - a, a), w) = Shifted("shl", x, a, n)
                 /\ EvalLc(Weights(first + a, n - a, 0), w) = Shifted("shr", x, a, n)
<1> DEFINE k == n - a
           f == Weights(first, k, a)
           g == Weights(first + a, k, 0)
           second == first + a
<1>1. k \in Nat /\ a + k = n /\ 0 + k = k /\ first + k <= N /\ second \in Nat \ {0} /\ second + k <= N
      /\ k <= n /\ 0 \in Nat
    OBVIOUS
<1>2. Pow2[a + k] <= P /\ Pow2[0 + k] <= P /\ Pow2[0] = 1
  <2>1. Pow2[k] <= Pow2[n] /\ Pow2[k] \in Int /\ Pow2[n] \in Int /\ P \in Int
    BY <1>1, Pow2Mono, Pow2Facts, Modulus
  <2> QED  BY <1>1, <2>1, Pow2Facts
<1> HIDE DEF k
<1>3. /\ f \in LCs(N)
      /\ \A w \in Assignments : \A b \in BitStrings :
            (\A i \in 0 .. k - 1 : w[first + i] = b[i]) => EvalLc(f, w) = Pow2[a] * Bin(b, k)
    BY <1>1, <1>2, WeightsFacts
<1>4. /\ g \in LCs(N)
      /\ \A w \in Assignments : \A b \in BitStrings :
            (\A i \in 0 .. k - 1 : w[second + i] = b[i]) => EvalLc(g, w) = Pow2[0] * Bin(b, k)
  <2> HIDE DEF second
  <2>1. Weights(second, k, 0) \in LCs(N)
        /\ \A w \in Assignments : \A b \in BitStrings :
             (\A i \in 0 .. k - 1 : w[second + i] = b[i]) => EvalLc(Weights(second, k, 0), w) = Pow2[0] * Bin(b, k)
      BY <1>1, <1>2, WeightsFacts
  <2>2. g = Weights(second, k, 0)  BY DEF second
  <2> QED  BY <2>1, <2>2
<1> HIDE DEF f, g
<1>5. ASSUME NEW w \in Assignments, NEW x \in Nat, x < Pow2[n], Decomposed(w, first, n, x)
      PROVE  EvalLc(f, w) = Shifted("shl", x, a, n) /\ EvalLc(g, w) = Shifted("shr", x, a, n)
  <2> DEFINE v == x \div Pow2[a]
  <2>1. /\ (x * Pow2[a]) % Pow2[n] = Pow2[a] * Bin(Bits(x), n - a)
        /\ v = Bin(Bits(v), n - a)
        /\ \A i \in Nat : Digit(x, a + i) = Bits(v)[i]
        /\ Bits(x) \in BitStrings /\ Bits(v) \in BitStrings
        /\ \A i \in Nat : Digit(x, i) = Bits(x)[i]
      BY <1>5, ShiftValues
  <2>2. Shifted("shl", x, a, n) = (x * Pow2[a]) % Pow2[n] /\ Shifted("shr", x, a, n) = v
    BY DEF Shifted
  <2> HIDE DEF v
  <2>3. \A i \in 0 .. n - 1 : w[first + i] = Digit(x, i)  BY <1>5 DEF Decomposed
  <2>4. \A i \in 0 .. k - 1 : w[first + i] = Bits(x)[i]
    <3> SUFFICES ASSUME NEW i \in 0 .. k - 1 PROVE w[first + i] = Bits(x)[i]  OBVIOUS
    <3>1. i \in Nat /\ i \in 0 .. n - 1  BY <1>1
    <3> QED  BY <2>1, <2>3, <3>1
  <2>5. \A i \in 0 .. k - 1 : w[second + i] = Bits(v)[i]
    <3> SUFFICES ASSUME NEW i \in 0 .. k - 1 PROVE w[second + i] = Bits(v)[i]  OBVIOUS
    <3> DEFINE j == a + i
    <3>1. i \in Nat /\ j \in 0 .. n - 1 /\ second + i = first + j  BY <1>1
    <3>2. Digit(x, j) = Bits(v)[i]  BY <2>1, <3>1
    <3> HIDE DEF j, second
    <3> QED  BY <2>3, <3>1, <3>2
  <2>6. EvalLc(f, w) = Pow2[a] * Bin(Bits(x), k)  BY <1>3, <2>1, <2>4
  <2>7. EvalLc(g, w) = Pow2[0] * Bin(Bits(v), k)
    <3> HIDE DEF second
    <3> QED  BY <1>4, <2>1, <2>5
  <2>8. Bin(Bits(v), k) \in Int  BY <1>1, <2>1, BinStep
  <2>9. Pow2[0] * Bin(Bits(v), k) = Bin(Bits(v), k)  BY <1>2, <2>8
  <2> QED  BY <2>1, <2>2, <2>6, <2>7, <2>9 DEF k
<1> QED  BY <1>3, <1>4, <1>5 DEF f, g, k

\* shl and shr by a constant.
LEMMA ShiftLowers ==
    ASSUME NEW m \in Nat, NEW c, Circuit(c, m), NEW x \in LCs(c.next), NEW n \in Nat, Pow2[n] <= P,
           NEW a \in Nat, NEW op \in {"shl", "shr"}, NEW e, e = Shift(op, c, x, a, n),
           NEW F, \A w \in Assignments : F[w] =
              IF EvalLc(x, w) < Pow2[n] THEN Shifted(op, EvalLc(x, w), a, n) ELSE Refused
    PROVE  Lowers(c, e.c, e.lc, m, F)
<1> DEFINE first == c.next
           N == first + n
           d == e.c
           lc == e.lc
<1>1. first \in Nat \ {0} /\ first \in Nat /\ N \in Nat /\ first + n <= N  BY CircuitFacts
<1>2. /\ d = Num2Bits(c, x, n)
      /\ a <= n => lc = IF op = "shl" THEN Weights(first, n - a, a) ELSE Weights(first + a, n - a, 0)
      /\ ~(a <= n) => lc = Weights(first, 0, 0) \/ lc = Zero
    BY <1>1, ShiftForm
<1>3. /\ Grown(c, d, m) /\ d.next = N
      /\ \A w \in Assignments : Satisfied(d, w) <=>
            Satisfied(c, w) /\ Decomposed(w, first, n, EvalLc(x, w))
      /\ \A w \in Assignments : Satisfied(c, w) /\ EvalLc(x, w) < Pow2[n] => Extendable(c, d, w)
    BY <1>2, Num2BitsFacts
<1> HIDE DEF d, lc
<1>4. \A w \in Assignments : EvalLc(x, w) \in Nat  BY <1>1, EvalType, FieldMod
<1> HIDE DEF first
<1>5. lc \in LCs(N) /\ \A w \in Assignments : \A v \in Nat :
          v < Pow2[n] /\ Decomposed(w, first, n, v) => EvalLc(lc, w) = Shifted(op, v, a, n)
  <2> HIDE DEF N
  <2>1. CASE a <= n
    <3>1. /\ Weights(first, n - a, a) \in LCs(N) /\ Weights(first + a, n - a, 0) \in LCs(N)
          /\ \A w \in Assignments : \A v \in Nat : v < Pow2[n] /\ Decomposed(w, first, n, v) =>
                /\ EvalLc(Weights(first, n - a, a), w) = Shifted("shl", v, a, n)
                /\ EvalLc(Weights(first + a, n - a, 0), w) = Shifted("shr", v, a, n)
        BY <1>1, <2>1, ShiftLcs
    <3>2. CASE op = "shl"  BY <1>2, <2>1, <3>1, <3>2
    <3>3. CASE op = "shr"  BY <1>2, <2>1, <3>1, <3>3
    <3> QED  BY <3>2, <3>3
  <2>2. CASE ~(a <= n)
    <3>1. /\ Weights(first, 0, 0) \in LCs(N)
          /\ \A w \in Assignments : EvalLc(Weights(first, 0, 0), w) = 0
      <4> DEFINE b == [i \in Nat |-> 0]
                 z == 0
      <4>1. z \in Nat /\ first + z <= N /\ z + z = 0 /\ 0 .. z - 1 = {} /\ b \in BitStrings
        BY <1>1, <2>2 DEF BitStrings, N
      <4>2. Pow2[z + z] <= P /\ Pow2[z] = 1  BY <4>1, Pow2Facts, Modulus
      <4>3. Bin(b, z) = 0
        <5> HIDE DEF b
        <5> QED  BY <4>1, BinStep
      <4> HIDE DEF z, b
      <4>4. /\ Weights(first, z, z) \in LCs(N)
            /\ \A w \in Assignments : \A s \in BitStrings :
                 (\A i \in 0 .. z - 1 : w[first + i] = s[i]) => EvalLc(Weights(first, z, z), w) = Pow2[z] * Bin(s, z)
          BY <1>1, <4>1, <4>2, WeightsFacts
      <4>5. \A w \in Assignments : EvalLc(Weights(first, z, z), w) = Pow2[z] * Bin(b, z)
        BY <4>1, <4>4
      <4>6. Pow2[z] * Bin(b, z) = 0  BY <4>2, <4>3
      <4> QED  BY <4>4, <4>5, <4>6 DEF z
    <3>2. Zero \in LCs(N) /\ \A w \in Assignments : EvalLc(Zero, w) = 0
      BY <1>1, ZeroType, EvalZero
    <3>3. lc \in LCs(N) /\ \A w \in Assignments : EvalLc(lc, w) = 0  BY <1>2, <2>2, <3>1, <3>2
    <3>4. \A v \in Nat : v < Pow2[n] => Shifted(op, v, a, n) = 0  BY <2>2, ShiftValues DEF Shifted
    <3> QED  BY <3>3, <3>4
  <2> QED  BY <2>1, <2>2
<1>6. \A v \in Nat : v < Pow2[n] => Shifted(op, v, a, n) # Refused
  <2>1. Pow2[n] \in Nat  BY Pow2Facts
  <2>2. ASSUME NEW v \in Nat, v < Pow2[n] PROVE Shifted(op, v, a, n) \in Nat
    <3>1. /\ (v * Pow2[a]) % Pow2[n] \in 0 .. Pow2[n] - 1
          /\ v \div Pow2[a] \in Nat
        BY <2>2, ShiftValues
    <3> QED  BY <2>1, <3>1 DEF Shifted
  <2> QED  BY <2>2, RefusedFacts
<1>7. ASSUME NEW w \in Assignments, Satisfied(d, w)
      PROVE  Satisfied(c, w) /\ F[w] # Refused /\ EvalLc(lc, w) = F[w]
  <2>1. Satisfied(c, w) /\ Decomposed(w, first, n, EvalLc(x, w)) /\ EvalLc(x, w) < Pow2[n]
    BY <1>3, <1>7 DEF Decomposed
  <2>2. F[w] = Shifted(op, EvalLc(x, w), a, n)  BY <2>1
  <2> QED  BY <1>4, <1>5, <1>6, <2>1, <2>2
<1>8. ASSUME NEW w \in Assignments, Satisfied(c, w), F[w] # Refused
      PROVE  Extendable(c, d, w)
    BY <1>3, <1>8
<1> QED  BY <1>3, <1>5, <1>7, <1>8 DEF Lowers, Sound, Complete, d, lc

-----------------------------------------------------------------------------
(***************************************************************************)
(* Linear statements and the output.                                       *)
(***************************************************************************)

\* Addition.
LEMMA AddLowers ==
    ASSUME NEW m \in Nat, NEW c, Circuit(c, m), NEW x \in LCs(c.next), NEW y \in LCs(c.next),
           NEW F, \A w \in Assignments : F[w] = Plus(EvalLc(x, w), EvalLc(y, w))
    PROVE  Lowers(c, c, AddLinear(x, y, 1), m, F)
<1> DEFINE lc == AddLinear(x, y, 1)
<1>1. c.next \in Nat  BY CircuitFacts
<1>2. /\ lc \in LCs(c.next)
      /\ \A w \in Assignments : EvalLc(lc, w) = Plus(EvalLc(x, w), Times(1, EvalLc(y, w)))
    BY <1>1, AddLinearFacts, FieldOps
<1>3. \A w \in Assignments : Times(1, EvalLc(y, w)) = EvalLc(y, w)  BY <1>1, EvalType, FieldRing
<1> HIDE DEF lc
<1>4. \A w \in Assignments : F[w] = EvalLc(lc, w)  BY <1>2, <1>3
<1>5. Lowers(c, c, lc, m, F)  BY <1>2, <1>4, PureLowers
<1> QED  BY <1>5 DEF lc

\* Subtraction.
LEMMA SubLowers ==
    ASSUME NEW m \in Nat, NEW c, Circuit(c, m), NEW x \in LCs(c.next), NEW y \in LCs(c.next),
           NEW F, \A w \in Assignments : F[w] = Plus(EvalLc(x, w), Negated(EvalLc(y, w)))
    PROVE  Lowers(c, c, Minus(x, y), m, F)
<1>1. c.next \in Nat  BY CircuitFacts
<1>2. /\ Minus(x, y) \in LCs(c.next)
      /\ \A w \in Assignments : EvalLc(Minus(x, y), w) = Plus(EvalLc(x, w), Negated(EvalLc(y, w)))
    BY <1>1, MinusFacts
<1>3. \A w \in Assignments : F[w] = EvalLc(Minus(x, y), w)  BY <1>2
<1> QED  BY <1>2, <1>3, PureLowers

\* Multiplication by a constant.
LEMMA ConstMulLowers ==
    ASSUME NEW m \in Nat, NEW c, Circuit(c, m), NEW x \in LCs(c.next), NEW y \in LCs(c.next), IsConst(x),
           NEW F, \A w \in Assignments :
              F[w] = Times(EvalLc(x, w), EvalLc(y, w)) \/ F[w] = Times(EvalLc(y, w), EvalLc(x, w))
    PROVE  Lowers(c, c, Scaled(y, Coef(x, 0)), m, F)
<1> DEFINE k == Coef(x, 0)
<1>1. c.next \in Nat  BY CircuitFacts
<1>2. \A w \in Assignments : EvalLc(x, w) = k /\ k \in Field /\ EvalLc(y, w) \in Field
  BY <1>1, IsConstFacts, EvalType
<1>3. k \in Field  BY <1>1, LcFacts
<1> HIDE DEF k
<1>4. /\ Scaled(y, k) \in LCs(c.next)
      /\ \A w \in Assignments : EvalLc(Scaled(y, k), w) = Times(k, EvalLc(y, w))
    BY <1>1, <1>3, ScaledFacts
<1>5. \A w \in Assignments : F[w] = EvalLc(Scaled(y, k), w)  BY <1>2, <1>3, <1>4, FieldRing
<1>6. Lowers(c, c, Scaled(y, k), m, F)  BY <1>4, <1>5, PureLowers
<1> QED  BY <1>6 DEF k

\* The circuit with lc as its output.
Outputted(c, lc) ==
    [AddConstraint(NewWires(c, 1), lc, One, Unit(c.next)) EXCEPT !.out = c.next]

\* Such an output is the value of the statement.
LEMMA OutputtedFacts ==
    ASSUME NEW m \in Nat, NEW c, Circuit(c, m), NEW e, NEW lc, NEW F,
           Lowers(c, e, lc, m, F), Local(F, c.next), NEW d, d = Outputted(e, lc)
    PROVE  /\ Circuit(d, m) /\ d.inputs = c.inputs /\ d.out # NoWire /\ c.next <= d.next
           /\ \A w \in Assignments : Satisfied(d, w) =>
                 Satisfied(c, w) /\ F[w] # Refused /\ w[d.out] = F[w]
           /\ \A w \in Assignments : Satisfied(c, w) /\ F[w] # Refused => Extendable(c, d, w)
<1> DEFINE n == e.next
           g == AddConstraint(NewWires(e, 1), lc, One, Unit(n))
           G == [w \in Assignments |-> EvalLc(lc, w)]
<1>1. /\ Circuit(e, m) /\ n \in Nat /\ n > 0 /\ lc \in LCs(n) /\ e.inputs = c.inputs /\ c.next <= n
      /\ c.next \in Nat
      /\ \A w \in Assignments : Satisfied(e, w) =>
            Satisfied(c, w) /\ F[w] # Refused /\ EvalLc(lc, w) = F[w]
    BY LowersFacts, CircuitFacts
<1>2. n + 1 \in Nat /\ n + 1 > 0 /\ n <= n + 1 /\ n \in 0 .. (n + 1) - 1  BY <1>1
<1>3. lc \in LCs(n + 1) /\ One \in LCs(n + 1) /\ Unit(n) \in LCs(n + 1)
  <2> HIDE DEF n
  <2> QED  BY <1>1, <1>2, LcMono, OneFacts, UnitFacts
<1>4. \A w \in Assignments : G[w] \in Field /\ G[w] = EvalLc(lc, w)
  <2> HIDE DEF n
  <2> QED  BY <1>1, EvalType
<1> HIDE DEF G
<1>5. Local(G, n)
  <2> HIDE DEF n
  <2> QED  BY <1>1, <1>4, EvalAgree DEF Local
<1>6. Determined(lc, One, Unit(n), n, G)
  <2> HIDE DEF n
  <2>1. \A w \in Assignments : EvalLc(One, w) = 1 /\ EvalLc(Unit(n), w) = w[n]
    BY <1>2, OneFacts, UnitFacts
  <2>2. \A w \in Assignments : Times(EvalLc(lc, w), 1) = EvalLc(lc, w)
    BY <1>1, EvalType, FieldRing
  <2> QED  BY <1>4, <2>1, <2>2 DEF Determined
<1>7. Lowers(e, g, Unit(n), m, G) /\ g.next = n + 1
  BY <1>1, <1>3, <1>4, <1>5, <1>6, OneWireLowers
<1>8. d = [g EXCEPT !.out = n]  BY DEF Outputted
<1> HIDE DEF g
<1>9. \A w \in Assignments : Satisfied(e, w) => G[w] = F[w]  BY <1>1, <1>4
<1>10. Lowers(c, g, Unit(n), m, F)
  <2> HIDE DEF n
  <2>1. \A w \in Assignments : F[w] # Refused => F[w] # Refused  OBVIOUS
  <2> QED  BY <1>7, <1>9, <2>1, ThenLowers
<1>11. /\ Circuit(g, m) /\ g.next \in Nat /\ c.next <= g.next /\ g.inputs = c.inputs
       /\ \A w \in Assignments : Satisfied(g, w) =>
             Satisfied(c, w) /\ F[w] # Refused /\ EvalLc(Unit(n), w) = F[w]
    BY <1>10, LowersFacts
<1>12. \A w \in Assignments : EvalLc(Unit(n), w) = w[n]
  <2> HIDE DEF n
  <2> QED  BY <1>2, UnitFacts
<1>13. g = [next |-> g.next, cs |-> g.cs, rec |-> g.rec, inputs |-> g.inputs, out |-> g.out]
  BY <1>11, CircuitFacts
<1>14. d = [next |-> g.next, cs |-> g.cs, rec |-> g.rec, inputs |-> g.inputs, out |-> n]
  BY <1>8, <1>13
<1>15. d.next = g.next /\ d.cs = g.cs /\ d.rec = g.rec /\ d.inputs = g.inputs /\ d.out = n
  BY <1>14
<1>16. Circuit(d, m)
  <2>1. WellFormed(g, m) /\ g.rec \in RecipeMaps(g.next)  BY <1>11, CircuitFacts
  <2>2. d.out \in 0 .. d.next - 1  BY <1>2, <1>7, <1>15
  <2>3. WellFormed(d, m)  BY <1>15, <2>1, <2>2 DEF WellFormed
  <2>4. d = [next |-> d.next, cs |-> d.cs, rec |-> d.rec, inputs |-> d.inputs, out |-> d.out]
    BY <1>14, <1>15
  <2> QED  BY <1>15, <2>1, <2>3, <2>4 DEF Circuit
<1>17. \A w : Satisfied(d, w) <=> Satisfied(g, w)  BY <1>15, SatisfiedDef
<1>18. ASSUME NEW w \in Assignments, Satisfied(c, w), F[w] # Refused
       PROVE  Extendable(c, d, w)
  <2>1. Extendable(c, g, w)  BY <1>10, <1>18 DEF Lowers, Complete
  <2> QED  BY <1>17, <2>1 DEF Extendable
<1>19. d.out # NoWire  BY <1>1, <1>15 DEF NoWire
<1> QED  BY <1>11, <1>12, <1>15, <1>16, <1>17, <1>18, <1>19

-----------------------------------------------------------------------------
(***************************************************************************)
(* The emission.  After k - 1 statements, the models of the circuit are    *)
(* those of the meaning of these statements.                               *)
(***************************************************************************)

\* The inputs on which a program is judged.
InputsOf(p) == [1 .. p.inputs -> Samples]

\* A statement with a boolean operation has a bit as its value.
LEMMA MeaningBoolean ==
    ASSUME NEW s, NEW x, NEW y, NEW z, s.op \in BooleanOps, Meaning(s, x, y, z) # Refused
    PROVE  Meaning(s, x, y, z) \in {0, 1}
<1>1. \A b : Truth(b) \in {0, 1}  BY DEF Truth
<1>2. CASE s.op \in {"eq", "ne"}  BY <1>1, <1>2 DEF Meaning
<1>3. CASE s.op \in {"lt", "le", "gt", "ge"}
  <2>1. Meaning(s, x, y, z) =
           IF x < Pow2[program.n] /\ y < Pow2[program.n] THEN Truth(Ordered(s.op, x, y)) ELSE Refused
      BY <1>3 DEF Meaning
  <2> QED  BY <1>1, <2>1
<1>4. CASE s.op = "and"
  <2>1. Meaning(s, x, y, z) = IF {x, y} \subseteq {0, 1} THEN x * y ELSE Refused
    BY <1>4 DEF Meaning
  <2>2. {x, y} \subseteq {0, 1} => x * y \in {0, 1}  OBVIOUS
  <2> QED  BY <2>1, <2>2
<1>5. CASE s.op = "or"
  <2>1. Meaning(s, x, y, z) = IF {x, y} \subseteq {0, 1} THEN Truth(x + y > 0) ELSE Refused
    BY <1>5 DEF Meaning
  <2> QED  BY <1>1, <2>1
<1> QED  BY <1>2, <1>3, <1>4, <1>5 DEF BooleanOps

\* What is so while statements are lowered, m being the number of inputs.
Typed(p, c, e, t, k) ==
    /\ p \in Programs
    /\ k \in 1 .. Len(p.code)
    /\ Circuit(c, p.inputs) /\ c.out = NoWire
    /\ e \in Seq(LCs(c.next)) /\ Len(e) = p.inputs + k - 1
    /\ t \in [DOMAIN t -> Seq(Field)] /\ DOMAIN t \subseteq InputsOf(p)
    /\ \A in \in DOMAIN t : Len(t[in]) = p.inputs + k - 1
    /\ \A i \in 1 .. p.inputs : ~IsConst(e[i])

\* Every model of the circuit follows the meaning of the code so far.
Followed(p, c, e, t) ==
    \A in \in InputsOf(p) : \A w \in Models(c, in) :
        in \in DOMAIN t /\ \A j \in 1 .. Len(e) : EvalLc(e[j], w) = t[in][j]

\* Every input that the code has not refused has a model.
Reached(c, t) == \A in \in DOMAIN t : Models(c, in) # {}

\* The boolean results are bits.
BooleansHold(p, c, e, k) ==
    \A j \in 1 .. k - 1 : p.code[j].op \in BooleanOps =>
        \A w \in Assignments : Satisfied(c, w) => EvalLc(e[p.inputs + j], w) \in {0, 1}

\* What is known of the circuit when the first k - 1 statements have been emitted.
Emitted(p, c, e, t, k) ==
    Typed(p, c, e, t, k) /\ Followed(p, c, e, t) /\ Reached(c, t) /\ BooleansHold(p, c, e, k)

\* An operand of the next statement.
Usable(o) == IF o.lit THEN o.n \in Nat ELSE o.n \in 1 .. Len(env)

\* What a program is.
LEMMA ProgramFacts ==
    ASSUME NEW p \in Programs
    PROVE  /\ p.inputs \in Nat /\ Wide(p.n) /\ p.n \in Nat /\ Len(p.code) \in Nat \ {0}
           /\ \A j \in 1 .. Len(p.code) : IsStatement(p, j)
           /\ \A in \in InputsOf(p) : in \in [1 .. p.inputs -> Field]
<1>1. IsProgram(p) /\ Samples \subseteq Field  BY ProgramsAssumption
<1>2. \A in \in InputsOf(p) : in \in [1 .. p.inputs -> Field]  BY <1>1 DEF InputsOf
<1>3. /\ p.inputs \in Nat /\ p.n \in Nat \ {0} /\ Pow2[p.n] * Pow2[p.n] <= P
      /\ Len(p.code) \in Nat \ {0}
      /\ \A j \in 1 .. Len(p.code) : IsStatement(p, j)
    BY <1>1 DEF IsProgram
<1> QED  BY <1>2, <1>3 DEF Wide

\* An operand has the value that the meaning gives it.
LEMMA OperandFacts ==
    ASSUME Emitted(program, circuit, env, intended, pc), NEW o, Usable(o)
    PROVE  /\ Operand(o) \in LCs(circuit.next)
           /\ \A in \in DOMAIN intended : Number(o, intended[in]) \in Field
           /\ \A in \in InputsOf(program) : \A w \in Models(circuit, in) :
                 EvalLc(Operand(o), w) = Number(o, intended[in])
<1>1. /\ circuit.next \in Nat /\ circuit.next > 0
      /\ env \in Seq(LCs(circuit.next))
      /\ \A in \in DOMAIN intended : intended[in] \in Seq(Field) /\ Len(intended[in]) = Len(env)
      /\ program.inputs \in Nat
  <2>1. Circuit(circuit, program.inputs) /\ program \in Programs  BY DEF Emitted, Typed
  <2>2. circuit.next \in Nat /\ circuit.next > 0  BY <2>1, ProgramFacts, CircuitFacts
  <2>3. /\ intended \in [DOMAIN intended -> Seq(Field)]
        /\ \A in \in DOMAIN intended : Len(intended[in]) = Len(env)
        /\ env \in Seq(LCs(circuit.next))
      BY DEF Emitted, Typed
  <2> QED  BY <2>1, <2>2, <2>3, ProgramFacts
<1>2. CASE o.lit
  <2>1. o.n \in Nat /\ o.n \in Int  BY <1>2 DEF Usable
  <2>2. /\ Const(o.n) \in LCs(circuit.next)
        /\ \A w \in Assignments : EvalLc(Const(o.n), w) = o.n % P
      BY <1>1, <2>1, ConstFacts
  <2>3. Operand(o) = Const(o.n) /\ \A v : Number(o, v) = o.n % P  BY <1>2 DEF Operand, Number
  <2>4. o.n % P \in Field  BY <2>1, ModType
  <2>5. \A in \in InputsOf(program) : \A w \in Models(circuit, in) : w \in Assignments
    BY DEF Models
  <2> QED  BY <2>2, <2>3, <2>4, <2>5
<1>3. CASE ~o.lit
  <2>1. o.n \in 1 .. Len(env)  BY <1>3 DEF Usable
  <2>2. Operand(o) = env[o.n] /\ \A v : Number(o, v) = v[o.n]  BY <1>3 DEF Operand, Number
  <2>3. env[o.n] \in LCs(circuit.next)  BY <1>1, <2>1
  <2>4. \A in \in DOMAIN intended : intended[in][o.n] \in Field  BY <1>1, <2>1
  <2>5. \A in \in InputsOf(program) : \A w \in Models(circuit, in) :
           EvalLc(env[o.n], w) = intended[in][o.n]
      BY <2>1 DEF Emitted, Followed
  <2> QED  BY <2>2, <2>3, <2>4, <2>5
<1> QED  BY <1>2, <1>3

\* What the next statement may be.
LEMMA StatementFacts ==
    ASSUME Emitted(program, circuit, env, intended, pc)
    PROVE  /\ Usable(Statement.l) /\ Usable(Statement.r) /\ Usable(Statement.c)
           /\ Statement.op \in Operations
           /\ Statement.op \in {"return", "returnIf"} <=> pc = Len(program.code)
           /\ Statement.op \in {"shl", "shr"} => Statement.r.lit /\ Statement.r.n < P
           /\ Statement.op = "let" => Bounds(Statement.lo, Statement.hi)
           /\ Statement.op \in {"if", "returnIf"} =>
                 IF Statement.c.lit THEN Statement.c.n \in {0, 1}
                 ELSE Statement.c.n > program.inputs
                      => program.code[Statement.c.n - program.inputs].op \in BooleanOps
<1>1. program \in Programs /\ pc \in 1 .. Len(program.code) /\ Len(env) = program.inputs + pc - 1
  BY DEF Emitted, Typed
<1>2. IsStatement(program, pc)  BY <1>1, ProgramFacts
<1>3. Statement = program.code[pc]  BY DEF Statement
<1>4. Usable(Statement.l) /\ Usable(Statement.r) /\ Usable(Statement.c)
  BY <1>1, <1>2, <1>3 DEF IsStatement, Usable
<1> QED  BY <1>2, <1>3, <1>4 DEF IsStatement, Bounds

\* What the next statement computes, from an assignment and from the values so far.
Value ==
    [w \in Assignments |-> Meaning(Statement, EvalLc(L, w), EvalLc(R, w), EvalLc(C, w))]

\* The value of the next statement from the values v so far.
Result(v) ==
    Meaning(Statement, Number(Statement.l, v), Number(Statement.r, v), Number(Statement.c, v))

\* The invariant of the emission.
EmitOk == Emitted(program, circuit, env, intended, pc)

\* The meaning after the next statement.
LEMMA ContinuedFacts ==
    /\ DOMAIN Continued(Statement) = {in \in DOMAIN intended : Result(intended[in]) # Refused}
    /\ \A in \in DOMAIN Continued(Statement) :
          Continued(Statement)[in] = Append(intended[in], Result(intended[in]))
BY DEF Continued, Result

\* The two agree on the models of the circuit.
LEMMA ValueFacts ==
    ASSUME EmitOk
    PROVE  /\ circuit.next \in Nat /\ Circuit(circuit, program.inputs) /\ program.inputs \in Nat
           /\ L \in LCs(circuit.next) /\ R \in LCs(circuit.next) /\ C \in LCs(circuit.next)
           /\ \A w \in Assignments :
                 Value[w] = Meaning(Statement, EvalLc(L, w), EvalLc(R, w), EvalLc(C, w))
           /\ Local(Value, circuit.next)
           /\ \A in \in InputsOf(program) : \A w \in Models(circuit, in) :
                 in \in DOMAIN intended /\ Value[w] = Result(intended[in])
<1>0. Emitted(program, circuit, env, intended, pc)  BY DEF EmitOk
<1>1. Circuit(circuit, program.inputs) /\ program.inputs \in Nat /\ circuit.next \in Nat
  <2>1. program \in Programs /\ Circuit(circuit, program.inputs)  BY <1>0 DEF Emitted, Typed
  <2> QED  BY <2>1, ProgramFacts, CircuitFacts
<1>2. Usable(Statement.l) /\ Usable(Statement.r) /\ Usable(Statement.c)  BY <1>0, StatementFacts
<1>3. /\ L \in LCs(circuit.next)
      /\ \A in \in InputsOf(program) : \A w \in Models(circuit, in) :
            EvalLc(L, w) = Number(Statement.l, intended[in])
    BY <1>0, <1>2, OperandFacts DEF L
<1>4. /\ R \in LCs(circuit.next)
      /\ \A in \in InputsOf(program) : \A w \in Models(circuit, in) :
            EvalLc(R, w) = Number(Statement.r, intended[in])
    BY <1>0, <1>2, OperandFacts DEF R
<1>5. /\ C \in LCs(circuit.next)
      /\ \A in \in InputsOf(program) : \A w \in Models(circuit, in) :
            EvalLc(C, w) = Number(Statement.c, intended[in])
    BY <1>0, <1>2, OperandFacts DEF C
<1>6. \A w \in Assignments :
          Value[w] = Meaning(Statement, EvalLc(L, w), EvalLc(R, w), EvalLc(C, w))
    BY DEF Value
<1>7. Local(Value, circuit.next)
  <2> SUFFICES ASSUME NEW u \in Assignments, NEW w \in Assignments, Agree(u, w, circuit.next)
               PROVE  Value[u] = Value[w]
      BY DEF Local
  <2>1. EvalLc(L, u) = EvalLc(L, w) /\ EvalLc(R, u) = EvalLc(R, w) /\ EvalLc(C, u) = EvalLc(C, w)
    BY <1>1, <1>3, <1>4, <1>5, EvalAgree
  <2> QED  BY <1>6, <2>1
<1>8. ASSUME NEW in \in InputsOf(program), NEW w \in Models(circuit, in)
      PROVE  in \in DOMAIN intended /\ Value[w] = Result(intended[in])
  <2>1. in \in DOMAIN intended  BY <1>0 DEF Emitted, Followed
  <2>2. w \in Assignments  BY DEF Models
  <2> QED  BY <1>3, <1>4, <1>5, <1>6, <2>1, <2>2 DEF Result
<1> QED  BY <1>1, <1>3, <1>4, <1>5, <1>6, <1>7, <1>8

\* The circuit d states what the circuit so far does and that the statement has a value.
Continues(d) ==
    /\ Circuit(d, program.inputs) /\ d.inputs = circuit.inputs
    /\ \A w \in Assignments : Satisfied(d, w) => Satisfied(circuit, w) /\ Value[w] # Refused
    /\ \A w \in Assignments : Satisfied(circuit, w) /\ Value[w] # Refused => Extendable(circuit, d, w)

\* The models of a circuit that continues.
LEMMA ContinuesFacts ==
    ASSUME EmitOk, NEW d, Continues(d)
    PROVE  /\ \A in \in InputsOf(program) : \A w \in Models(d, in) :
                 /\ w \in Models(circuit, in) /\ in \in DOMAIN intended
                 /\ in \in DOMAIN Continued(Statement) /\ Value[w] = Result(intended[in])
           /\ \A in \in DOMAIN Continued(Statement) :
                 in \in InputsOf(program) /\ \E w \in Models(circuit, in) : \E u \in Models(d, in) :
                     Agree(u, w, circuit.next)
<1>1. ASSUME NEW in \in InputsOf(program), NEW w \in Models(d, in)
      PROVE  /\ w \in Models(circuit, in) /\ in \in DOMAIN intended
             /\ in \in DOMAIN Continued(Statement) /\ Value[w] = Result(intended[in])
  <2>1. w \in Assignments /\ Matches(d, in, w) /\ Satisfied(d, w)  BY DEF Models
  <2>2. Satisfied(circuit, w) /\ Value[w] # Refused /\ d.inputs = circuit.inputs
    BY <2>1 DEF Continues
  <2>3. w \in Models(circuit, in)  BY <2>1, <2>2 DEF Models, Matches
  <2>4. in \in DOMAIN intended /\ Value[w] = Result(intended[in])  BY <2>3, ValueFacts
  <2> QED  BY <2>2, <2>3, <2>4, ContinuedFacts
<1>2. ASSUME NEW in \in DOMAIN Continued(Statement)
      PROVE  in \in InputsOf(program) /\ \E w \in Models(circuit, in) : \E u \in Models(d, in) :
                 Agree(u, w, circuit.next)
  <2>1. in \in DOMAIN intended /\ Result(intended[in]) # Refused  BY ContinuedFacts
  <2>2. in \in InputsOf(program) /\ Models(circuit, in) # {} /\ program \in Programs
    BY <2>1 DEF EmitOk, Emitted, Typed, Reached
  <2>3. PICK w \in Models(circuit, in) : TRUE  BY <2>2
  <2>4. Value[w] # Refused  BY <2>1, <2>2, ValueFacts
  <2>5. w \in Assignments /\ Matches(circuit, in, w) /\ Satisfied(circuit, w)  BY DEF Models
  <2>6. PICK u \in Assignments : Agree(u, w, circuit.next) /\ Satisfied(d, u)
    BY <2>4, <2>5 DEF Continues, Extendable
  <2>7. Matches(d, in, u)
    <3>1. /\ \A i \in 1 .. program.inputs : circuit.inputs[i] \in 1 .. circuit.next - 1
          /\ DOMAIN in = 1 .. program.inputs /\ d.inputs = circuit.inputs
        BY <2>2, ValueFacts, CircuitFacts DEF InputsOf, Continues
    <3>2. ASSUME NEW i \in DOMAIN in PROVE u[d.inputs[i]] = in[i]
      <4>1. circuit.inputs[i] \in 0 .. circuit.next - 1  BY <3>1, ValueFacts
      <4>2. u[circuit.inputs[i]] = w[circuit.inputs[i]]  BY <2>6, <4>1 DEF Agree
      <4> QED  BY <2>5, <3>1, <4>2 DEF Matches
    <3> QED  BY <3>2 DEF Matches
  <2>8. u \in Models(d, in)  BY <2>6, <2>7 DEF Models
  <2> QED  BY <2>2, <2>6, <2>8
<1> QED  BY <1>1, <1>2

\* A statement lowered as its meaning says leaves what is so before it.
LEMMA EmitKeeps ==
    ASSUME EmitOk, pc # Len(program.code), NEW d, NEW x,
           Lowers(circuit, d, x, program.inputs, Value)
    PROVE  Emitted(program, d, Append(env, x), Continued(Statement), pc + 1)
<1> DEFINE e == Append(env, x)
           t == Continued(Statement)
<1>1. /\ Circuit(circuit, program.inputs) /\ program \in Programs /\ program.inputs \in Nat
      /\ pc \in 1 .. Len(program.code) /\ Len(program.code) \in Nat
      /\ env \in Seq(LCs(circuit.next)) /\ Len(env) = program.inputs + pc - 1 /\ circuit.out = NoWire
      /\ intended \in [DOMAIN intended -> Seq(Field)] /\ DOMAIN intended \subseteq InputsOf(program)
      /\ \A in \in DOMAIN intended : Len(intended[in]) = program.inputs + pc - 1
    BY ValueFacts, ProgramFacts DEF EmitOk, Emitted, Typed
<1>2. /\ Circuit(d, program.inputs) /\ d.next \in Nat /\ circuit.next \in Nat /\ circuit.next <= d.next
      /\ x \in LCs(d.next) /\ d.inputs = circuit.inputs /\ d.out = circuit.out
      /\ \A g \in LCs(circuit.next) : g \in LCs(d.next)
      /\ \A w \in Assignments : Satisfied(d, w) =>
            Satisfied(circuit, w) /\ Value[w] # Refused /\ EvalLc(x, w) = Value[w]
    BY <1>1, LowersFacts
<1>3. Continues(d)  BY <1>2 DEF Continues, Lowers, Complete
<1>4. /\ \A in \in InputsOf(program) : \A w \in Models(d, in) :
            /\ w \in Models(circuit, in) /\ in \in DOMAIN intended
            /\ in \in DOMAIN t /\ Value[w] = Result(intended[in])
      /\ \A in \in DOMAIN t :
            in \in InputsOf(program) /\ \E w \in Models(circuit, in) : \E u \in Models(d, in) :
                Agree(u, w, circuit.next)
    BY <1>3, ContinuesFacts
<1>5. /\ DOMAIN t = {in \in DOMAIN intended : Result(intended[in]) # Refused}
      /\ \A in \in DOMAIN t : t[in] = Append(intended[in], Result(intended[in]))
    BY ContinuedFacts
<1> HIDE DEF t
<1>6. e \in Seq(LCs(d.next)) /\ Len(e) = Len(env) + 1
      /\ (\A j \in 1 .. Len(env) : e[j] = env[j]) /\ e[Len(env) + 1] = x
  <2>1. env \in Seq(LCs(d.next))
    <3>1. LCs(circuit.next) \subseteq LCs(d.next)  BY <1>2
    <3> QED  BY <1>1, <3>1
  <2> QED  BY <1>2, <2>1
<1> HIDE DEF e
<1>7. \A in \in InputsOf(program) : \A w \in Models(d, in) :
          w \in Assignments /\ EvalLc(x, w) = Result(intended[in])
  <2> SUFFICES ASSUME NEW in \in InputsOf(program), NEW w \in Models(d, in)
               PROVE  w \in Assignments /\ EvalLc(x, w) = Result(intended[in])
      OBVIOUS
  <2>1. w \in Assignments /\ Satisfied(d, w)  BY DEF Models
  <2> QED  BY <1>2, <1>4, <2>1
<1>8. \A in \in DOMAIN t : Result(intended[in]) \in Field
  <2> SUFFICES ASSUME NEW in \in DOMAIN t PROVE Result(intended[in]) \in Field  OBVIOUS
  <2>1. PICK u \in Models(d, in) : in \in InputsOf(program)  BY <1>4
  <2>2. u \in Assignments /\ EvalLc(x, u) = Result(intended[in])  BY <1>7, <2>1
  <2> QED  BY <1>2, <2>2, EvalType
<1>9. \A in \in DOMAIN t : /\ in \in DOMAIN intended /\ t[in] \in Seq(Field)
                            /\ Len(t[in]) = Len(env) + 1
                            /\ \A j \in 1 .. Len(env) : t[in][j] = intended[in][j]
                            /\ t[in][Len(env) + 1] = Result(intended[in])
  <2> SUFFICES ASSUME NEW in \in DOMAIN t
               PROVE  /\ in \in DOMAIN intended /\ t[in] \in Seq(Field) /\ Len(t[in]) = Len(env) + 1
                      /\ \A j \in 1 .. Len(env) : t[in][j] = intended[in][j]
                      /\ t[in][Len(env) + 1] = Result(intended[in])
      OBVIOUS
  <2>1. in \in DOMAIN intended /\ intended[in] \in Seq(Field) /\ Len(intended[in]) = Len(env)
    BY <1>1, <1>5
  <2>2. Result(intended[in]) \in Field /\ t[in] = Append(intended[in], Result(intended[in]))
    BY <1>5, <1>8
  <2> QED  BY <2>1, <2>2
<1>10. Typed(program, d, e, t, pc + 1)
  <2>1. pc + 1 \in 1 .. Len(program.code)  BY <1>1
  <2>2. t \in [DOMAIN t -> Seq(Field)]
    <3>1. t = [in \in DOMAIN t |-> t[in]]  BY DEF t, Continued
    <3> QED  BY <1>9, <3>1
  <2>3. DOMAIN t \subseteq InputsOf(program)  BY <1>4
  <2>4. Len(e) = program.inputs + (pc + 1) - 1  BY <1>1, <1>6
  <2>5. \A in \in DOMAIN t : Len(t[in]) = program.inputs + (pc + 1) - 1  BY <1>1, <1>9
  <2>6. \A i \in 1 .. program.inputs : ~IsConst(e[i])
    <3>1. \A i \in 1 .. program.inputs : ~IsConst(env[i])  BY DEF EmitOk, Emitted, Typed
    <3>2. \A i \in 1 .. program.inputs : i \in 1 .. Len(env)  BY <1>1
    <3> QED  BY <1>6, <3>1, <3>2
  <2> QED  BY <1>1, <1>2, <1>6, <2>1, <2>2, <2>3, <2>4, <2>5, <2>6 DEF Typed
<1>11. Followed(program, d, e, t)
  <2> SUFFICES ASSUME NEW in \in InputsOf(program), NEW w \in Models(d, in)
               PROVE  in \in DOMAIN t /\ \A j \in 1 .. Len(e) : EvalLc(e[j], w) = t[in][j]
      BY DEF Followed
  <2>1. in \in DOMAIN t /\ w \in Models(circuit, in)  BY <1>4
  <2>2. \A j \in 1 .. Len(env) : EvalLc(env[j], w) = intended[in][j]
    BY <2>1 DEF EmitOk, Emitted, Followed
  <2>3. ASSUME NEW j \in 1 .. Len(e) PROVE EvalLc(e[j], w) = t[in][j]
    <3>1. CASE j \in 1 .. Len(env)  BY <1>6, <1>9, <2>1, <2>2, <3>1
    <3>2. CASE j = Len(env) + 1
      <4>1. e[j] = x  BY <1>6, <3>2
      <4>2. EvalLc(x, w) = Result(intended[in])  BY <1>7
      <4>3. t[in][Len(env) + 1] = Result(intended[in])
        <5>1. t[in] = Append(intended[in], Result(intended[in]))  BY <1>5, <2>1
        <5>2. in \in DOMAIN intended  BY <1>4
        <5>3. intended[in] \in Seq(Field) /\ Len(intended[in]) = Len(env)  BY <1>1, <5>2
        <5>4. Result(intended[in]) \in Field  BY <1>8, <2>1
        <5> QED  BY <5>1, <5>3, <5>4
      <4> QED  BY <3>2, <4>1, <4>2, <4>3
    <3>3. Len(env) \in Nat  BY <1>1
    <3> QED  BY <1>6, <3>1, <3>2, <3>3
  <2> QED  BY <2>1, <2>3
<1>12. Reached(d, t)  BY <1>4 DEF Reached
<1>13. BooleansHold(program, d, e, pc + 1)
  <2> SUFFICES ASSUME NEW j \in 1 .. (pc + 1) - 1, program.code[j].op \in BooleanOps,
                      NEW w \in Assignments, Satisfied(d, w)
               PROVE  EvalLc(e[program.inputs + j], w) \in {0, 1}
      BY DEF BooleansHold
  <2>1. Satisfied(circuit, w) /\ Value[w] # Refused /\ EvalLc(x, w) = Value[w]  BY <1>2
  <2>2. CASE j \in 1 .. pc - 1
    <3>1. program.inputs + j \in 1 .. Len(env)  BY <1>1, <2>2
    <3>2. e[program.inputs + j] = env[program.inputs + j]  BY <1>6, <3>1
    <3>3. EvalLc(env[program.inputs + j], w) \in {0, 1}
      BY <2>1, <2>2 DEF EmitOk, Emitted, BooleansHold
    <3> QED  BY <3>2, <3>3
  <2>3. CASE j = pc
    <3>1. Statement.op \in BooleanOps  BY <2>3 DEF Statement
    <3>2. Value[w] = Meaning(Statement, EvalLc(L, w), EvalLc(R, w), EvalLc(C, w))  BY ValueFacts
    <3>3. Value[w] \in {0, 1}  BY <2>1, <3>1, <3>2, MeaningBoolean
    <3>4. e[program.inputs + j] = x
      <4>1. program.inputs + j = Len(env) + 1  BY <1>1, <2>3
      <4> QED  BY <1>6, <4>1
    <3> QED  BY <2>1, <3>3, <3>4
  <2> QED  BY <1>1, <2>2, <2>3
<1> QED  BY <1>10, <1>11, <1>12, <1>13 DEF Emitted, e, t

-----------------------------------------------------------------------------
(***************************************************************************)
(* Every statement of the language is lowered by what its action emits.    *)
(***************************************************************************)

\* What the statements mean: arithmetic and comparisons,
LEMMA MeaningFacts ==
    ASSUME NEW s, NEW x, NEW y, NEW z, NEW v, v = Meaning(s, x, y, z)
    PROVE  /\ s.op = "add" => v = Plus(x, y)
           /\ s.op = "sub" => v = Plus(x, Negated(y))
           /\ s.op = "mul" => v = Times(x, y)
           /\ s.op = "eq" => v = Truth(x = y)
           /\ s.op = "ne" => v = Truth(~(x = y))
           /\ s.op \in {"lt", "le", "gt", "ge"} =>
                 v = IF x < Pow2[program.n] /\ y < Pow2[program.n]
                     THEN Truth(Ordered(s.op, x, y)) ELSE Refused
           /\ s.op = "div" => v = IF Divides(x, y, program.n) THEN x \div y ELSE Refused
           /\ s.op = "mod" => v = IF Divides(x, y, program.n) THEN x % y ELSE Refused
<1>1. s.op = "add" => v = Plus(x, y)  BY DEF Meaning
<1>2. s.op = "sub" => v = Plus(x, Negated(y))  BY DEF Meaning
<1>3. s.op = "mul" => v = Times(x, y)  BY DEF Meaning
<1>4. s.op = "eq" => v = Truth(x = y)  BY DEF Meaning
<1>5. s.op = "ne" => v = Truth(~(x = y))  BY DEF Meaning, Truth
<1>6. s.op \in {"lt", "le", "gt", "ge"} =>
          v = IF x < Pow2[program.n] /\ y < Pow2[program.n]
              THEN Truth(Ordered(s.op, x, y)) ELSE Refused
    BY DEF Meaning
<1>7. s.op = "div" => v = IF Divides(x, y, program.n) THEN x \div y ELSE Refused
  BY DEF Meaning, Divides
<1>8. s.op = "mod" => v = IF Divides(x, y, program.n) THEN x % y ELSE Refused
  BY DEF Meaning, Divides
<1> QED  BY <1>1, <1>2, <1>3, <1>4, <1>5, <1>6, <1>7, <1>8

\* and the others.
LEMMA MeaningOfBits ==
    ASSUME NEW s, NEW x, NEW y, NEW z, NEW v, v = Meaning(s, x, y, z)
    PROVE  /\ s.op \in BitOps =>
                 v = IF x < Pow2[program.n] /\ y < Pow2[program.n]
                     THEN BitSum(s.op, x, y, program.n) ELSE Refused
           /\ s.op \in {"shl", "shr"} =>
                 v = IF x < Pow2[program.n] THEN Shifted(s.op, x, y, program.n) ELSE Refused
           /\ s.op \in {"and", "or"} =>
                 v = IF {x, y} \subseteq {0, 1}
                     THEN (IF s.op = "and" THEN x * y ELSE Truth(x + y > 0)) ELSE Refused
           /\ s.op \in {"if", "returnIf"} => v = Choice(z, x, y)
           /\ s.op = "let" => v = IF x \in s.lo .. s.hi THEN x ELSE Refused
           /\ s.op = "return" => v = x
<1>1. s.op \in BitOps => v = IF x < Pow2[program.n] /\ y < Pow2[program.n]
                             THEN BitSum(s.op, x, y, program.n) ELSE Refused
    BY DEF Meaning, BitOps
<1>2. s.op \in {"shl", "shr"} =>
          v = IF x < Pow2[program.n] THEN Shifted(s.op, x, y, program.n) ELSE Refused
  <2>1. s.op = "shl" => v = IF x < Pow2[program.n] THEN (x * Pow2[y]) % Pow2[program.n] ELSE Refused
    BY DEF Meaning
  <2>2. s.op = "shr" => v = IF x < Pow2[program.n] THEN x \div Pow2[y] ELSE Refused
    BY DEF Meaning
  <2> QED  BY <2>1, <2>2 DEF Shifted
<1>3. s.op \in {"and", "or"} =>
          v = IF {x, y} \subseteq {0, 1}
              THEN (IF s.op = "and" THEN x * y ELSE Truth(x + y > 0)) ELSE Refused
  <2>1. s.op = "and" => v = IF {x, y} \subseteq {0, 1} THEN x * y ELSE Refused  BY DEF Meaning
  <2>2. s.op = "or" => v = IF {x, y} \subseteq {0, 1} THEN Truth(x + y > 0) ELSE Refused
    BY DEF Meaning
  <2> QED  BY <2>1, <2>2
<1>4. s.op \in {"if", "returnIf"} => v = Choice(z, x, y)  BY DEF Meaning, Choice
<1>5. s.op = "let" => v = IF x \in s.lo .. s.hi THEN x ELSE Refused  BY DEF Meaning
<1>6. s.op = "return" => v = x  BY DEF Meaning
<1> QED  BY <1>1, <1>2, <1>3, <1>4, <1>5, <1>6

\* What the statement computes from an assignment.
LEMMA ComputedFacts ==
    ASSUME EmitOk
    PROVE  /\ Circuit(circuit, program.inputs) /\ program.inputs \in Nat
           /\ L \in LCs(circuit.next) /\ R \in LCs(circuit.next) /\ C \in LCs(circuit.next)
           /\ Wide(program.n) /\ Ranged(program.n) /\ program.n \in Nat /\ Pow2[program.n] <= P
<1>1. program \in Programs  BY DEF EmitOk, Emitted, Typed
<1> QED  BY <1>1, ValueFacts, ProgramFacts, WidthFacts

\* add: the circuit lowers the statement.
LEMMA AddKept ==
    ASSUME EmitOk, Statement.op = "add"
    PROVE  Lowers(circuit, circuit, AddLinear(L, R, 1), program.inputs, Value)
<1>1. \A w \in Assignments : Value[w] = Plus(EvalLc(L, w), EvalLc(R, w))
  BY ValueFacts, MeaningFacts
<1> QED  BY <1>1, ComputedFacts, AddLowers

\* sub.
LEMMA SubKept ==
    ASSUME EmitOk, Statement.op = "sub"
    PROVE  Lowers(circuit, circuit, Minus(L, R), program.inputs, Value)
<1>1. \A w \in Assignments : Value[w] = Plus(EvalLc(L, w), Negated(EvalLc(R, w)))
  BY ValueFacts, MeaningFacts
<1> QED  BY <1>1, ComputedFacts, SubLowers

\* mul, by a constant or not.
LEMMA MulKept ==
    ASSUME EmitOk, Statement.op = "mul"
    PROVE  /\ IsConst(L) =>
                 Lowers(circuit, circuit, Scaled(R, Coef(L, 0)), program.inputs, Value)
           /\ IsConst(R) =>
                 Lowers(circuit, circuit, Scaled(L, Coef(R, 0)), program.inputs, Value)
           /\ Lowers(circuit, MulLc(circuit, L, R).c, MulLc(circuit, L, R).lc, program.inputs, Value)
<1>1. \A w \in Assignments : Value[w] = Times(EvalLc(L, w), EvalLc(R, w))
  BY ValueFacts, MeaningFacts
<1>2. IsConst(L) => Lowers(circuit, circuit, Scaled(R, Coef(L, 0)), program.inputs, Value)
  BY <1>1, ComputedFacts, ConstMulLowers
<1>3. IsConst(R) => Lowers(circuit, circuit, Scaled(L, Coef(R, 0)), program.inputs, Value)
  BY <1>1, ComputedFacts, ConstMulLowers
<1>4. Lowers(circuit, MulLc(circuit, L, R).c, MulLc(circuit, L, R).lc, program.inputs, Value)
  BY <1>1, ComputedFacts, MulLcLowers
<1> QED  BY <1>2, <1>3, <1>4

\* eq and ne.
LEMMA EqualKept ==
    ASSUME EmitOk, Statement.op \in {"eq", "ne"}, NEW e, e = Equal(circuit, L, R),
           NEW x, x = IF Statement.op = "eq" THEN e ELSE Not(e)
    PROVE  Lowers(circuit, x.c, x.lc, program.inputs, Value)
<1> DEFINE F == [w \in Assignments |-> Truth(EvalLc(L, w) = EvalLc(R, w))]
<1>1. \A w \in Assignments : F[w] = Truth(EvalLc(L, w) = EvalLc(R, w))  OBVIOUS
<1> HIDE DEF F
<1>2. Lowers(circuit, e.c, e.lc, program.inputs, F) /\ e = [c |-> e.c, lc |-> e.lc]
  BY <1>1, ComputedFacts, EqualLowers
<1>3. CASE Statement.op = "eq"
  <2>1. \A w \in Assignments : Value[w] = Truth(EvalLc(L, w) = EvalLc(R, w))
    BY <1>3, ValueFacts, MeaningFacts
  <2>2. Lowers(circuit, e.c, e.lc, program.inputs, Value)  BY <2>1, ComputedFacts, EqualLowers
  <2> QED  BY <1>3, <2>2
<1>4. CASE Statement.op = "ne"
  <2>1. ASSUME NEW w \in Assignments
        PROVE  Value[w] = IF F[w] = Refused THEN Refused ELSE Plus(1, Negated(F[w]))
    <3>1. Value[w] = Truth(~(EvalLc(L, w) = EvalLc(R, w)))  BY <1>4, ValueFacts, MeaningFacts
    <3>2. F[w] = Truth(EvalLc(L, w) = EvalLc(R, w))  BY <1>1
    <3>3. (EvalLc(L, w) = EvalLc(R, w)) \in BOOLEAN  OBVIOUS
    <3>4. Plus(1, Negated(F[w])) = Truth(~(EvalLc(L, w) = EvalLc(R, w))) /\ F[w] \in Field
      BY <3>2, <3>3, NotValue
    <3> QED  BY <3>1, <3>4, RefusedFacts
  <2>2. Lowers(circuit, Not(e).c, Not(e).lc, program.inputs, Value)
    BY <1>2, <2>1, ComputedFacts, NotLowers
  <2>3. x = Not(e)  BY <1>4
  <2> QED  BY <2>2, <2>3
<1> QED  BY <1>3, <1>4

\* The comparisons.
LEMMA ComparisonKept ==
    ASSUME EmitOk, Statement.op \in {"lt", "le", "gt", "ge"},
           NEW e, e = Comparison(Statement.op, circuit, L, R, program.n)
    PROVE  Lowers(circuit, e.c, e.lc, program.inputs, Value)
<1>1. \A w \in Assignments : Value[w] =
         CompareValue(Statement.op, EvalLc(L, w), EvalLc(R, w), program.n)
    BY ValueFacts, MeaningFacts DEF CompareValue
<1>2. Statement.op \in CompareOps  BY DEF CompareOps
<1> QED  BY <1>1, <1>2, ComputedFacts, ComparisonLowers

\* div and mod.
LEMMA DivModKept ==
    ASSUME EmitOk, NEW e, e = IntDivMod(circuit, L, R, program.n)
    PROVE  /\ Statement.op = "div" => Lowers(circuit, e.c, e.q, program.inputs, Value)
           /\ Statement.op = "mod" => Lowers(circuit, e.c, e.r, program.inputs, Value)
<1> DEFINE F == [w \in Assignments |->
                    IF Divides(EvalLc(L, w), EvalLc(R, w), program.n)
                    THEN EvalLc(L, w) \div EvalLc(R, w) ELSE Refused]
           G == [w \in Assignments |->
                    IF Divides(EvalLc(L, w), EvalLc(R, w), program.n)
                    THEN EvalLc(L, w) % EvalLc(R, w) ELSE Refused]
<1>1. \A w \in Assignments : F[w] = IF Divides(EvalLc(L, w), EvalLc(R, w), program.n)
                                    THEN EvalLc(L, w) \div EvalLc(R, w) ELSE Refused
    OBVIOUS
<1>2. \A w \in Assignments : G[w] = IF Divides(EvalLc(L, w), EvalLc(R, w), program.n)
                                    THEN EvalLc(L, w) % EvalLc(R, w) ELSE Refused
    OBVIOUS
<1> HIDE DEF F, G
<1>3. CASE Statement.op = "div"
  <2>1. \A w \in Assignments : Value[w] = IF Divides(EvalLc(L, w), EvalLc(R, w), program.n)
                                          THEN EvalLc(L, w) \div EvalLc(R, w) ELSE Refused
      BY <1>3, ValueFacts, MeaningFacts
  <2>2. Lowers(circuit, e.c, e.q, program.inputs, Value)
    BY <1>2, <2>1, ComputedFacts, DivModLowers
  <2> QED  BY <1>3, <2>2
<1>4. CASE Statement.op = "mod"
  <2>1. \A w \in Assignments : Value[w] = IF Divides(EvalLc(L, w), EvalLc(R, w), program.n)
                                          THEN EvalLc(L, w) % EvalLc(R, w) ELSE Refused
      BY <1>4, ValueFacts, MeaningFacts
  <2>2. Lowers(circuit, e.c, e.r, program.inputs, Value)
    BY <1>1, <2>1, ComputedFacts, DivModLowers
  <2> QED  BY <1>4, <2>2
<1> QED  BY <1>3, <1>4

\* bitand, bitor and bitxor.
LEMMA BitwiseKept ==
    ASSUME EmitOk, Statement.op \in BitOps,
           NEW e, e = Bitwise(Statement.op, circuit, L, R, program.n)
    PROVE  Lowers(circuit, e.c, e.lc, program.inputs, Value)
<1>1. \A w \in Assignments : Value[w] =
         IF EvalLc(L, w) < Pow2[program.n] /\ EvalLc(R, w) < Pow2[program.n]
         THEN BitSum(Statement.op, EvalLc(L, w), EvalLc(R, w), program.n) ELSE Refused
    BY ValueFacts, MeaningOfBits
<1> QED  BY <1>1, ComputedFacts, BitwiseLowers

\* shl and shr.
LEMMA ShiftKept ==
    ASSUME EmitOk, Statement.op \in {"shl", "shr"},
           NEW e, e = Shift(Statement.op, circuit, L, Statement.r.n, program.n)
    PROVE  Lowers(circuit, e.c, e.lc, program.inputs, Value)
<1>1. Statement.r.lit /\ Statement.r.n \in Nat /\ Statement.r.n < P
  <2>1. Usable(Statement.r) /\ Statement.r.lit /\ Statement.r.n < P  BY StatementFacts DEF EmitOk
  <2> QED  BY <2>1 DEF Usable
<1>2. \A w \in Assignments : EvalLc(R, w) = Statement.r.n
  <2>1. R = Const(Statement.r.n)  BY <1>1 DEF R, Operand
  <2>2. circuit.next \in Nat /\ circuit.next > 0  BY ComputedFacts, CircuitFacts
  <2>3. \A w \in Assignments : EvalLc(R, w) = Statement.r.n % P  BY <1>1, <2>1, <2>2, ConstFacts
  <2>4. Statement.r.n % P = Statement.r.n  BY <1>1, SmallMod, PrimeModulus
  <2> QED  BY <2>3, <2>4
<1>3. \A w \in Assignments : Value[w] =
         IF EvalLc(L, w) < Pow2[program.n]
         THEN Shifted(Statement.op, EvalLc(L, w), Statement.r.n, program.n) ELSE Refused
    BY <1>2, ValueFacts, MeaningOfBits
<1> DEFINE op == Statement.op
           a == Statement.r.n
<1>4. /\ op \in {"shl", "shr"} /\ a \in Nat /\ e = Shift(op, circuit, L, a, program.n)
      /\ \A w \in Assignments : Value[w] =
            IF EvalLc(L, w) < Pow2[program.n] THEN Shifted(op, EvalLc(L, w), a, program.n) ELSE Refused
    BY <1>1, <1>3
<1> HIDE DEF op, a
<1>5. /\ Circuit(circuit, program.inputs) /\ program.inputs \in Nat
      /\ L \in LCs(circuit.next) /\ program.n \in Nat /\ Pow2[program.n] <= P
    BY ComputedFacts
<1> QED  BY ONLY <1>4, <1>5, ShiftLowers

\* and, or.
LEMMA LogicalKept ==
    ASSUME EmitOk, Statement.op \in {"and", "or"}, NEW e, e = Logical(Statement.op, circuit, L, R)
    PROVE  Lowers(circuit, e.c, e.lc, program.inputs, Value)
<1>1. \A w \in Assignments : Value[w] =
         IF {EvalLc(L, w), EvalLc(R, w)} \subseteq {0, 1}
         THEN (IF Statement.op = "and" THEN EvalLc(L, w) * EvalLc(R, w)
               ELSE Truth(EvalLc(L, w) + EvalLc(R, w) > 0))
         ELSE Refused
    BY ValueFacts, MeaningOfBits
<1> QED  BY <1>1, ComputedFacts, LogicalLowers

\* let, with its bounds.
LEMMA LetKept ==
    ASSUME EmitOk, Statement.op = "let"
    PROVE  Lowers(circuit, Bounded(circuit, L, Statement.lo, Statement.hi), L, program.inputs, Value)
<1>1. \A w \in Assignments : Value[w] =
         IF EvalLc(L, w) \in Statement.lo .. Statement.hi THEN EvalLc(L, w) ELSE Refused
    BY ValueFacts, MeaningOfBits
<1>2. Bounds(Statement.lo, Statement.hi)  BY StatementFacts DEF EmitOk
<1> QED  BY <1>1, <1>2, ComputedFacts, BoundedLowers

\* A constant condition is a bit.
LEMMA ConditionFacts ==
    ASSUME EmitOk, Statement.op \in {"if", "returnIf"}, IsConst(C),
           NEW w \in Assignments, Satisfied(circuit, w)
    PROVE  EvalLc(C, w) \in {0, 1}
<1>1. /\ Usable(Statement.c)
      /\ IF Statement.c.lit THEN Statement.c.n \in {0, 1}
         ELSE Statement.c.n > program.inputs
              => program.code[Statement.c.n - program.inputs].op \in BooleanOps
    BY StatementFacts DEF EmitOk
<1>2. CASE Statement.c.lit
  <2>1. C = Const(Statement.c.n) /\ Statement.c.n \in {0, 1}  BY <1>1, <1>2 DEF C, Operand
  <2>2. circuit.next \in Nat /\ circuit.next > 0  BY ComputedFacts, CircuitFacts
  <2>3. EvalLc(C, w) = Statement.c.n % P  BY <2>1, <2>2, ConstFacts
  <2>4. Statement.c.n % P = Statement.c.n
    <3>1. 0 % P = 0 /\ 1 % P = 1  BY SmallMod, PrimeModulus
    <3> QED  BY <2>1, <3>1
  <2> QED  BY <2>1, <2>3, <2>4
<1>3. CASE ~Statement.c.lit
  <2>1. C = env[Statement.c.n] /\ Statement.c.n \in 1 .. Len(env)
    BY <1>1, <1>3 DEF C, Operand, Usable
  <2>2. /\ program.inputs \in Nat /\ pc \in Nat /\ Len(env) = program.inputs + pc - 1
        /\ \A i \in 1 .. program.inputs : ~IsConst(env[i])
      BY ComputedFacts DEF EmitOk, Emitted, Typed
  <2>3. Statement.c.n > program.inputs  BY <2>1, <2>2
  <2> DEFINE j == Statement.c.n - program.inputs
  <2>4. j \in 1 .. pc - 1 /\ program.inputs + j = Statement.c.n  BY <2>1, <2>2, <2>3
  <2>5. program.code[j].op \in BooleanOps  BY <1>1, <1>3, <2>3
  <2> HIDE DEF j
  <2>6. EvalLc(env[program.inputs + j], w) \in {0, 1}
    BY <2>4, <2>5 DEF EmitOk, Emitted, BooleansHold
  <2> QED  BY <2>1, <2>4, <2>6
<1> QED  BY <1>2, <1>3

\* if.
LEMMA IfKept ==
    ASSUME EmitOk, Statement.op = "if", NEW e, e = Branch(circuit, C, L, R)
    PROVE  Lowers(circuit, e.c, e.lc, program.inputs, Value)
<1>1. \A w \in Assignments : Value[w] = Choice(EvalLc(C, w), EvalLc(L, w), EvalLc(R, w))
  BY ValueFacts, MeaningOfBits
<1>2. IsConst(C) => \A w \in Assignments : Satisfied(circuit, w) => EvalLc(C, w) \in {0, 1}
  BY ConditionFacts
<1> QED  BY <1>1, <1>2, ComputedFacts, BranchLowers

\* return.
LEMMA ReturnKept ==
    ASSUME EmitOk, Statement.op = "return"
    PROVE  Lowers(circuit, circuit, L, program.inputs, Value)
<1>1. \A w \in Assignments : Value[w] = EvalLc(L, w)  BY ValueFacts, MeaningOfBits
<1> QED  BY <1>1, ComputedFacts, PureLowers

\* A predicated return.
LEMMA ReturnIfKept ==
    ASSUME EmitOk, Statement.op = "returnIf", NEW e, e = PredicatedReturn(circuit, C, L, R)
    PROVE  Lowers(circuit, e.c, e.lc, program.inputs, Value)
<1>1. \A w \in Assignments : Value[w] = Choice(EvalLc(C, w), EvalLc(L, w), EvalLc(R, w))
  BY ValueFacts, MeaningOfBits
<1>2. IsConst(C) => \A w \in Assignments : Satisfied(circuit, w) => EvalLc(C, w) \in {0, 1}
  BY ConditionFacts
<1> QED  BY <1>1, <1>2, ComputedFacts, ReturnLowers

\* The actions that lower a statement which is not the return.
Lowering ==
    \/ EmitAdd \/ EmitSub \/ EmitMul \/ EmitEqual \/ EmitComparison \/ EmitDiv \/ EmitMod
    \/ EmitBitwise \/ EmitShift \/ EmitLogical \/ EmitIf \/ EmitLet

\* Each of these actions emits a circuit that lowers its statement,
LEMMA LoweringFacts ==
    ASSUME EmitOk, Lowering
    PROVE  /\ \E d : \E x : Emit(d, x) /\ Lowers(circuit, d, x, program.inputs, Value)
           /\ Statement.op \notin {"return", "returnIf"}
<1>1. CASE EmitAdd
  <2>1. Statement.op = "add" /\ Emit(circuit, AddLinear(L, R, 1))  BY <1>1 DEF EmitAdd, Emitting
  <2> QED  BY <2>1, AddKept
<1>2. CASE EmitSub
  <2>1. Statement.op = "sub" /\ Emit(circuit, Minus(L, R))  BY <1>2 DEF EmitSub, Emitting
  <2> QED  BY <2>1, SubKept
<1>3. CASE EmitMul
  <2>1. /\ Statement.op = "mul"
        /\ \/ IsConst(L) /\ Emit(circuit, Scaled(R, Coef(L, 0)))
           \/ IsConst(R) /\ Emit(circuit, Scaled(L, Coef(R, 0)))
           \/ Emit(MulLc(circuit, L, R).c, MulLc(circuit, L, R).lc)
      BY <1>3 DEF EmitMul, Emitting
  <2> QED  BY <2>1, MulKept
<1>4. CASE EmitEqual
  <2> DEFINE e == Equal(circuit, L, R)
             x == IF Statement.op = "eq" THEN e ELSE Not(e)
  <2>1. Statement.op \in {"eq", "ne"} /\ Emit(x.c, x.lc)  BY <1>4 DEF EmitEqual
  <2>2. Lowers(circuit, x.c, x.lc, program.inputs, Value)  BY <2>1, EqualKept
  <2> HIDE DEF x
  <2> QED  BY <2>1, <2>2
<1>5. CASE EmitComparison
  <2> DEFINE e == Comparison(Statement.op, circuit, L, R, program.n)
  <2>1. Statement.op \in {"lt", "le", "gt", "ge"} /\ Emit(e.c, e.lc)  BY <1>5 DEF EmitComparison
  <2>2. Lowers(circuit, e.c, e.lc, program.inputs, Value)  BY <2>1, ComparisonKept
  <2> HIDE DEF e
  <2> QED  BY <2>1, <2>2
<1>6. CASE EmitDiv
  <2> DEFINE e == IntDivMod(circuit, L, R, program.n)
  <2>1. Statement.op = "div" /\ Emit(e.c, e.q)  BY <1>6 DEF EmitDiv, Emitting
  <2>2. Lowers(circuit, e.c, e.q, program.inputs, Value)  BY <2>1, DivModKept
  <2> HIDE DEF e
  <2> QED  BY <2>1, <2>2
<1>7. CASE EmitMod
  <2> DEFINE e == IntDivMod(circuit, L, R, program.n)
  <2>1. Statement.op = "mod" /\ Emit(e.c, e.r)  BY <1>7 DEF EmitMod, Emitting
  <2>2. Lowers(circuit, e.c, e.r, program.inputs, Value)  BY <2>1, DivModKept
  <2> HIDE DEF e
  <2> QED  BY <2>1, <2>2
<1>8. CASE EmitBitwise
  <2> DEFINE e == Bitwise(Statement.op, circuit, L, R, program.n)
  <2>1. Statement.op \in {"bitand", "bitor", "bitxor"} /\ Emit(e.c, e.lc)  BY <1>8 DEF EmitBitwise
  <2>2. Statement.op \in BitOps  BY <2>1 DEF BitOps
  <2>3. Lowers(circuit, e.c, e.lc, program.inputs, Value)  BY <2>2, BitwiseKept
  <2> HIDE DEF e
  <2> QED  BY <2>1, <2>3
<1>9. CASE EmitShift
  <2> DEFINE e == Shift(Statement.op, circuit, L, Statement.r.n, program.n)
  <2>1. Statement.op \in {"shl", "shr"} /\ Emit(e.c, e.lc)  BY <1>9 DEF EmitShift
  <2>2. Lowers(circuit, e.c, e.lc, program.inputs, Value)  BY <2>1, ShiftKept
  <2> HIDE DEF e
  <2> QED  BY <2>1, <2>2
<1>10. CASE EmitLogical
  <2> DEFINE e == Logical(Statement.op, circuit, L, R)
  <2>1. Statement.op \in {"and", "or"} /\ Emit(e.c, e.lc)  BY <1>10 DEF EmitLogical
  <2>2. Lowers(circuit, e.c, e.lc, program.inputs, Value)  BY <2>1, LogicalKept
  <2> HIDE DEF e
  <2> QED  BY <2>1, <2>2
<1>11. CASE EmitIf
  <2> DEFINE e == Branch(circuit, C, L, R)
  <2>1. Statement.op = "if" /\ Emit(e.c, e.lc)  BY <1>11 DEF EmitIf, Emitting
  <2>2. Lowers(circuit, e.c, e.lc, program.inputs, Value)  BY <2>1, IfKept
  <2> HIDE DEF e
  <2> QED  BY <2>1, <2>2
<1>12. CASE EmitLet
  <2>1. Statement.op = "let" /\ Emit(Bounded(circuit, L, Statement.lo, Statement.hi), L)
    BY <1>12 DEF EmitLet, Emitting
  <2> QED  BY <2>1, LetKept
<1> QED  BY <1>1, <1>2, <1>3, <1>4, <1>5, <1>6, <1>7, <1>8, <1>9, <1>10, <1>11, <1>12 DEF Lowering

\* and so keeps the invariant.
LEMMA LoweringKeeps ==
    ASSUME EmitOk, Lowering
    PROVE  EmitOk' /\ UNCHANGED <<program, phase, scan>>
<1>1. PICK d, x : Emit(d, x) /\ Lowers(circuit, d, x, program.inputs, Value)  BY LoweringFacts
<1>2. pc # Len(program.code)
  <2>1. Statement.op \notin {"return", "returnIf"}  BY LoweringFacts
  <2> QED  BY <2>1, StatementFacts DEF EmitOk
<1>3. Emitted(program, d, Append(env, x), Continued(Statement), pc + 1)  BY <1>1, <1>2, EmitKeeps
<1>4. /\ program' = program /\ circuit' = d /\ env' = Append(env, x)
      /\ intended' = Continued(Statement) /\ pc' = pc + 1
      /\ phase' = phase /\ scan' = scan
    BY <1>1 DEF Emit
<1> QED  BY <1>3, <1>4 DEF EmitOk

-----------------------------------------------------------------------------
(***************************************************************************)
(* The return, which ends the emission: the outputs of the circuit are     *)
(* those intended.                                                         *)
(***************************************************************************)

\* The circuit c of the program p admits the outputs in t, and no others.
Stated(p, c, t) ==
    /\ p \in Programs /\ c.out # NoWire
    /\ \A in \in InputsOf(p) :
          Outs(c, in) = IF in \in DOMAIN t THEN {t[in][Len(t[in])]} ELSE {}

\* Stated depends on the outputs only.
LEMMA StatedSame ==
    ASSUME NEW p, NEW c, NEW t, Stated(p, c, t), NEW d, d.out = NoWire <=> c.out = NoWire,
           \A in \in [1 .. p.inputs -> Field] : Outs(d, in) = Outs(c, in)
    PROVE  Stated(p, d, t)
<1>1. p \in Programs  BY DEF Stated
<1>2. \A in \in InputsOf(p) : Outs(d, in) = Outs(c, in)  BY <1>1, ProgramFacts
<1> QED  BY <1>2 DEF Stated

\* An output with the value of the last statement states the program.
LEMMA OutputStates ==
    ASSUME EmitOk, NEW e, NEW lc, Lowers(circuit, e, lc, program.inputs, Value),
           NEW d, d = Outputted(e, lc)
    PROVE  /\ Circuit(d, program.inputs)
           /\ Stated(program, d, Continued(Statement))
<1>1. /\ Circuit(circuit, program.inputs) /\ program.inputs \in Nat /\ Local(Value, circuit.next)
      /\ program \in Programs
    BY ValueFacts DEF EmitOk, Emitted, Typed
<1>2. /\ Circuit(d, program.inputs) /\ d.inputs = circuit.inputs /\ d.out # NoWire
      /\ \A w \in Assignments : Satisfied(d, w) =>
            Satisfied(circuit, w) /\ Value[w] # Refused /\ w[d.out] = Value[w]
      /\ \A w \in Assignments : Satisfied(circuit, w) /\ Value[w] # Refused =>
            Extendable(circuit, d, w)
    BY <1>1, OutputtedFacts
<1>3. Continues(d)  BY <1>2 DEF Continues
<1> DEFINE t == Continued(Statement)
<1>4. /\ \A in \in InputsOf(program) : \A w \in Models(d, in) :
            in \in DOMAIN t /\ Value[w] = Result(intended[in])
      /\ \A in \in DOMAIN t : in \in InputsOf(program) /\ Models(d, in) # {}
    BY <1>3, ContinuesFacts
<1>5. \A in \in DOMAIN t : in \in DOMAIN intended /\ t[in] = Append(intended[in], Result(intended[in]))
  BY ContinuedFacts
<1> HIDE DEF t
<1>6. \A in \in DOMAIN t : t[in][Len(t[in])] = Result(intended[in])
  <2> SUFFICES ASSUME NEW in \in DOMAIN t PROVE t[in][Len(t[in])] = Result(intended[in])  OBVIOUS
  <2>1. t[in] = Append(intended[in], Result(intended[in])) /\ in \in DOMAIN intended  BY <1>5
  <2>2. intended[in] \in Seq(Field)  BY <2>1 DEF EmitOk, Emitted, Typed
  <2>3. Len(t[in]) = Len(intended[in]) + 1 /\ Len(intended[in]) \in Nat  BY <2>1, <2>2
  <2> QED  BY <2>1, <2>2, <2>3
<1>7. ASSUME NEW in \in InputsOf(program)
      PROVE  Outs(d, in) = IF in \in DOMAIN t THEN {t[in][Len(t[in])]} ELSE {}
  <2>1. Outs(d, in) = {w[d.out] : w \in Models(d, in)}  BY <1>2 DEF Outs
  <2>2. \A w \in Models(d, in) : in \in DOMAIN t /\ w[d.out] = Result(intended[in])
    <3> SUFFICES ASSUME NEW w \in Models(d, in)
                 PROVE  in \in DOMAIN t /\ w[d.out] = Result(intended[in])
        OBVIOUS
    <3>1. w \in Assignments /\ Satisfied(d, w)  BY DEF Models
    <3>2. w[d.out] = Value[w]  BY <1>2, <3>1
    <3> QED  BY <1>4, <3>2
  <2>3. CASE in \in DOMAIN t
    <3>1. PICK u \in Models(d, in) : TRUE  BY <1>4, <2>3
    <3>2. t[in][Len(t[in])] = Result(intended[in])  BY <1>6, <2>3
    <3> HIDE DEF Result
    <3> QED  BY <2>1, <2>2, <2>3, <3>1, <3>2
  <2>4. CASE in \notin DOMAIN t
    <3>1. Models(d, in) = {}  BY <2>2, <2>4
    <3> QED  BY <2>1, <2>4, <3>1
  <2> QED  BY <2>3, <2>4
<1>8. Stated(program, d, t)  BY <1>1, <1>2, <1>7 DEF Stated
<1> QED  BY <1>2, <1>8 DEF t

\* The returns do that.
LEMMA ReturnStates ==
    ASSUME EmitOk, EmitReturn \/ EmitReturnIf
    PROVE  /\ Circuit(circuit', program'.inputs) /\ Stated(program', circuit', intended')
           /\ phase' = "scan" /\ scan' = scan /\ program' = program
<1>1. \E e : \E lc : /\ Lowers(circuit, e, lc, program.inputs, Value)
                     /\ circuit' = Outputted(e, lc) /\ intended' = Continued(Statement)
                     /\ phase' = "scan" /\ scan' = scan /\ program' = program
  <2>1. CASE EmitReturn
    <3>1. Statement.op = "return" /\ Output([c |-> circuit, lc |-> L])
      BY <2>1 DEF EmitReturn, Emitting
    <3>2. /\ circuit' = Outputted(circuit, L) /\ intended' = Continued(Statement)
          /\ phase' = "scan" /\ scan' = scan /\ program' = program
        BY <3>1 DEF Output, Outputted
    <3> QED  BY <3>1, <3>2, ReturnKept
  <2>2. CASE EmitReturnIf
    <3> DEFINE e == PredicatedReturn(circuit, C, L, R)
    <3>1. Statement.op = "returnIf" /\ Output(e)  BY <2>2 DEF EmitReturnIf, Emitting
    <3>2. Lowers(circuit, e.c, e.lc, program.inputs, Value)  BY <3>1, ReturnIfKept
    <3> HIDE DEF e
    <3>3. /\ circuit' = Outputted(e.c, e.lc) /\ intended' = Continued(Statement)
          /\ phase' = "scan" /\ scan' = scan /\ program' = program
        BY <3>1 DEF Output, Outputted
    <3> QED  BY <3>2, <3>3
  <2> QED  BY <2>1, <2>2
<1>2. PICK e, lc : /\ Lowers(circuit, e, lc, program.inputs, Value)
                   /\ circuit' = Outputted(e, lc) /\ intended' = Continued(Statement)
                   /\ phase' = "scan" /\ scan' = scan /\ program' = program
    BY <1>1
<1> DEFINE d == Outputted(e, lc)
<1>3. Circuit(d, program.inputs) /\ Stated(program, d, Continued(Statement))
  BY <1>2, OutputStates
<1> HIDE DEF d
<1>4. circuit' = d  BY <1>2 DEF d
<1> QED  BY <1>2, <1>3, <1>4

-----------------------------------------------------------------------------
(***************************************************************************)
(* The inductive invariant and the theorems.                               *)
(***************************************************************************)

\* The fields of a scan.
IsScan(s) ==
    s = [i |-> s.i, sub |-> s.sub, uses |-> s.uses, drop |-> s.drop, copies |-> s.copies]

\* The inductive invariant: what each phase has established.
IInv ==
    /\ phase \in {"emit", "scan", "merge", "compact", "done"}
    /\ phase = "emit" => EmitOk
    /\ phase \in {"scan", "merge", "compact"} =>
          Circuit(circuit, program.inputs) /\ Stated(program, circuit, intended)
    /\ phase = "scan" => ScanOk(circuit, scan) /\ CopiesOk(scan) /\ IsScan(scan)
    /\ phase \in {"emit", "merge"} => scan = EmptyScan
    /\ phase = "done" =>
          WellFormed(circuit, program.inputs) /\ Stated(program, circuit, intended)

\* A scan that has found nothing.
LEMMA EmptyScanFacts ==
    ASSUME NEW m \in Nat, NEW c, Circuit(c, m)
    PROVE  ScanOk(c, EmptyScan) /\ CopiesOk(EmptyScan) /\ IsScan(EmptyScan)
<1>1. Len(c.cs) \in Nat  BY CircuitFacts
<1>2. DOMAIN EmptyScan.sub = {} /\ EmptyScan.i = 1 /\ EmptyScan.drop = {} /\ EmptyScan.copies = <<>>
  BY DEF EmptyScan
<1>3. IsSub(EmptyScan.sub, c.next)  BY <1>2 DEF IsSub
<1>4. EmptyScan.i \in 1 .. Len(c.cs) + 1  BY <1>1, <1>2
<1>5. ScanOk(c, EmptyScan)  BY <1>2, <1>3, <1>4 DEF ScanOk
<1>6. CopiesOk(EmptyScan)  BY <1>2 DEF CopiesOk
<1>7. IsScan(EmptyScan)  BY DEF IsScan, EmptyScan
<1> QED  BY <1>5, <1>6, <1>7

\* The invariant holds at first: the circuit has the inputs and no constraint.
LEMMA InitHolds == Init => IInv
<1> SUFFICES ASSUME Init PROVE IInv  OBVIOUS
<1> DEFINE m == program.inputs
<1>1. program \in Programs /\ m \in Nat /\ Len(program.code) \in Nat \ {0}
  BY ProgramFacts DEF Init
<1>2. /\ circuit.next = m + 1 /\ circuit.cs = <<>> /\ circuit.rec = <<>> /\ circuit.out = NoWire
      /\ circuit.inputs = [i \in 1 .. m |-> i]
      /\ circuit = [next |-> circuit.next, cs |-> circuit.cs, rec |-> circuit.rec,
                    inputs |-> circuit.inputs, out |-> circuit.out]
      /\ env = [i \in 1 .. m |-> Unit(i)] /\ pc = 1 /\ phase = "emit" /\ scan = EmptyScan
      /\ intended = [in \in InputsOf(program) |-> in]
    BY DEF Init, Inputs, InputsOf
<1> HIDE DEF m
<1>3. circuit.next \in Nat \ {0}  BY <1>1, <1>2
<1>4. Circuit(circuit, m)
  <2>1. circuit.inputs \in [1 .. m -> 1 .. circuit.next - 1]  BY <1>1, <1>2
  <2>2. \A i, j \in 1 .. m : circuit.inputs[i] = circuit.inputs[j] => i = j  BY <1>2
  <2>3. circuit.out \in 0 .. circuit.next - 1  BY <1>1, <1>2 DEF NoWire
  <2>4. circuit.cs \in Seq(Constraints(circuit.next))  BY <1>2
  <2>5. circuit.rec \in RecipeMaps(circuit.next)
    <3>1. {} \in SUBSET Nat /\ circuit.rec \in [{} -> Recipes(circuit.next)]  BY <1>2
    <3> QED  BY <3>1, RecipeMapFacts
  <2>6. WellFormed(circuit, m)  BY <1>3, <2>1, <2>2, <2>3, <2>4 DEF WellFormed
  <2> QED  BY <1>2, <2>5, <2>6 DEF Circuit
<1>5. \A i \in 1 .. m : Unit(i) \in LCs(circuit.next) /\ Wires(Unit(i)) = {i}
                        /\ \A w \in Assignments : EvalLc(Unit(i), w) = w[i]
  <2>1. \A i \in 1 .. m : i \in 0 .. circuit.next - 1  BY <1>1, <1>2
  <2> QED  BY <1>3, <2>1, UnitFacts
<1>6. env \in Seq(LCs(circuit.next)) /\ Len(env) = m
  <2>1. env \in [1 .. m -> LCs(circuit.next)]  BY <1>2, <1>5
  <2> QED  BY <1>1, <2>1
<1>7. \A in \in InputsOf(program) : in \in Seq(Field) /\ Len(in) = m /\ in \in [1 .. m -> Field]
  <2>1. \A in \in InputsOf(program) : in \in [1 .. m -> Field]  BY <1>1, ProgramFacts DEF m
  <2> QED  BY <1>1, <2>1
<1>8. DOMAIN intended = InputsOf(program) /\ \A in \in InputsOf(program) : intended[in] = in
  BY <1>2
<1>9. Typed(program, circuit, env, intended, pc)
  <2>1. intended \in [DOMAIN intended -> Seq(Field)]  BY <1>2, <1>7
  <2>2. pc \in 1 .. Len(program.code) /\ Len(env) = m + pc - 1
        /\ \A in \in DOMAIN intended : Len(intended[in]) = m + pc - 1
      BY <1>1, <1>2, <1>6, <1>7, <1>8
  <2>3. \A i \in 1 .. m : ~IsConst(env[i])  BY <1>2, <1>5 DEF IsConst
  <2> QED  BY <1>1, <1>2, <1>4, <1>6, <1>8, <2>1, <2>2, <2>3 DEF Typed, m
<1>10. Followed(program, circuit, env, intended)
  <2> SUFFICES ASSUME NEW in \in InputsOf(program), NEW w \in Models(circuit, in),
                      NEW j \in 1 .. Len(env)
               PROVE  EvalLc(env[j], w) = intended[in][j]
      BY <1>8 DEF Followed
  <2>1. w \in Assignments /\ Matches(circuit, in, w)  BY DEF Models
  <2>2. j \in 1 .. m /\ env[j] = Unit(j) /\ circuit.inputs[j] = j /\ DOMAIN in = 1 .. m
    BY <1>2, <1>6, <1>7
  <2>3. w[j] = in[j]  BY <2>1, <2>2 DEF Matches
  <2> QED  BY <1>5, <1>8, <2>1, <2>2, <2>3
<1>11. Reached(circuit, intended)
  <2> SUFFICES ASSUME NEW in \in InputsOf(program) PROVE Models(circuit, in) # {}
    BY <1>8 DEF Reached
  <2> DEFINE w == [v \in Nat |-> IF v = 0 THEN 1 ELSE IF v \in 1 .. m THEN in[v] ELSE 0]
  <2>1. in \in [1 .. m -> Field]  BY <1>7
  <2>2. w \in Assignments
    <3>1. 0 \in Field /\ 1 \in Field  BY PrimeModulus DEF Field
    <3>2. w \in [Nat -> Field]  BY <2>1, <3>1
    <3>3. w[0] = 1  OBVIOUS
    <3> QED  BY <3>2, <3>3 DEF Assignments
  <2>3. \A i \in 1 .. m : w[i] = in[i]  OBVIOUS
  <2> HIDE DEF w
  <2>4. Matches(circuit, in, w)  BY <1>2, <2>1, <2>3 DEF Matches
  <2>5. Satisfied(circuit, w)  BY <1>2 DEF Satisfied
  <2> QED  BY <2>2, <2>4, <2>5 DEF Models
<1>12. BooleansHold(program, circuit, env, pc)  BY <1>2 DEF BooleansHold
<1>13. EmitOk  BY <1>9, <1>10, <1>11, <1>12 DEF EmitOk, Emitted
<1> QED  BY <1>2, <1>13 DEF IInv

\* What an accepted definition is, if it renames a wire.
LEMMA CopyFacts ==
    ASSUME NEW m \in Nat, Circuit(circuit, m), ScanOk(circuit, scan),
           NEW k \in Constraints(circuit.next), NEW d \in Accepted(k), d.copy
    PROVE  d.w \in Nat /\ SoleWire(d.expr) \in Nat
<1>1. WellFormed(circuit, m) /\ circuit.next \in Nat  BY CircuitFacts
<1>2. d \in DefinitionIn(k)  BY DEF Accepted
<1>3. d.w \in 0 .. circuit.next - 1 /\ d.expr \in LCs(circuit.next)
  BY <1>1, <1>2, DefinitionFacts
<1>4. IsUnit(d.expr)
  <2>1. \A lin, c : \A x \in Assigned(lin, c) : x.copy = FALSE  BY DEF Assigned
  <2>2. \A e : \A x \in Pinned(e) : x.copy = FALSE  BY DEF Pinned
  <2>3. \A f, lin, c : \A x \in Copied(f, lin, c) : IsUnit(x.expr)  BY DEF Copied
  <2> HIDE DEF Assigned, Pinned, Copied
  <2> QED  BY <1>2, <2>1, <2>2, <2>3 DEF DefinitionIn
<1> QED  BY <1>1, <1>3, <1>4, IsUnitFacts

\* A scanned constraint is kept, or gives a definition.
LEMMA ScanStep ==
    ASSUME IInv, Eliminate \/ Keep
    PROVE  IInv'
<1>1. /\ phase = "scan" /\ scan.i <= Len(circuit.cs)
      /\ UNCHANGED <<program, pc, env, circuit, phase, intended>>
    BY DEF Eliminate, Keep, Substituting
<1>2. /\ Circuit(circuit, program.inputs) /\ Stated(program, circuit, intended)
      /\ ScanOk(circuit, scan) /\ CopiesOk(scan) /\ IsScan(scan)
    BY <1>1 DEF IInv
<1>3. program.inputs \in Nat /\ WellFormed(circuit, program.inputs)
      /\ circuit.cs \in Seq(Constraints(circuit.next))
  <2>1. program.inputs \in Nat  BY <1>2, ProgramFacts DEF Stated
  <2> QED  BY <1>2, <2>1, CircuitFacts
<1>4. ScanOk(circuit, scan') /\ CopiesOk(scan') /\ IsScan(scan')
  <2>1. CASE Keep
    <3>1. scan' = [scan EXCEPT !.i = @ + 1]  BY <2>1 DEF Keep
    <3>2. scan' = [i |-> scan.i + 1, sub |-> scan.sub, uses |-> scan.uses,
                   drop |-> scan.drop, copies |-> scan.copies]
        BY <1>2, <3>1 DEF IsScan
    <3>3. /\ scan'.i = scan.i + 1 /\ scan'.sub = scan.sub /\ scan'.drop = scan.drop
          /\ scan'.copies = scan.copies
        BY <3>2
    <3>4. IsScan(scan')  BY <3>2 DEF IsScan
    <3>5. CopiesOk(scan')  BY <1>2, <3>3 DEF CopiesOk
    <3>6. scan.i \in 1 .. Len(circuit.cs) + 1 /\ Len(circuit.cs) \in Nat  BY <1>2, <1>3 DEF ScanOk
    <3>7. scan.i + 1 \in 1 .. Len(circuit.cs) + 1  BY <1>1, <3>6
    <3>8. scan.drop \subseteq 1 .. scan.i + 1 - 1
      <4>1. scan.drop \subseteq 1 .. scan.i - 1  BY <1>2 DEF ScanOk
      <4> QED  BY <3>6, <4>1
    <3>9. ScanOk(circuit, scan')  BY <1>2, <3>3, <3>7, <3>8 DEF ScanOk
    <3> QED  BY <3>4, <3>5, <3>9
  <2>2. CASE Eliminate
    <3>1. PICK d \in Accepted(circuit.cs[scan.i]) :
             LET dependents == {v \in DOMAIN scan.sub : d.w \in Wires(scan.sub[v])}
                 own == Mapping(d.w, d.expr)
                 used == Wires(d.expr) \ {0}
             IN  scan' = [i |-> scan.i + 1,
                          sub |-> Over(own, [v \in DOMAIN scan.sub |->
                                                Substituted(scan.sub[v], own)]),
                          uses |-> Over(Over(Mapping(d.w, 0),
                                             [v \in used |-> UsesOf(v) + 1 + Cardinality(dependents)]),
                                        scan.uses),
                          drop |-> scan.drop \cup {scan.i},
                          copies |-> IF d.copy THEN Append(scan.copies, <<d.w, SoleWire(d.expr)>>)
                                     ELSE scan.copies]
        BY <2>2 DEF Eliminate
    <3>2. /\ scan'.i = scan.i + 1 /\ scan'.drop = scan.drop \cup {scan.i}
          /\ scan'.sub = Over(Mapping(d.w, d.expr),
                    [v \in DOMAIN scan.sub |-> Substituted(scan.sub[v], Mapping(d.w, d.expr))])
          /\ scan'.copies = IF d.copy THEN Append(scan.copies, <<d.w, SoleWire(d.expr)>>)
                            ELSE scan.copies
          /\ IsScan(scan')
        BY <3>1 DEF IsScan
    <3>3. ScanOk(circuit, scan')  BY <1>1, <1>2, <1>3, <3>2, EliminateFacts
    <3>4. CopiesOk(scan')
      <4>1. scan.copies \in Seq(Nat \X Nat)  BY <1>2 DEF CopiesOk
      <4>2. CASE ~d.copy  BY <3>2, <4>1, <4>2 DEF CopiesOk
      <4>3. CASE d.copy
        <5>1. circuit.cs[scan.i] \in Constraints(circuit.next)
          <6>1. scan.i \in 1 .. Len(circuit.cs)  BY <1>1, <1>2 DEF ScanOk
          <6> QED  BY <1>3, <6>1
        <5>2. d.w \in Nat /\ SoleWire(d.expr) \in Nat  BY <1>2, <1>3, <4>3, <5>1, CopyFacts
        <5> QED  BY <3>2, <4>1, <4>3, <5>2 DEF CopiesOk
      <4> QED  BY <4>2, <4>3
    <3> QED  BY <3>2, <3>3, <3>4
  <2> QED  BY <2>1, <2>2
<1> QED  BY <1>1, <1>2, <1>4 DEF IInv

\* What the scan found is applied.
LEMMA EndScanStep ==
    ASSUME IInv, EndScan
    PROVE  IInv'
<1>1. /\ phase = "scan" /\ phase' = "merge" /\ scan' = EmptyScan
      /\ UNCHANGED <<program, intended>>
      /\ circuit' = circuit \/ circuit' = Applied(circuit)
    BY DEF EndScan
<1>2. /\ Circuit(circuit, program.inputs) /\ Stated(program, circuit, intended)
      /\ ScanOk(circuit, scan) /\ CopiesOk(scan)
    BY <1>1 DEF IInv
<1>3. program.inputs \in Nat  BY <1>2, ProgramFacts DEF Stated
<1>4. CASE circuit' = circuit  BY <1>1, <1>2, <1>4 DEF IInv
<1>5. CASE circuit' = Applied(circuit)
  <2> DEFINE d == Applied(circuit)
  <2>1. /\ Circuit(d, program.inputs) /\ d.out = circuit.out
        /\ \A in \in [1 .. program.inputs -> Field] : Outs(d, in) = Outs(circuit, in)
      BY <1>2, <1>3, AppliedFacts
  <2>2. circuit' = d  BY <1>5
  <2> HIDE DEF d
  <2>3. Stated(program, d, intended)  BY <1>2, <2>1, StatedSame
  <2> QED  BY <1>1, <2>1, <2>2, <2>3 DEF IInv
<1> QED  BY <1>1, <1>4, <1>5

\* Identical products are merged, when no merge is the first of another.
LEMMA MergeStep ==
    ASSUME IInv, Merge, Unchained
    PROVE  IInv'
<1>1. /\ phase = "merge" /\ phase' = "merge" /\ scan' = scan /\ UNCHANGED <<program, intended>>
  BY DEF Merge
<1>2. Circuit(circuit, program.inputs) /\ Stated(program, circuit, intended) /\ scan = EmptyScan
  BY <1>1 DEF IInv
<1>3. program.inputs \in Nat  BY <1>2, ProgramFacts DEF Stated
<1> DEFINE d == circuit'
<1>4. LET sub == [w \in DOMAIN Replacements |-> Unit(Replacements[w])]
          rewritten == [i \in DOMAIN circuit.cs |-> Rewritten(circuit.cs[i], sub)]
          rec == [w \in DOMAIN circuit.rec |-> RemappedRecipe(circuit.rec[w], sub)]
      IN  \E heir \in Takeovers(rec) :
             d = [circuit EXCEPT
                     !.cs = Selected(rewritten, DOMAIN circuit.cs \ Duplicates),
                     !.rec = Over([w \in DOMAIN heir |-> rec[heir[w]]], rec)]
    BY DEF Merge
<1> HIDE DEF d
<1>5. /\ Circuit(d, program.inputs) /\ d.out = circuit.out
      /\ \A in \in [1 .. program.inputs -> Field] : Outs(d, in) = Outs(circuit, in)
    BY <1>2, <1>3, <1>4, MergedFacts
<1>6. Stated(program, d, intended)  BY <1>2, <1>5, StatedSame
<1> QED  BY <1>1, <1>2, <1>5, <1>6 DEF IInv, d

\* The end of the merges.
LEMMA EndMergeStep ==
    ASSUME IInv, EndMerge
    PROVE  IInv'
<1>1. /\ phase = "merge" /\ phase' \in {"scan", "compact"} /\ scan' = scan
      /\ UNCHANGED <<program, circuit, intended>>
    BY DEF EndMerge
<1>2. Circuit(circuit, program.inputs) /\ Stated(program, circuit, intended) /\ scan = EmptyScan
  BY <1>1 DEF IInv
<1>3. program.inputs \in Nat  BY <1>2, ProgramFacts DEF Stated
<1>4. ScanOk(circuit, scan) /\ CopiesOk(scan) /\ IsScan(scan)  BY <1>2, <1>3, EmptyScanFacts
<1> QED  BY <1>1, <1>2, <1>4 DEF IInv

\* The live wires are renumbered.
LEMMA CompactStep ==
    ASSUME IInv, Compact
    PROVE  IInv'
<1>1. /\ phase = "compact" /\ phase' = "done" /\ UNCHANGED <<program, intended>>
      /\ circuit' = circuit \/ circuit' = Compacted(circuit)
    BY DEF Compact
<1>2. Circuit(circuit, program.inputs) /\ Stated(program, circuit, intended)  BY <1>1 DEF IInv
<1>3. program.inputs \in Nat /\ WellFormed(circuit, program.inputs)
  BY <1>2, ProgramFacts, CircuitFacts DEF Stated
<1>4. CASE circuit' = circuit  BY <1>1, <1>2, <1>3, <1>4 DEF IInv
<1>5. CASE circuit' = Compacted(circuit)
  <2> DEFINE d == Compacted(circuit)
  <2>1. /\ WellFormed(d, program.inputs) /\ (d.out = NoWire <=> circuit.out = NoWire)
        /\ \A in \in [1 .. program.inputs -> Field] : Outs(d, in) = Outs(circuit, in)
      BY <1>2, <1>3, CompactedFacts
  <2>2. circuit' = d  BY <1>5
  <2> HIDE DEF d
  <2>3. Stated(program, d, intended)  BY <1>2, <2>1, StatedSame
  <2> QED  BY <1>1, <2>1, <2>2, <2>3 DEF IInv
<1> QED  BY <1>1, <1>4, <1>5

\* Every step keeps the invariant, a merge when no product it drops is another's survivor.
LEMMA NextHolds == IInv /\ [Next]_vars /\ [Merge => Unchained]_vars => IInv'
<1> SUFFICES ASSUME IInv, [Next]_vars, [Merge => Unchained]_vars PROVE IInv'  OBVIOUS
<1>1. CASE EmitStatement
  <2>1. phase = "emit" /\ EmitOk /\ scan = EmptyScan
    <3>1. phase = "emit"
      BY <1>1 DEF EmitStatement, EmitAdd, EmitSub, EmitMul, EmitEqual, EmitComparison, EmitDiv,
                  EmitMod, EmitBitwise, EmitShift, EmitLogical, EmitIf, EmitLet, EmitReturn,
                  EmitReturnIf, Emitting
    <3> QED  BY <3>1 DEF IInv
  <2>2. CASE Lowering
    <3>1. EmitOk' /\ phase' = phase /\ scan' = scan  BY <2>1, <2>2, LoweringKeeps
    <3> QED  BY <2>1, <3>1 DEF IInv
  <2>3. CASE EmitReturn \/ EmitReturnIf
    <3>1. /\ Circuit(circuit', program'.inputs) /\ Stated(program', circuit', intended')
          /\ phase' = "scan" /\ scan' = EmptyScan /\ program' = program
        BY <2>1, <2>3, ReturnStates
    <3>2. program'.inputs \in Nat  BY <3>1, ProgramFacts DEF Stated
    <3>3. ScanOk(circuit', scan') /\ CopiesOk(scan') /\ IsScan(scan')
      <4>1. \A c : Circuit(c, program'.inputs) =>
               ScanOk(c, EmptyScan) /\ CopiesOk(EmptyScan) /\ IsScan(EmptyScan)
          BY <3>2, EmptyScanFacts
      <4> QED  BY <3>1, <4>1
    <3> QED  BY <3>1, <3>3 DEF IInv
  <2> QED  BY <1>1, <2>2, <2>3 DEF EmitStatement, Lowering
<1>2. CASE Eliminate \/ Keep  BY <1>2, ScanStep
<1>3. CASE EndScan  BY <1>3, EndScanStep
<1>7. CASE UNCHANGED vars
  <2>1. /\ phase' = phase /\ circuit' = circuit /\ program' = program /\ intended' = intended
        /\ scan' = scan /\ env' = env /\ pc' = pc
      BY <1>7 DEF vars
  <2>2. EmitOk' <=> EmitOk  BY <2>1 DEF EmitOk
  <2> QED  BY <2>1, <2>2 DEF IInv
<1>4. CASE Merge
  <2>1. CASE Unchained  BY <1>4, <2>1, MergeStep
  <2>2. CASE UNCHANGED vars  BY <2>2, <1>7
  <2> QED  BY <1>4, <2>1, <2>2
<1>5. CASE EndMerge  BY <1>5, EndMergeStep
<1>6. CASE Compact  BY <1>6, CompactStep
<1> QED  BY <1>1, <1>2, <1>3, <1>4, <1>5, <1>6, <1>7 DEF Next

\* While statements are lowered the circuit has no output, and admits what is not refused.
LEMMA EmittingKept ==
    ASSUME EmitOk, NEW in \in Inputs
    PROVE  OutputsOf(circuit, in) = IF in \in DOMAIN intended THEN {0} ELSE {}
<1>1. /\ program \in Programs /\ Circuit(circuit, program.inputs) /\ circuit.out = NoWire
      /\ DOMAIN intended \subseteq InputsOf(program) /\ in \in InputsOf(program)
    BY DEF EmitOk, Emitted, Typed, Inputs, InputsOf
<1>2. program.inputs \in Nat /\ in \in [1 .. program.inputs -> Field]
      /\ WellFormed(circuit, program.inputs)
    BY <1>1, ProgramFacts, CircuitFacts
<1>3. OutputsOf(circuit, in) = {IF circuit.out = NoWire THEN 0 ELSE w[circuit.out] : w \in Models(circuit, in)}
  BY <1>2, OutputsFacts
<1>4. OutputsOf(circuit, in) = {0 : w \in Models(circuit, in)}  BY <1>1, <1>3
<1>5. CASE in \in DOMAIN intended
  <2>1. Models(circuit, in) # {}  BY <1>5 DEF EmitOk, Emitted, Reached
  <2> QED  BY <1>4, <1>5, <2>1
<1>6. CASE in \notin DOMAIN intended
  <2>1. Models(circuit, in) = {}  BY <1>1, <1>6 DEF EmitOk, Emitted, Followed
  <2> QED  BY <1>4, <1>6, <2>1
<1> QED  BY <1>5, <1>6

\* The invariant says that the statement is kept.
LEMMA KeptHolds == IInv => StatementKept
<1> SUFFICES ASSUME IInv, NEW in \in Inputs
             PROVE  OutputsOf(circuit, in) =
                       IF in \notin DOMAIN intended THEN {}
                       ELSE IF circuit.out = NoWire THEN {0} ELSE {intended[in][Len(intended[in])]}
    BY DEF StatementKept
<1>1. CASE phase = "emit"
  <2>1. EmitOk  BY <1>1 DEF IInv
  <2>2. circuit.out = NoWire  BY <2>1 DEF EmitOk, Emitted, Typed
  <2> QED  BY <2>1, <2>2, EmittingKept
<1>2. CASE phase # "emit"
  <2>1. Stated(program, circuit, intended) /\ WellFormed(circuit, program.inputs)
    <3>1. CASE phase = "done"  BY <3>1 DEF IInv
    <3>2. CASE phase \in {"scan", "merge", "compact"}
      <4>1. Stated(program, circuit, intended) /\ Circuit(circuit, program.inputs)
        BY <3>2 DEF IInv
      <4> QED  BY <4>1 DEF Circuit
    <3> QED  BY <1>2, <3>1, <3>2 DEF IInv
  <2>2. in \in InputsOf(program) /\ program \in Programs /\ circuit.out # NoWire
    BY <2>1 DEF Inputs, InputsOf, Stated
  <2>3. program.inputs \in Nat /\ in \in [1 .. program.inputs -> Field]  BY <2>2, ProgramFacts
  <2>4. OutputsOf(circuit, in) = Outs(circuit, in)  BY <2>1, <2>3, OutputsFacts DEF Outs
  <2>5. Outs(circuit, in) = IF in \in DOMAIN intended THEN {intended[in][Len(intended[in])]} ELSE {}
    BY <2>1, <2>2 DEF Stated
  <2> QED  BY <2>2, <2>4, <2>5
<1> QED  BY <1>1, <1>2

\* StatementKept: once the program is lowered, and after every pass of optimize_circuit, the
\* circuit admits the output that the program computes, and no other, on every input.  Of the
\* merges it is assumed that none drops a constraint that defines another's survivor.
THEOREM KeepsStatement == Spec /\ [][Merge => Unchained]_vars => []StatementKept
<1>1. Init => IInv  BY InitHolds
<1>2. IInv /\ [Next]_vars /\ [Merge => Unchained]_vars => IInv'  BY NextHolds
<1>3. IInv => StatementKept  BY KeptHolds
<1> QED  BY <1>1, <1>2, <1>3, PTL DEF Spec

\* Without the merge of identical products (the option cse) nothing is assumed of the steps:
\* lowering, linear substitution and compaction keep StatementKept by themselves.
THEOREM KeepsStatementUnmerged ==
    ASSUME \A p \in Programs : ~p.cse
    PROVE  Spec => []StatementKept
<1>1. Init => IInv  BY InitHolds
<1>2. IInv /\ [Next]_vars => IInv'
  <2> SUFFICES ASSUME IInv, [Next]_vars PROVE IInv'  OBVIOUS
  <2>1. ~Merge
    <3> SUFFICES ASSUME Merge PROVE FALSE  OBVIOUS
    <3>1. phase = "merge" /\ program.cse  BY DEF Merge
    <3>2. program \in Programs  BY <3>1 DEF IInv, Stated
    <3> QED  BY <3>1, <3>2
  <2>2. [Merge => Unchained]_vars  BY <2>1
  <2> QED  BY <2>2, NextHolds
<1>3. IInv => StatementKept  BY KeptHolds
<1> QED  BY <1>1, <1>2, <1>3, PTL DEF Spec
=============================================================================
