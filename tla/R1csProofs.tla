----------------------------- MODULE R1csProofs -----------------------------
(***************************************************************************)
(* Facts about R1cs, for every prime modulus: the field, the values of     *)
(* linear combinations and what substitution does to them, the solutions   *)
(* of a circuit and the bits of a number.  They are what the proofs about  *)
(* ZkCompiler need.                                                        *)
(***************************************************************************)
EXTENDS R1cs, FiniteSetTheorems, WellFoundedInduction, TLAPS

-----------------------------------------------------------------------------
(***************************************************************************)
(* Induction.  The theorems of the library take the property as an         *)
(* operator; here it is a set, so that they can be used.                   *)
(***************************************************************************)

\* Induction, from a least element of the numbers left out.
LEMMA SetInduction ==
    ASSUME NEW S, S \subseteq Nat, 0 \in S, \A n \in S : n + 1 \in S
    PROVE  S = Nat
<1> DEFINE R == OpToRel(<, Nat)
           T == Nat \ S
<1>1. SUFFICES ASSUME T # {} PROVE FALSE  OBVIOUS
<1>2. IsWellFoundedOn(R, Nat)  BY NatLessThanWellFounded
<1>3. PICK x \in T : \A y \in T : <<y, x>> \notin R
  <2>1. T \subseteq Nat  OBVIOUS
  <2> HIDE DEF R, T
  <2> QED BY <1>1, <1>2, <2>1, WFMin
<1>4. x # 0 /\ x - 1 \in Nat /\ x - 1 < x  OBVIOUS
<1>5. x - 1 \in S
  <2>1. <<x - 1, x>> \in R  BY <1>4 DEF OpToRel
  <2> QED BY <1>3, <1>4, <2>1
<1>6. (x - 1) + 1 = x  BY <1>4
<1> QED BY <1>5, <1>6

\* A nonempty set of numbers has a least element.
LEMMA LeastOf ==
    ASSUME NEW T, T \subseteq Nat, T # {}
    PROVE  Min(T) \in T /\ \A x \in T : Min(T) <= x
<1> DEFINE R == OpToRel(<, Nat)
<1>1. PICK x \in T : \A y \in T : <<y, x>> \notin R
  <2>1. IsWellFoundedOn(R, Nat)  BY NatLessThanWellFounded
  <2> HIDE DEF R
  <2> QED BY <2>1, WFMin
<1>2. \A y \in T : x <= y
  <2> SUFFICES ASSUME NEW y \in T, ~(x <= y) PROVE FALSE  OBVIOUS
  <2>1. y < x /\ x \in Nat /\ y \in Nat  OBVIOUS
  <2>2. <<y, x>> \in R  BY <2>1 DEF OpToRel
  <2> QED BY <1>1, <2>2
<1> QED BY <1>2 DEF Min

\* Induction over the subsets of a finite set.
LEMMA FiniteInduction ==
    ASSUME NEW S, IsFiniteSet(S), NEW U, {} \in U,
           \A T \in SUBSET S : \A x \in S \ T : T \in U => T \cup {x} \in U
    PROVE  S \in U
<1> DEFINE N == {n \in Nat : \A T \in SUBSET S : Cardinality(T) = n => T \in U}
<1>1. 0 \in N
  <2> SUFFICES ASSUME NEW T \in SUBSET S, Cardinality(T) = 0 PROVE T \in U  OBVIOUS
  <2>1. T = {}  BY FS_EmptySet, FS_Subset
  <2> QED BY <2>1
<1>2. ASSUME NEW n \in N PROVE n + 1 \in N
  <2> SUFFICES ASSUME NEW T \in SUBSET S, Cardinality(T) = n + 1 PROVE T \in U  OBVIOUS
  <2>1. IsFiniteSet(T) /\ n \in Nat  BY FS_Subset
  <2>2. T # {}  BY <2>1, FS_EmptySet
  <2>3. PICK x \in T : TRUE  BY <2>2
  <2>4. IsFiniteSet(T \ {x}) /\ Cardinality(T \ {x}) = n
    <3>1. IsFiniteSet(T \ {x}) /\ Cardinality(T \ {x}) = Cardinality(T) - 1
      BY <2>1, <2>3, FS_RemoveElement
    <3> QED BY <2>1, <3>1
  <2>5. T \ {x} \in U /\ T \ {x} \in SUBSET S  BY <2>4
  <2>6. T = (T \ {x}) \cup {x} /\ x \in S \ (T \ {x})  BY <2>3
  <2> QED BY <2>5, <2>6
<1>3. N = Nat
  <2>1. N \subseteq Nat  OBVIOUS
  <2> HIDE DEF N
  <2> QED BY <1>1, <1>2, <2>1, SetInduction
<1>4. Cardinality(S) \in Nat /\ S \in SUBSET S  BY FS_CardinalityType
<1> QED BY <1>3, <1>4

\* f starts at b, and G computes each value from its index and the value before.
Iterates(f, b, G) == f[0] = b /\ \A i \in Nat : f[i + 1] = G[i + 1][f[i]]

\* What a step that depends on the index and on the value before computes, from b on.
LEMMA Recursion ==
    ASSUME NEW X, NEW b \in X, NEW G \in [Nat -> [X -> X]]
    PROVE  \E f \in [Nat -> X] : Iterates(f, b, G)
<1> DEFINE Upto(m, g) == \A i \in 0 .. m : g[i] = IF i = 0 THEN b ELSE G[i][g[i - 1]]
           S == {m \in Nat : \E g \in [0 .. m -> X] : Upto(m, g)}
<1>1. 0 \in S
  <2>1. [i \in 0 .. 0 |-> b] \in [0 .. 0 -> X] /\ Upto(0, [i \in 0 .. 0 |-> b])  OBVIOUS
  <2> QED BY <2>1
<1>2. ASSUME NEW m \in S PROVE m + 1 \in S
  <2>1. PICK g \in [0 .. m -> X] : Upto(m, g)  OBVIOUS
  <2> DEFINE h == [i \in 0 .. m + 1 |-> IF i <= m THEN g[i] ELSE G[m + 1][g[m]]]
  <2>2. h \in [0 .. m + 1 -> X]
    <3>1. \A i \in 0 .. m + 1 : i <= m => i \in 0 .. m  OBVIOUS
    <3>2. g[m] \in X  OBVIOUS
    <3>3. G[m + 1][g[m]] \in X  BY <3>2
    <3> QED BY <3>1, <3>3
  <2>3. Upto(m + 1, h)
    <3> SUFFICES ASSUME NEW i \in 0 .. m + 1 PROVE h[i] = IF i = 0 THEN b ELSE G[i][h[i - 1]]
      OBVIOUS
    <3>1. CASE i <= m
      <4>1. i \in 0 .. m  BY <3>1
      <4>2. h[i] = g[i] /\ (i # 0 => h[i - 1] = g[i - 1])  BY <3>1
      <4>3. g[i] = IF i = 0 THEN b ELSE G[i][g[i - 1]]  BY <2>1, <4>1
      <4> HIDE DEF h
      <4> QED BY <4>2, <4>3
    <3>2. CASE i = m + 1
      <4>1. h[i] = G[i][g[m]] /\ i # 0 /\ i - 1 = m  BY <3>2
      <4>2. m \in 0 .. m + 1 /\ m <= m  OBVIOUS
      <4>3. h[m] = g[m]  BY <4>2
      <4> HIDE DEF h
      <4> QED BY <4>1, <4>3
    <3> QED BY <3>1, <3>2
  <2>4. \E f \in [0 .. m + 1 -> X] : Upto(m + 1, f)
    <3> HIDE DEF h, Upto
    <3> QED BY <2>2, <2>3
  <2> HIDE DEF Upto
  <2> QED BY <2>4
<1>3. S = Nat
  <2>1. S \subseteq Nat  OBVIOUS
  <2> HIDE DEF S
  <2> QED BY <1>1, <1>2, <2>1, SetInduction
<1> DEFINE Part(m) == CHOOSE g \in [0 .. m -> X] : Upto(m, g)
<1>4. ASSUME NEW m \in Nat PROVE Part(m) \in [0 .. m -> X] /\ Upto(m, Part(m))
  <2>1. \E g \in [0 .. m -> X] : Upto(m, g)  BY <1>3
  <2> HIDE DEF Upto
  <2> QED BY <2>1
<1>5. ASSUME NEW m \in Nat PROVE Part(m + 1)[m] = Part(m)[m]
  <2> DEFINE A == {i \in Nat : i <= m => Part(m)[i] = Part(m + 1)[i]}
  <2> HIDE DEF Part
  <2>0. m + 1 \in Nat  OBVIOUS
  <2>1. 0 \in A  BY <1>4, <2>0
  <2>2. ASSUME NEW i \in A PROVE i + 1 \in A
    <3> SUFFICES ASSUME i + 1 <= m PROVE Part(m)[i + 1] = Part(m + 1)[i + 1]  OBVIOUS
    <3>1. Part(m)[i] = Part(m + 1)[i]  OBVIOUS
    <3>2. i + 1 \in 0 .. m /\ i + 1 \in 0 .. m + 1 /\ i + 1 # 0 /\ (i + 1) - 1 = i  OBVIOUS
    <3>3. Part(m)[i + 1] = G[i + 1][Part(m)[(i + 1) - 1]]  BY <1>4, <3>2
    <3>4. Part(m + 1)[i + 1] = G[i + 1][Part(m + 1)[(i + 1) - 1]]  BY <1>4, <3>2, <2>0
    <3> QED BY <3>1, <3>2, <3>3, <3>4
  <2>3. A = Nat
    <3>1. A \subseteq Nat  OBVIOUS
    <3> HIDE DEF A
    <3> QED BY <2>1, <2>2, <3>1, SetInduction
  <2>4. m \in A  BY <2>3
  <2> QED BY <2>4
<1> DEFINE F == [n \in Nat |-> Part(n)[n]]
<1> HIDE DEF Part
<1>6. F \in [Nat -> X]
  <2> SUFFICES ASSUME NEW n \in Nat PROVE Part(n)[n] \in X  OBVIOUS
  <2>1. n \in 0 .. n  OBVIOUS
  <2> QED BY <1>4, <2>1
<1>7. F[0] = b
  <2>1. 0 \in 0 .. 0  OBVIOUS
  <2> QED BY <1>4, <2>1
<1>8. ASSUME NEW n \in Nat PROVE F[n + 1] = G[n + 1][F[n]]
  <2>1. n + 1 \in Nat /\ n + 1 \in 0 .. n + 1 /\ n + 1 # 0 /\ (n + 1) - 1 = n  OBVIOUS
  <2>2. Part(n + 1)[n + 1] = G[n + 1][Part(n + 1)[(n + 1) - 1]]  BY <1>4, <2>1
  <2>3. F[n + 1] = G[n + 1][Part(n)[n]]  BY <1>5, <2>1, <2>2
  <2> QED BY <2>3
<1> HIDE DEF F
<1>9. Iterates(F, b, G)  BY <1>7, <1>8 DEF Iterates
<1> QED BY <1>6, <1>9

\* The powers of two, as the recursive definition computes them.
LEMMA Pow2Def ==
    /\ Pow2[0] = 1
    /\ \A n \in Nat : Pow2[n] \in Nat \ {0} /\ Pow2[n + 1] = 2 * Pow2[n]
<1> DEFINE X == Nat \ {0}
           G == [i \in Nat |-> [x \in X |-> 2 * x]]
           Solves(f) == f = [n \in Nat |-> IF n = 0 THEN 1 ELSE 2 * f[n - 1]]
<1>1. PICK f \in [Nat -> X] : Iterates(f, 1, G)
  <2>1. G \in [Nat -> [X -> X]]  OBVIOUS
  <2>2. 1 \in X  OBVIOUS
  <2> HIDE DEF X, G
  <2> QED BY <2>1, <2>2, Recursion
<1>2. Solves(f)
  <2> SUFFICES ASSUME NEW n \in Nat PROVE f[n] = IF n = 0 THEN 1 ELSE 2 * f[n - 1]  OBVIOUS
  <2>1. CASE n # 0
    <3>1. n - 1 \in Nat /\ (n - 1) + 1 = n  BY <2>1
    <3>2. f[n] = G[n][f[n - 1]] /\ f[n - 1] \in X  BY <1>1, <3>1 DEF Iterates
    <3> QED BY <2>1, <3>2
  <2> QED BY <1>1, <2>1 DEF Iterates
<1>3. Solves(Pow2)
  <2>1. Pow2 = CHOOSE g : Solves(g)  BY DEF Pow2
  <2> HIDE DEF Solves
  <2> QED BY <1>2, <2>1
<1>4. \A n \in Nat : Pow2[n] = IF n = 0 THEN 1 ELSE 2 * Pow2[n - 1]
  <2> DEFINE p == Pow2
  <2>1. p = [n \in Nat |-> IF n = 0 THEN 1 ELSE 2 * p[n - 1]]  BY <1>3
  <2> HIDE DEF p
  <2>2. \A n \in Nat : p[n] = IF n = 0 THEN 1 ELSE 2 * p[n - 1]  BY <2>1
  <2> USE DEF p
  <2> QED BY <2>2
<1>5. \A n \in Nat : Pow2[n + 1] = 2 * Pow2[n]
  <2> SUFFICES ASSUME NEW n \in Nat PROVE Pow2[n + 1] = 2 * Pow2[n]  OBVIOUS
  <2>1. n + 1 \in Nat /\ n + 1 # 0 /\ (n + 1) - 1 = n  OBVIOUS
  <2> QED BY <1>4, <2>1
<1> DEFINE B == {n \in Nat : Pow2[n] \in Nat \ {0}}
<1>6. B = Nat
  <2>1. B \subseteq Nat /\ 0 \in B  BY <1>4
  <2>2. \A n \in B : n + 1 \in B  BY <1>5
  <2> HIDE DEF B
  <2> QED BY <2>1, <2>2, SetInduction
<1>7. \A n \in Nat : Pow2[n] \in Nat \ {0}  BY <1>6
<1>8. Pow2[0] = 1  BY <1>4
<1> QED BY <1>5, <1>7, <1>8

-----------------------------------------------------------------------------
(***************************************************************************)
(* Sums over a finite set: what SumFunction, an iteration in an arbitrary  *)
(* order, computes.                                                        *)
(***************************************************************************)

(* Sums over finite sets *)

\* it sums f over the subsets of S, taking out the elements in some order.
Adds(it, f, S) ==
    /\ it \in [SUBSET S -> Int]
    /\ it[{}] = 0
    /\ \A s \in SUBSET S : s # {} => \E x \in s : it[s] = f[x] + it[s \ {x}]

\* SumFunction adds its values one at a time.
LEMMA SumAdds ==
    ASSUME NEW S, IsFiniteSet(S), NEW f \in [S -> Int]
    PROVE  \E it : Adds(it, f, S) /\ SumFunction(f) = it[S]
<1> DEFINE ch(s) == CHOOSE x \in s : TRUE
           Y == [SUBSET S -> Int]
           z == [s \in SUBSET S |-> 0]
           step(h) == [s \in SUBSET S |-> IF s = {} THEN 0 ELSE f[ch(s)] + h[s \ {ch(s)}]]
           G == [i \in Nat |-> [h \in Y |-> step(h)]]
           Solves(it) == it = [s \in SUBSET S |->
                                 IF s = {} THEN 0 ELSE f[ch(s)] + it[s \ {ch(s)}]]
<1>1. \A s \in SUBSET S : s # {} => ch(s) \in s /\ f[ch(s)] \in Int /\ s \ {ch(s)} \in SUBSET S
  OBVIOUS
<1>2. PICK F \in [Nat -> Y] : Iterates(F, z, G)
  <2>1. ASSUME NEW h \in Y PROVE step(h) \in Y
    <3> HIDE DEF ch
    <3> QED BY <1>1, <2>1
  <2>2. G \in [Nat -> [Y -> Y]]
    <3> HIDE DEF Y, step
    <3> QED BY <2>1
  <2>3. z \in Y  OBVIOUS
  <2> HIDE DEF Y, G, z
  <2> QED BY <2>2, <2>3, Recursion
<1>3. \A i \in Nat : F[i] \in Y /\ F[i + 1] = step(F[i])
  <2> SUFFICES ASSUME NEW i \in Nat PROVE F[i] \in Y /\ F[i + 1] = step(F[i])  OBVIOUS
  <2>1. F[i] \in Y /\ F[i + 1] = G[i + 1][F[i]]
    <3> HIDE DEF Y, G
    <3> QED BY <1>2 DEF Iterates
  <2>2. i + 1 \in Nat  OBVIOUS
  <2> HIDE DEF Y, step
  <2> QED BY <2>1, <2>2
<1> DEFINE it == [s \in SUBSET S |-> F[Cardinality(s)][s]]
<1>4. \A s \in SUBSET S : Cardinality(s) \in Nat  BY FS_Subset, FS_CardinalityType
<1>5. it \in Y
  <2> SUFFICES ASSUME NEW s \in SUBSET S PROVE F[Cardinality(s)][s] \in Int  OBVIOUS
  <2>1. F[Cardinality(s)] \in [SUBSET S -> Int]  BY <1>3, <1>4
  <2> QED BY <2>1
<1>6. Solves(it)
  <2> SUFFICES ASSUME NEW s \in SUBSET S
               PROVE  it[s] = IF s = {} THEN 0 ELSE f[ch(s)] + it[s \ {ch(s)}]
    BY Zenon
  <2>1. CASE s = {}
    <3>1. Cardinality(s) = 0  BY <2>1, FS_EmptySet
    <3>2. F[0][s] = 0  BY <1>2 DEF Iterates
    <3> QED BY <2>1, <3>1, <3>2
  <2>2. CASE s # {}
    <3> DEFINE n == Cardinality(s) - 1
               r == s \ {ch(s)}
    <3>1. n \in Nat /\ Cardinality(r) = n /\ Cardinality(s) = n + 1
      <4>1. IsFiniteSet(s) /\ ch(s) \in s  BY <1>1, <2>2, FS_Subset
      <4>2. Cardinality(r) = Cardinality(s) - 1 /\ IsFiniteSet(r)
        <5> HIDE DEF ch
        <5> QED BY <4>1, FS_RemoveElement
      <4>3. Cardinality(r) \in Nat /\ Cardinality(s) \in Nat  BY <4>1, <4>2, FS_CardinalityType
      <4> HIDE DEF r
      <4> QED BY <4>2, <4>3
    <3>2. F[n + 1][s] = f[ch(s)] + F[n][s \ {ch(s)}]
      <4> HIDE DEF n, ch
      <4>1. F[n + 1] = [t \in SUBSET S |-> IF t = {} THEN 0 ELSE f[ch(t)] + F[n][t \ {ch(t)}]]
        BY <1>3, <3>1
      <4> QED BY <4>1, <2>2
    <3>3. it[r] = F[n][r] /\ it[s] = F[n + 1][s]
      <4>1. r \in SUBSET S  OBVIOUS
      <4> HIDE DEF r, n
      <4> QED BY <3>1, <4>1
    <3> HIDE DEF it, ch, n
    <3> QED BY <2>2, <3>2, <3>3
  <2> QED BY <2>1, <2>2
<1> DEFINE best == CHOOSE g : Solves(g)
<1> HIDE DEF it
<1>7. Solves(best)
  <2> HIDE DEF Solves
  <2> QED BY <1>6
<1>8. SumFunction(f) = best[S]
  <2>1. DOMAIN f = S  OBVIOUS
  <2> QED BY <2>1, Zenon DEF SumFunction, SumFunctionOnSet, FoldFunctionOnSet, MapThenFoldSet
<1> HIDE DEF best
<1>9. \A s \in SUBSET S : best[s] = IF s = {} THEN 0 ELSE f[ch(s)] + best[s \ {ch(s)}]
  <2> HIDE DEF ch
  <2> QED BY <1>7
<1>10. best \in Y
  <2> DEFINE B == {n \in Nat : \A s \in SUBSET S : Cardinality(s) = n => best[s] \in Int}
  <2>1. 0 \in B
    <3>1. \A s \in SUBSET S : Cardinality(s) = 0 => s = {}  BY FS_EmptySet, FS_Subset
    <3>2. best[{}] = 0  BY <1>9
    <3>3. ASSUME NEW s \in SUBSET S, Cardinality(s) = 0 PROVE best[s] \in Int
      <4>1. s = {}  BY <3>1, <3>3
      <4> QED BY <3>2, <4>1
    <3> QED BY <3>3
  <2>2. ASSUME NEW n \in B PROVE n + 1 \in B
    <3> SUFFICES ASSUME NEW s \in SUBSET S, Cardinality(s) = n + 1 PROVE best[s] \in Int  OBVIOUS
    <3>1. IsFiniteSet(s) /\ s # {} /\ n \in Nat  BY FS_Subset, FS_EmptySet
    <3>2. ch(s) \in s /\ f[ch(s)] \in Int /\ s \ {ch(s)} \in SUBSET S  BY <1>1, <3>1
    <3> HIDE DEF ch
    <3>3. Cardinality(s \ {ch(s)}) = n
      <4>1. Cardinality(s \ {ch(s)}) = Cardinality(s) - 1  BY <3>1, <3>2, FS_RemoveElement
      <4> QED BY <4>1, <3>1
    <3>4. best[s \ {ch(s)}] \in Int  BY <3>2, <3>3
    <3>5. best[s] = f[ch(s)] + best[s \ {ch(s)}]  BY <1>9, <3>1
    <3> QED BY <3>2, <3>4, <3>5
  <2>3. B = Nat
    <3>1. B \subseteq Nat  OBVIOUS
    <3> HIDE DEF B
    <3> QED BY <2>1, <2>2, <3>1, SetInduction
  <2>4. \A s \in SUBSET S : best[s] \in Int  BY <1>4, <2>3
  <2>5. DOMAIN best = SUBSET S /\ best = [s \in SUBSET S |-> best[s]]
    <3> DEFINE body(s) == IF s = {} THEN 0 ELSE f[ch(s)] + best[s \ {ch(s)}]
    <3>1. best = [s \in SUBSET S |-> body(s)]  BY <1>7
    <3> HIDE DEF body
    <3> QED BY <3>1
  <2> QED BY <2>4, <2>5
<1>11. Adds(best, f, S)
  <2>1. best[{}] = 0  BY <1>9
  <2>2. ASSUME NEW s \in SUBSET S, s # {} PROVE \E x \in s : best[s] = f[x] + best[s \ {x}]
    <3>1. ch(s) \in s /\ best[s] = f[ch(s)] + best[s \ {ch(s)}]  BY <1>1, <1>9, <2>2
    <3> HIDE DEF ch
    <3> QED BY <3>1
  <2> QED BY <1>10, <2>1, <2>2 DEF Adds
<1> QED BY <1>8, <1>11

\* An iteration may take out the elements in any order.
LEMMA AddsAny ==
    ASSUME NEW S, IsFiniteSet(S), NEW f \in [S -> Int], NEW it, Adds(it, f, S),
           NEW T \in SUBSET S, NEW x \in S \ T
    PROVE  it[T \cup {x}] = f[x] + it[T]
<1> DEFINE A == {n \in Nat : \A R \in SUBSET S : \A v \in S \ R :
                    Cardinality(R) = n => it[R \cup {v}] = f[v] + it[R]}
<1>1. 0 \in A
  <2> SUFFICES ASSUME NEW R \in SUBSET S, NEW v \in S \ R, Cardinality(R) = 0
               PROVE  it[R \cup {v}] = f[v] + it[R]
    OBVIOUS
  <2>1. R = {}  BY FS_EmptySet, FS_Subset
  <2>2. PICK y \in {v} : it[{v}] = f[y] + it[{v} \ {y}]  BY DEF Adds
  <2>3. y = v /\ {v} \ {y} = {} /\ R \cup {v} = {v}  BY <2>1
  <2> QED BY <2>1, <2>2, <2>3
<1>2. ASSUME NEW n \in A PROVE n + 1 \in A
  <2> SUFFICES ASSUME NEW R \in SUBSET S, NEW v \in S \ R, Cardinality(R) = n + 1
               PROVE  it[R \cup {v}] = f[v] + it[R]
    OBVIOUS
  <2>0. n \in Nat /\ \A Q \in SUBSET S : \A u \in S \ Q :
                    Cardinality(Q) = n => it[Q \cup {u}] = f[u] + it[Q]
    OBVIOUS
  <2>1. PICK y \in R \cup {v} : it[R \cup {v}] = f[y] + it[(R \cup {v}) \ {y}]
    <3>1. R \cup {v} \in SUBSET S /\ R \cup {v} # {}  OBVIOUS
    <3> QED BY <3>1 DEF Adds
  <2>2. CASE y = v
    <3>1. (R \cup {v}) \ {y} = R  BY <2>2
    <3> QED BY <2>1, <2>2, <3>1
  <2>3. CASE y # v
    <3> DEFINE Q == R \ {y}
    <3>1. y \in R /\ (R \cup {v}) \ {y} = Q \cup {v} /\ R = Q \cup {y} /\ Q \in SUBSET S
          /\ v \in S \ Q /\ y \in S \ Q
      BY <2>3
    <3>2. Cardinality(Q) = n
      <4>1. IsFiniteSet(R) /\ Cardinality(R) \in Nat  BY FS_Subset, FS_CardinalityType
      <4>2. Cardinality(R \ {y}) = Cardinality(R) - 1  BY <3>1, <4>1, FS_RemoveElement
      <4> QED BY <2>0, <4>1, <4>2
    <3> HIDE DEF Q
    <3>3. it[Q \cup {v}] = f[v] + it[Q] /\ it[Q \cup {y}] = f[y] + it[Q]  BY <2>0, <3>1, <3>2
    <3>4. it[Q] \in Int /\ f[v] \in Int /\ f[y] \in Int  BY <3>1 DEF Adds
    <3>5. it[R \cup {v}] = f[y] + (f[v] + it[Q])  BY <2>1, <3>1, <3>3
    <3>6. it[R] = f[y] + it[Q]  BY <3>1, <3>3
    <3> QED BY <3>4, <3>5, <3>6
  <2> QED BY <2>2, <2>3
<1>3. A = Nat
  <2>1. A \subseteq Nat  OBVIOUS
  <2> HIDE DEF A
  <2> QED BY <1>1, <1>2, <2>1, SetInduction
<1>4. Cardinality(T) \in Nat  BY FS_Subset, FS_CardinalityType
<1>5. Cardinality(T) \in A  BY <1>3, <1>4
<1> QED BY <1>5

\* Iterations over sets on which two functions agree give the same sums.
LEMMA AddsAgree ==
    ASSUME NEW R, IsFiniteSet(R), NEW S \in SUBSET R,
           NEW f \in [R -> Int], NEW g \in [S -> Int], \A y \in S : g[y] = f[y],
           NEW q, Adds(q, f, R), NEW p, Adds(p, g, S)
    PROVE  q[S] = p[S]
<1> DEFINE U == {T \in SUBSET S : q[T] = p[T]}
<1>1. {} \in U  BY DEF Adds
<1>2. ASSUME NEW T \in SUBSET S, NEW y \in S \ T, T \in U PROVE T \cup {y} \in U
  <2>1. q[T \cup {y}] = f[y] + q[T]
    <3>1. T \in SUBSET R /\ y \in R \ T  OBVIOUS
    <3> HIDE DEF U
    <3> QED BY <3>1, AddsAny
  <2>2. p[T \cup {y}] = g[y] + p[T]
    <3>1. IsFiniteSet(S)  BY FS_Subset
    <3> HIDE DEF U
    <3> QED BY <3>1, AddsAny
  <2>3. f[y] = g[y] /\ q[T] = p[T]  BY <1>2
  <2>4. q[T \cup {y}] = p[T \cup {y}]  BY <2>1, <2>2, <2>3
  <2> QED BY <2>4
<1>3. S \in U
  <2>1. IsFiniteSet(S)  BY FS_Subset
  <2> HIDE DEF U
  <2> QED BY <1>1, <1>2, <2>1, FiniteInduction
<1> QED BY <1>3

\* The sum of h over S.
Total(S, h) == SumFunction([x \in S |-> h[x]])

\* A total is a sum, one element at a time.
LEMMA TotalStep ==
    ASSUME NEW D, NEW h \in [D -> Int], NEW S \in SUBSET D, IsFiniteSet(S)
    PROVE  /\ Total({}, h) = 0
           /\ Total(S, h) \in Int
           /\ \A x \in D \ S : Total(S \cup {x}, h) = h[x] + Total(S, h)
<1>1. ASSUME NEW R \in SUBSET D, IsFiniteSet(R)
      PROVE  \E it : Adds(it, h, R) /\ Total(R, h) = it[R]
  <2> DEFINE f == [x \in R |-> h[x]]
  <2>1. f \in [R -> Int]  OBVIOUS
  <2>2. PICK it : Adds(it, f, R) /\ SumFunction(f) = it[R]
    <3> HIDE DEF f
    <3> QED BY <2>1, <1>1, SumAdds
  <2>3. Adds(it, h, R)
    <3>1. ASSUME NEW s \in SUBSET R, s # {} PROVE \E x \in s : it[s] = h[x] + it[s \ {x}]
      <4>1. PICK x \in s : it[s] = f[x] + it[s \ {x}]
        <5> HIDE DEF f
        <5> QED BY <2>2, <3>1 DEF Adds
      <4>2. f[x] = h[x]  OBVIOUS
      <4> HIDE DEF f
      <4> QED BY <4>1, <4>2
    <3> QED BY <2>2, <3>1 DEF Adds
  <2> QED BY <2>2, <2>3 DEF Total
<1>2. Total({}, h) = 0
  <2>1. PICK it : Adds(it, h, {}) /\ Total({}, h) = it[{}]  BY <1>1, FS_EmptySet
  <2> QED BY <2>1 DEF Adds
<1>3. PICK p : Adds(p, h, S) /\ Total(S, h) = p[S]  BY <1>1
<1>4. Total(S, h) \in Int  BY <1>3 DEF Adds
<1>5. ASSUME NEW x \in D \ S PROVE Total(S \cup {x}, h) = h[x] + Total(S, h)
  <2> DEFINE R == S \cup {x}
  <2>1. R \in SUBSET D /\ IsFiniteSet(R) /\ S \in SUBSET R /\ x \in R \ S  BY FS_AddElement
  <2>2. PICK q : Adds(q, h, R) /\ Total(R, h) = q[R]
    <3> HIDE DEF R
    <3> QED BY <1>1, <2>1
  <2> DEFINE f == [y \in R |-> h[y]]
             g == [y \in S |-> h[y]]
  <2>3. f \in [R -> Int] /\ g \in [S -> Int] /\ \A y \in R : f[y] = h[y]  BY <2>1
  <2>3a. \A y \in S : g[y] = h[y]  OBVIOUS
  <2>4. Adds(q, f, R) /\ Adds(p, g, S)
    <3> HIDE DEF f, g, R
    <3>1. Adds(q, f, R)
      <4>1. ASSUME NEW s \in SUBSET R, s # {} PROVE \E y \in s : q[s] = f[y] + q[s \ {y}]
        <5>1. PICK y \in s : q[s] = h[y] + q[s \ {y}]  BY <2>2, <4>1 DEF Adds
        <5> QED BY <5>1, <2>3
      <4> QED BY <2>2, <4>1 DEF Adds
    <3>2. Adds(p, g, S)
      <4>1. ASSUME NEW s \in SUBSET S, s # {} PROVE \E y \in s : p[s] = g[y] + p[s \ {y}]
        <5>1. PICK y \in s : p[s] = h[y] + p[s \ {y}]  BY <1>3, <4>1 DEF Adds
        <5> QED BY <5>1, <2>3a
      <4> QED BY <1>3, <4>1 DEF Adds
    <3> QED BY <3>1, <3>2
  <2> HIDE DEF f, g
  <2>5. q[S \cup {x}] = f[x] + q[S]
    <3> HIDE DEF R
    <3> QED BY <2>1, <2>3, <2>4, AddsAny
  <2>6. q[S] = p[S]
    <3> HIDE DEF R
    <3> QED BY <2>1, <2>3, <2>3a, <2>4, AddsAgree
  <2> HIDE DEF R
  <2>7. x \in R  BY <2>1
  <2> QED BY <1>3, <2>2, <2>3, <2>5, <2>6, <2>7 DEF R
<1> QED BY <1>2, <1>4, <1>5

-----------------------------------------------------------------------------
(***************************************************************************)
(* Integers modulo P.                                                      *)
(***************************************************************************)

(* Arithmetic modulo P *)

\* Dividing by a positive number leaves a remainder below it.
LEMMA Division ==
    ASSUME NEW n \in Int, NEW k \in Nat \ {0}
    PROVE  /\ n \div k \in Int /\ n % k \in 0 .. k - 1
           /\ n = k * (n \div k) + (n % k)
BY Z3

\* The only multiple of k between -k and k is 0.
LEMMA NoMultiple ==
    ASSUME NEW k \in Nat \ {0}, NEW d \in Int, k * d < k, 0 - k < k * d
    PROVE  d = 0
<1>1. CASE d >= 1  BY <1>1, Z3
<1>2. CASE d <= 0 - 1  BY <1>2, Z3
<1> QED BY <1>1, <1>2

\* Quotient and remainder are determined.
LEMMA DivisionUnique ==
    ASSUME NEW n \in Int, NEW k \in Nat \ {0}, NEW q \in Int, NEW r \in 0 .. k - 1,
           n = k * q + r
    PROVE  n \div k = q /\ n % k = r
<1> DEFINE a == n \div k  b == n % k
<1>1. a \in Int /\ b \in 0 .. k - 1 /\ n = k * a + b  BY Division
<1> HIDE DEF a, b
<1>2. k * (a - q) = r - b
  <2>1. k * a \in Int /\ k * q \in Int /\ k * (a - q) = k * a - k * q  BY <1>1, Z3
  <2> QED BY <1>1, <2>1
<1>3. a - q = 0  BY <1>1, <1>2, NoMultiple
<1>4. a = q  BY <1>1, <1>3
<1> QED BY <1>1, <1>4 DEF a, b

\* The modulus is a number.
LEMMA Modulus == P \in Nat \ {0} /\ P > 2 /\ P \in Int
BY PrimeModulus

\* Equal modulo P
Cong(a, b) == a % P = b % P

\* Numbers that differ by a multiple of P are congruent.
LEMMA CongByMultiple ==
    ASSUME NEW a \in Int, NEW b \in Int, NEW k \in Int, a = b + P * k
    PROVE  Cong(a, b)
<1> DEFINE q == b \div P  r == b % P
<1>1. q \in Int /\ r \in 0 .. P - 1 /\ b = P * q + r  BY Division, Modulus
<1> HIDE DEF q, r
<1>2. a = P * (q + k) + r /\ q + k \in Int
  <2>1. P * (q + k) = P * q + P * k /\ P * q \in Int /\ P * k \in Int  BY <1>1, Modulus, Z3
  <2> QED BY <1>1, <2>1
<1>3. a % P = r  BY <1>1, <1>2, Modulus, DivisionUnique
<1> QED BY <1>3 DEF Cong, r

\* Congruent numbers differ by a multiple of P.
LEMMA CongMultiple ==
    ASSUME NEW a \in Int, NEW b \in Int, Cong(a, b)
    PROVE  \E k \in Int : a = b + P * k
<1> DEFINE q == a \div P  s == b \div P  r == a % P
<1>1. q \in Int /\ s \in Int /\ r \in Int /\ a = P * q + r /\ b = P * s + r
  BY Division, Modulus DEF Cong
<1> HIDE DEF q, s, r
<1>2. P * (q - s) = P * q - P * s /\ P * q \in Int /\ P * s \in Int /\ P * (q - s) \in Int
  BY <1>1, Modulus, Z3
<1>3. a = b + P * (q - s) /\ q - s \in Int  BY <1>1, <1>2
<1> QED BY <1>3

\* A remainder is an element of the field, congruent to the number.
LEMMA ModType ==
    ASSUME NEW a \in Int
    PROVE  a % P \in Field /\ a % P \in Int /\ Cong(a % P, a)
<1> DEFINE q == a \div P  r == a % P
<1>1. q \in Int /\ r \in 0 .. P - 1 /\ a = P * q + r  BY Division, Modulus
<1> HIDE DEF q, r
<1>2. P * (0 - q) = 0 - P * q /\ P * q \in Int  BY <1>1, Modulus, Z3
<1>3. r = a + P * (0 - q) /\ r \in Int /\ 0 - q \in Int  BY <1>1, <1>2, Modulus
<1>4. Cong(r, a)  BY <1>3, CongByMultiple
<1> QED BY <1>1, <1>3, <1>4 DEF r, Field

\* An element of the field is its own remainder.
LEMMA FieldMod ==
    ASSUME NEW a \in Field
    PROVE  a \in Int /\ a \in Nat /\ 0 <= a /\ a < P /\ a % P = a
<1>1. a \in Int /\ 0 \in Int /\ a \in 0 .. P - 1 /\ 0 <= a /\ a < P  BY Modulus DEF Field
<1>2. a = P * 0 + a  BY <1>1, Modulus
<1>3. a % P = a  BY <1>1, <1>2, Modulus, DivisionUnique
<1> QED BY <1>1, <1>3

\* Sums of congruent numbers are congruent.
LEMMA CongAdd ==
    ASSUME NEW a \in Int, NEW b \in Int, NEW c \in Int, NEW d \in Int, Cong(a, b), Cong(c, d)
    PROVE  Cong(a + c, b + d)
<1>1. PICK k \in Int : a = b + P * k  BY CongMultiple
<1>2. PICK l \in Int : c = d + P * l  BY CongMultiple
<1>3. P * (k + l) = P * k + P * l /\ P * k \in Int /\ P * l \in Int  BY Modulus, Z3
<1>4. a + c = (b + d) + P * (k + l) /\ k + l \in Int /\ a + c \in Int /\ b + d \in Int
  BY <1>1, <1>2, <1>3
<1> QED BY <1>4, CongByMultiple

\* Congruent numbers times a number are congruent.
LEMMA CongMulOne ==
    ASSUME NEW a \in Int, NEW b \in Int, NEW c \in Int, Cong(a, b)
    PROVE  Cong(a * c, b * c)
<1>1. PICK k \in Int : a = b + P * k  BY CongMultiple
<1>2. (b + P * k) * c = b * c + P * (k * c) /\ k * c \in Int /\ b * c \in Int /\ a * c \in Int
  BY Modulus, Z3
<1>3. a * c = b * c + P * (k * c)  BY <1>1, <1>2
<1> QED BY <1>2, <1>3, CongByMultiple

\* Products of congruent numbers are congruent.
LEMMA CongMul ==
    ASSUME NEW a \in Int, NEW b \in Int, NEW c \in Int, NEW d \in Int, Cong(a, b), Cong(c, d)
    PROVE  Cong(a * c, b * d)
<1>1. Cong(a * c, b * c)  BY CongMulOne
<1>2. Cong(c * b, d * b)  BY CongMulOne
<1>3. c * b = b * c /\ d * b = b * d  BY Z3
<1> QED BY <1>1, <1>2, <1>3 DEF Cong

\* In a sum or a product the terms may be reduced first.
LEMMA ModAdd ==
    ASSUME NEW a \in Int, NEW b \in Int
    PROVE  (a + b) % P = Plus(a % P, b % P)
<1>1. Cong((a % P) + (b % P), a + b)  BY ModType, CongAdd
<1> QED BY <1>1 DEF Cong, Plus

\* Times is multiplication modulo P.
LEMMA ModMul ==
    ASSUME NEW a \in Int, NEW b \in Int
    PROVE  (a * b) % P = Times(a % P, b % P)
<1>1. Cong((a % P) * (b % P), a * b)  BY ModType, CongMul
<1> QED BY <1>1 DEF Cong, Times

-----------------------------------------------------------------------------
(***************************************************************************)
(* The field of the integers modulo the prime P.                           *)
(***************************************************************************)

\* P is prime: every number but 0 has an inverse.
LEMMA HasInverse ==
    ASSUME NEW a \in Field, a # 0
    PROVE  \E y \in Field : Times(a, y) = 1
<1>0. a \in Int /\ 0 < a /\ a < P  BY FieldMod
<1> DEFINE S == {m \in Nat : m > 0 /\ \E k \in Int : Cong(m, a * k)}
<1>1. a \in S
  <2>1. a * 1 = a  BY <1>0
  <2>2. Cong(a, a * 1) /\ a \in Nat /\ a > 0 /\ 1 \in Int  BY <1>0, <2>1 DEF Cong
  <2> QED BY <2>2
<1> DEFINE m == Min(S)
<1>2. m \in S /\ \A x \in S : m <= x
  <2>1. S \subseteq Nat /\ S # {}  BY <1>1
  <2> HIDE DEF S
  <2> QED BY <2>1, LeastOf
<1> HIDE DEF m
<1>3. PICK k \in Int : Cong(m, a * k)  BY <1>2
<1>4. m \in Nat \ {0} /\ m < P /\ m \in Int
  <2>1. m <= a  BY <1>1, <1>2
  <2>2. m \in Nat /\ m > 0  BY <1>2
  <2> QED BY <1>0, <2>1, <2>2, Modulus
<1> DEFINE q == P \div m  r == P % m
<1>5. q \in Int /\ r \in 0 .. m - 1 /\ P = m * q + r  BY <1>4, Modulus, Division
<1> HIDE DEF q, r
<1>6. r = 0
  <2> SUFFICES ASSUME r # 0 PROVE FALSE  OBVIOUS
  <2>1. Cong(m * (0 - q), (a * k) * (0 - q))
    <3>1. a * k \in Int /\ 0 - q \in Int  BY <1>0, <1>3, <1>5, Z3
    <3> QED BY <1>3, <1>4, <3>1, CongMulOne
  <2>2. (a * k) * (0 - q) = a * (k * (0 - q)) /\ k * (0 - q) \in Int /\ a * (k * (0 - q)) \in Int
    BY <1>0, <1>3, <1>5, Z3
  <2>3. r = m * (0 - q) + P * 1 /\ m * (0 - q) \in Int
    <3>1. m * (0 - q) = 0 - m * q /\ m * q \in Int  BY <1>4, <1>5, Z3
    <3> QED BY <1>4, <1>5, <3>1, Modulus
  <2>4. Cong(r, m * (0 - q))
    <3>1. r \in Int  BY <1>5, <1>4
    <3> QED BY <2>3, <3>1, CongByMultiple
  <2>5. Cong(r, a * (k * (0 - q)))  BY <2>1, <2>2, <2>4 DEF Cong
  <2>6. r \in S
    <3>1. r \in Nat /\ r > 0  BY <1>5, <1>4
    <3> QED BY <2>2, <2>5, <3>1
  <2> QED BY <1>2, <1>4, <1>5, <2>6
<1>7. m = 1
  <2> SUFFICES ASSUME m # 1 PROVE FALSE  OBVIOUS
  <2>1. m \in 2 .. P - 1  BY <1>4, Modulus
  <2> QED BY <1>6, <2>1, PrimeModulus DEF r
<1>8. k % P \in Field /\ Times(a, k % P) = 1
  <2>1. a * k \in Int  BY <1>0, Z3
  <2>2. (a * k) % P = Times(a % P, k % P)  BY <1>0, ModMul
  <2>3. 1 \in Field  BY Modulus DEF Field
  <2> QED BY <1>3, <1>7, <2>2, <2>3, FieldMod, ModType DEF Cong
<1> QED BY <1>8

\* Inverted gives the inverse.
LEMMA InvertedDef ==
    ASSUME NEW a \in Field, a # 0
    PROVE  Inverted(a) \in Field /\ Times(a, Inverted(a)) = 1
BY HasInverse DEF Inverted

\* The operations stay in the field.
LEMMA FieldOps ==
    /\ 0 \in Field /\ 1 \in Field /\ P - 1 \in Field
    /\ \A a, b \in Field : Plus(a, b) \in Field /\ Times(a, b) \in Field
    /\ \A a \in Field : Negated(a) \in Field
<1>1. 0 \in Field /\ 1 \in Field /\ P - 1 \in Field  BY Modulus DEF Field
<1>2. ASSUME NEW a \in Field, NEW b \in Field PROVE Plus(a, b) \in Field /\ Times(a, b) \in Field
  <2>1. a + b \in Int /\ a * b \in Int  BY FieldMod, Z3
  <2> QED BY <2>1, ModType DEF Plus, Times
<1>3. ASSUME NEW a \in Field PROVE Negated(a) \in Field  BY FieldMod, Modulus, ModType DEF Negated
<1> QED BY <1>1, <1>2, <1>3

\* The laws of the field that the proofs use.
LEMMA FieldRing ==
    ASSUME NEW a \in Field, NEW b \in Field, NEW c \in Field
    PROVE  /\ Plus(a, b) = Plus(b, a) /\ Times(a, b) = Times(b, a)
           /\ Plus(Plus(a, b), c) = Plus(a, Plus(b, c))
           /\ Times(Times(a, b), c) = Times(a, Times(b, c))
           /\ Times(a, Plus(b, c)) = Plus(Times(a, b), Times(a, c))
           /\ Plus(a, 0) = a /\ Plus(0, a) = a /\ Times(a, 1) = a /\ Times(1, a) = a
           /\ Times(a, 0) = 0 /\ Times(0, a) = 0
           /\ Plus(a, Negated(a)) = 0 /\ Negated(Negated(a)) = a
           /\ Times(P - 1, a) = Negated(a)
<1>1. a \in Int /\ b \in Int /\ c \in Int /\ a % P = a /\ b % P = b /\ c % P = c  BY FieldMod
<1>2. a + b = b + a /\ a * b = b * a /\ a * b \in Int /\ b * c \in Int /\ a * c \in Int
      /\ a + b \in Int /\ b + c \in Int
      /\ (a + b) + c = a + (b + c) /\ (a * b) * c = a * (b * c) /\ a * (b + c) = a * b + a * c
  BY <1>1, Z3
<1>3. Plus(a, b) = Plus(b, a) /\ Times(a, b) = Times(b, a)  BY <1>2 DEF Plus, Times
<1>4. Plus(Plus(a, b), c) = Plus(a, Plus(b, c))
  <2>1. Plus((a + b) % P, c % P) = ((a + b) + c) % P  BY <1>1, <1>2, ModAdd
  <2>2. Plus(a % P, (b + c) % P) = (a + (b + c)) % P  BY <1>1, <1>2, ModAdd
  <2>3. (a + b) % P = Plus(a, b) /\ (b + c) % P = Plus(b, c)  BY DEF Plus
  <2> QED BY <1>1, <1>2, <2>1, <2>2, <2>3
<1>5. Times(Times(a, b), c) = Times(a, Times(b, c))
  <2>1. Times((a * b) % P, c % P) = ((a * b) * c) % P  BY <1>1, <1>2, ModMul
  <2>2. Times(a % P, (b * c) % P) = (a * (b * c)) % P  BY <1>1, <1>2, ModMul
  <2>3. (a * b) % P = Times(a, b) /\ (b * c) % P = Times(b, c)  BY DEF Times
  <2> QED BY <1>1, <1>2, <2>1, <2>2, <2>3
<1>6. Times(a, Plus(b, c)) = Plus(Times(a, b), Times(a, c))
  <2>1. Times(a % P, (b + c) % P) = (a * (b + c)) % P  BY <1>1, <1>2, ModMul
  <2>2. (a * b + a * c) % P = Plus((a * b) % P, (a * c) % P)  BY <1>1, <1>2, ModAdd
  <2>3. (b + c) % P = Plus(b, c) /\ (a * b) % P = Times(a, b) /\ (a * c) % P = Times(a, c)
    BY DEF Plus, Times
  <2> QED BY <1>1, <1>2, <2>1, <2>2, <2>3
<1>7. Plus(a, 0) = a /\ Plus(0, a) = a /\ Times(a, 1) = a /\ Times(1, a) = a
  <2>1. a + 0 = a /\ 0 + a = a /\ a * 1 = a /\ 1 * a = a  BY <1>1
  <2> QED BY <1>1, <2>1 DEF Plus, Times
<1>8. Times(a, 0) = 0 /\ Times(0, a) = 0
  <2>1. a * 0 = 0 /\ 0 * a = 0  BY <1>1
  <2>2. 0 % P = 0  BY FieldOps, FieldMod
  <2> QED BY <2>1, <2>2 DEF Times
<1>9. Negated(a) = IF a = 0 THEN 0 ELSE P - a
  <2>1. a = 0 \/ P - a \in Field  BY <1>1, FieldMod, Modulus DEF Field
  <2>2. (P - 0) % P = 0
    <3>1. P - 0 = P * 1 + 0 /\ 0 \in 0 .. P - 1 /\ P - 0 \in Int  BY Modulus
    <3> QED BY <3>1, Modulus, DivisionUnique
  <2> QED BY <2>1, <2>2, FieldMod DEF Negated
<1>10. Plus(a, Negated(a)) = 0 /\ Negated(Negated(a)) = a
  <2>0. P % P = 0 /\ 0 % P = 0
    <3>1. P = P * 1 + 0 /\ 0 \in 0 .. P - 1  BY Modulus
    <3>2. P % P = 0  BY <3>1, Modulus, DivisionUnique
    <3> QED BY <3>2, FieldOps, FieldMod
  <2>1. CASE a = 0
    <3>1. Negated(a) = 0 /\ Negated(0) = 0  BY <1>9, <2>1
    <3> QED BY <1>7, <2>1, <3>1
  <2>2. CASE a # 0
    <3>1. a + (P - a) = P /\ P - (P - a) = a  BY <1>1, Modulus
    <3>2. Negated(a) = P - a  BY <1>9, <2>2
    <3> QED BY <3>1, <3>2, <2>0, <1>1 DEF Plus, Negated
  <2> QED BY <2>1, <2>2
<1>11. Times(P - 1, a) = Negated(a)
  <2>1. (P - 1) * a = (P - a) + P * (a - 1) /\ (P - 1) * a \in Int  BY <1>1, Modulus, Z3
  <2>2. Cong((P - 1) * a, P - a)
    <3>1. P - a \in Int /\ a - 1 \in Int  BY <1>1, Modulus
    <3> QED BY <2>1, <3>1, CongByMultiple
  <2> QED BY <2>2 DEF Cong, Times, Negated
<1> QED BY <1>3, <1>4, <1>5, <1>6, <1>7, <1>8, <1>10, <1>11

-----------------------------------------------------------------------------
(***************************************************************************)
(* Linear combinations and their values.  A circuit's wires are numbered   *)
(* from 0 on; an assignment gives a value to every number, those beyond    *)
(* the circuit included, so that one assignment can be judged by a circuit *)
(* and by a later one.                                                     *)
(***************************************************************************)

\* A finite total of integers is an integer.
LEMMA TotalType ==
    ASSUME NEW h \in [Nat -> Int], NEW S \in SUBSET Nat, IsFiniteSet(S)
    PROVE  Total(S, h) \in Int
BY TotalStep

\* One more term.
LEMMA TotalAdd ==
    ASSUME NEW h \in [Nat -> Int], NEW S \in SUBSET Nat, IsFiniteSet(S), NEW x \in Nat, x \notin S
    PROVE  Total(S \cup {x}, h) = h[x] + Total(S, h)
<1>1. \A y \in Nat \ S : Total(S \cup {y}, h) = h[y] + Total(S, h)  BY TotalStep
<1> QED BY <1>1

\* Terms that are 0 do not count.
LEMMA TotalSupport ==
    ASSUME NEW h \in [Nat -> Int], NEW R \in SUBSET Nat, IsFiniteSet(R),
           NEW S \in SUBSET R, \A x \in R \ S : h[x] = 0
    PROVE  Total(R, h) = Total(S, h)
<1> DEFINE Q == R \ S
           U == {T \in SUBSET Q : Total(S \cup T, h) = Total(S, h)}
<1>1. {} \in U  BY DEF Total
<1>2. ASSUME NEW T \in SUBSET Q, NEW x \in Q \ T, T \in U PROVE T \cup {x} \in U
  <2>1. S \cup T \in SUBSET Nat /\ IsFiniteSet(S \cup T) /\ x \in Nat \ (S \cup T)
    <3>1. S \cup T \in SUBSET R  OBVIOUS
    <3> QED BY <3>1, FS_Subset
  <2>2. Total((S \cup T) \cup {x}, h) = h[x] + Total(S \cup T, h)
    <3> DEFINE V == S \cup T
    <3>1. V \in SUBSET Nat /\ IsFiniteSet(V) /\ x \in Nat /\ x \notin V  BY <2>1
    <3> HIDE DEF U, Q, V
    <3>2. Total(V \cup {x}, h) = h[x] + Total(V, h)  BY <3>1, TotalAdd
    <3> QED BY <3>2 DEF V
  <2>3. Total(S \cup T, h) \in Int /\ h[x] = 0  BY <2>1, TotalType
  <2>4. S \cup (T \cup {x}) = (S \cup T) \cup {x} /\ T \cup {x} \in SUBSET Q  OBVIOUS
  <2>5. Total(S \cup T, h) = Total(S, h)  BY <1>2
  <2>6. Total(S \cup (T \cup {x}), h) = Total(S, h)
    <3> HIDE DEF U, Q
    <3>1. Total((S \cup T) \cup {x}, h) = Total(S \cup T, h)  BY <2>2, <2>3
    <3> QED BY <3>1, <2>4, <2>5
  <2> QED BY <2>4, <2>6
<1>3. Q \in U
  <2>1. IsFiniteSet(Q)  BY FS_Subset
  <2> HIDE DEF U, Q
  <2> QED BY <1>1, <1>2, <2>1, FiniteInduction
<1>4. S \cup Q = R  OBVIOUS
<1> QED BY <1>3, <1>4

\* A total of linear terms is linear, modulo P.
LEMMA TotalLinear ==
    ASSUME NEW e \in [Nat -> Int], NEW h \in [Nat -> Int], NEW g \in [Nat -> Int], NEW k \in Int,
           NEW S \in SUBSET Nat, IsFiniteSet(S), \A x \in S : Cong(e[x], h[x] + k * g[x])
    PROVE  Cong(Total(S, e), Total(S, h) + k * Total(S, g))
<1> DEFINE U == {T \in SUBSET S : Cong(Total(T, e), Total(T, h) + k * Total(T, g))}
<1>1. {} \in U
  <2>1. Total({}, e) = 0 /\ Total({}, h) = 0 /\ Total({}, g) = 0  BY TotalStep
  <2>2. 0 + k * 0 = 0  OBVIOUS
  <2> QED BY <2>1, <2>2 DEF Cong
<1>2. ASSUME NEW T \in SUBSET S, NEW x \in S \ T, T \in U PROVE T \cup {x} \in U
  <2>1. T \in SUBSET Nat /\ IsFiniteSet(T) /\ x \in Nat \ T /\ x \in S /\ T \cup {x} \in SUBSET S
    BY FS_Subset
  <2> DEFINE a == Total(T, e)  b == Total(T, h)  c == Total(T, g)
  <2>2. a \in Int /\ b \in Int /\ c \in Int /\ e[x] \in Int /\ h[x] \in Int /\ g[x] \in Int
    BY <2>1, TotalType
  <2>3. /\ Total(T \cup {x}, e) = e[x] + a
        /\ Total(T \cup {x}, h) = h[x] + b
        /\ Total(T \cup {x}, g) = g[x] + c
    <3>1. x \notin T /\ x \in Nat  BY <2>1
    <3> HIDE DEF U
    <3> QED BY <2>1, <3>1, TotalAdd
  <2>4. Cong(a, b + k * c)  BY <1>2
  <2>5. Cong(e[x], h[x] + k * g[x])  BY <2>1
  <2> HIDE DEF a, b, c, U
  <2>6. k * c \in Int /\ k * g[x] \in Int /\ k * (g[x] + c) = k * g[x] + k * c  BY <2>2, Z3
  <2>7. Cong(e[x] + a, (h[x] + k * g[x]) + (b + k * c))  BY <2>2, <2>4, <2>5, <2>6, CongAdd
  <2>8. (h[x] + k * g[x]) + (b + k * c) = (h[x] + b) + k * (g[x] + c)  BY <2>2, <2>6
  <2> QED BY <2>1, <2>3, <2>7, <2>8 DEF U
<1>3. S \in U
  <2> HIDE DEF U
  <2> QED BY <1>1, <1>2, FiniteInduction
<1> QED BY <1>3

\* Congruent terms have congruent totals.
LEMMA TotalCong ==
    ASSUME NEW e \in [Nat -> Int], NEW h \in [Nat -> Int],
           NEW S \in SUBSET Nat, IsFiniteSet(S), \A x \in S : Cong(e[x], h[x])
    PROVE  Cong(Total(S, e), Total(S, h))
<1>1. \A x \in S : h[x] + 0 * h[x] = h[x]
  <2> SUFFICES ASSUME NEW x \in S PROVE h[x] + 0 * h[x] = h[x]  OBVIOUS
  <2>1. h[x] \in Int  OBVIOUS
  <2> QED BY <2>1
<1>2. Cong(Total(S, e), Total(S, h) + 0 * Total(S, h))
  <2>1. \A x \in S : Cong(e[x], h[x] + 0 * h[x])  BY <1>1
  <2> QED BY <2>1, TotalLinear
<1>3. Total(S, h) + 0 * Total(S, h) = Total(S, h)  BY TotalType
<1> QED BY <1>2, <1>3

----------------------------------------------------------------------------
(* Linear combinations *)

\* Linear combinations of the wires below n: their coefficients are not 0.
LCs(n) == UNION {[D -> 1 .. P - 1] : D \in SUBSET (0 .. n - 1)}

\* Values for every wire there may ever be; wire 0 is the constant 1.
Assignments == {w \in [Nat -> Field] : w[0] = 1}

\* The terms of f, 0 where f has no coefficient.
Terms(f, w) == [v \in Nat |-> Coef(f, v) * w[v]]

\* What a linear combination is.
LEMMA LcFacts ==
    ASSUME NEW n \in Nat, NEW f \in LCs(n)
    PROVE  /\ f \in [Wires(f) -> 1 .. P - 1]
           /\ Wires(f) \in SUBSET (0 .. n - 1) /\ Wires(f) \in SUBSET Nat /\ IsFiniteSet(Wires(f))
           /\ \A v \in Wires(f) : f[v] \in Field /\ f[v] \in Int /\ f[v] # 0 /\ v \in Nat
           /\ \A v \in Nat : Coef(f, v) \in Field /\ Coef(f, v) \in Int
<1>1. PICK D \in SUBSET (0 .. n - 1) : f \in [D -> 1 .. P - 1]  BY DEF LCs
<1>2. Wires(f) = D  BY <1>1 DEF Wires
<1>3. D \in SUBSET Nat /\ IsFiniteSet(D)
  <2>1. IsFiniteSet(0 .. n - 1) /\ 0 .. n - 1 \in SUBSET Nat  BY FS_Interval
  <2>2. IsFiniteSet(D)  BY <2>1, FS_Subset
  <2> QED BY <2>1, <2>2
<1>4. ASSUME NEW v \in D PROVE f[v] \in Field /\ f[v] \in Int /\ f[v] # 0
  BY <1>1, Modulus DEF Field
<1>5. ASSUME NEW v \in Nat PROVE Coef(f, v) \in Field /\ Coef(f, v) \in Int
  <2>1. CASE v \in D  BY <1>2, <1>4, <2>1 DEF Coef
  <2>2. CASE v \notin D  BY <1>2, <2>2, FieldOps DEF Coef
  <2> QED BY <2>1, <2>2
<1>6. f \in [Wires(f) -> 1 .. P - 1]  BY <1>1, <1>2
<1> QED BY <1>2, <1>3, <1>4, <1>5, <1>6

\* Coefficients that are not 0 make a linear combination.
LEMMA LcIntro ==
    ASSUME NEW n \in Nat, NEW D \in SUBSET (0 .. n - 1), NEW f \in [D -> Field],
           \A v \in D : f[v] # 0
    PROVE  f \in LCs(n)
<1>1. f \in [D -> 1 .. P - 1]  BY Modulus DEF Field
<1> QED BY <1>1 DEF LCs

\* More wires, the same linear combination.
LEMMA LcMono ==
    ASSUME NEW n \in Nat, NEW m \in Nat, n <= m, NEW f \in LCs(n)
    PROVE  f \in LCs(m)
<1>1. Wires(f) \in SUBSET (0 .. m - 1)  BY LcFacts
<1> QED BY <1>1, LcFacts DEF LCs

\* What an assignment is.
LEMMA AssignmentFacts ==
    ASSUME NEW w \in Assignments
    PROVE  w \in [Nat -> Field] /\ w[0] = 1 /\ \A v \in Nat : w[v] \in Field /\ w[v] \in Int
BY FieldMod DEF Assignments

\* Terms are integers.
LEMMA TermsType ==
    ASSUME NEW n \in Nat, NEW f \in LCs(n), NEW w \in Assignments
    PROVE  Terms(f, w) \in [Nat -> Int]
<1> SUFFICES ASSUME NEW v \in Nat PROVE Coef(f, v) * w[v] \in Int  BY DEF Terms
<1>1. Coef(f, v) \in Int /\ w[v] \in Int  BY LcFacts, AssignmentFacts
<1> QED BY <1>1, Z3

\* The value of f is a sum over any set that holds its wires.
LEMMA EvalTotal ==
    ASSUME NEW n \in Nat, NEW f \in LCs(n), NEW w \in Assignments,
           NEW R \in SUBSET Nat, IsFiniteSet(R), Wires(f) \subseteq R
    PROVE  /\ EvalLc(f, w) = Total(R, Terms(f, w)) % P
           /\ Total(R, Terms(f, w)) \in Int
           /\ EvalLc(f, w) \in Field
           /\ Cong(EvalLc(f, w), Total(R, Terms(f, w)))
<1>1. Total(R, Terms(f, w)) = Total(Wires(f), Terms(f, w))
  <2>1. ASSUME NEW x \in R \ Wires(f) PROVE Terms(f, w)[x] = 0
    <3>1. Coef(f, x) = 0 /\ x \in Nat /\ w[x] \in Int  BY AssignmentFacts DEF Coef
    <3>2. 0 * w[x] = 0  BY <3>1
    <3> QED BY <3>1, <3>2 DEF Terms
  <2>2. Terms(f, w) \in [Nat -> Int]  BY TermsType
  <2> QED BY <2>1, <2>2, TotalSupport
<1>2. EvalLc(f, w) = Total(Wires(f), Terms(f, w)) % P
  <2>1. [v \in Wires(f) |-> f[v] * w[v]] = [v \in Wires(f) |-> Terms(f, w)[v]]
    <3>1. ASSUME NEW v \in Wires(f) PROVE f[v] * w[v] = Terms(f, w)[v]
      <4>1. v \in Nat  BY LcFacts
      <4> QED BY <4>1 DEF Terms, Coef
    <3> QED BY <3>1
  <2> QED BY <2>1 DEF EvalLc, Total
<1>3. Total(R, Terms(f, w)) \in Int  BY TermsType, TotalType
<1> QED BY <1>1, <1>2, <1>3, ModType

\* A linear combination has its value in the field.
LEMMA EvalType ==
    ASSUME NEW n \in Nat, NEW f \in LCs(n), NEW w \in Assignments
    PROVE  EvalLc(f, w) \in Field
BY LcFacts, EvalTotal

\* The value depends on the wires mentioned alone.
LEMMA EvalSame ==
    ASSUME NEW f, NEW w, NEW u, \A v \in Wires(f) : w[v] = u[v]
    PROVE  EvalLc(f, w) = EvalLc(f, u)
<1>1. [v \in Wires(f) |-> f[v] * w[v]] = [v \in Wires(f) |-> f[v] * u[v]]  OBVIOUS
<1> QED BY <1>1 DEF EvalLc

\* Zero has the value 0,
LEMMA EvalZero == ASSUME NEW w PROVE EvalLc(Zero, w) = 0
<1>1. [v \in Wires(Zero) |-> Zero[v] * w[v]] = [v \in {} |-> (<<>>)[v]]  BY DEF Zero, Wires
<1>2. EvalLc(Zero, w) = Total({}, <<>>) % P  BY <1>1 DEF EvalLc, Total
<1> DEFINE h == [v \in Nat |-> 0]
<1>3. Total({}, <<>>) = Total({}, h)  BY DEF Total
<1>4. h \in [Nat -> Int] /\ {} \in SUBSET Nat /\ IsFiniteSet({})  BY FS_EmptySet
<1>5. Total({}, h) = 0
  <2> HIDE DEF h
  <2> QED BY <1>4, TotalStep
<1> QED BY <1>2, <1>3, <1>5, FieldOps, FieldMod

\* and is a linear combination of no wire.
LEMMA ZeroType == ASSUME NEW n \in Nat PROVE Zero \in LCs(n) /\ Wires(Zero) = {}
<1>1. Zero \in [{} -> 1 .. P - 1] /\ {} \in SUBSET (0 .. n - 1)  BY DEF Zero
<1> QED BY <1>1 DEF LCs, Wires, Zero

\* One wire with a coefficient.
LEMMA MappingFacts ==
    ASSUME NEW n \in Nat, NEW u \in 0 .. n - 1, NEW a \in Field, a # 0
    PROVE  /\ Mapping(u, a) \in LCs(n) /\ Wires(Mapping(u, a)) = {u}
           /\ Mapping(u, a)[u] = a
           /\ \A w \in Assignments : EvalLc(Mapping(u, a), w) = Times(a, w[u])
<1> DEFINE f == Mapping(u, a)
<1>1. f \in [{u} -> Field] /\ f[u] = a /\ Wires(f) = {u}  BY DEF Mapping, Wires
<1>2. f \in LCs(n)
  <2>1. {u} \in SUBSET (0 .. n - 1) /\ \A v \in {u} : f[v] # 0  BY <1>1
  <2> HIDE DEF f
  <2> QED BY <1>1, <2>1, LcIntro
<1>3. ASSUME NEW w \in Assignments PROVE EvalLc(f, w) = Times(a, w[u])
  <2> DEFINE h == Terms(f, w)
  <2>0. u \in Nat /\ w[u] \in Int /\ a \in Int  BY AssignmentFacts, FieldMod
  <2>1. h \in [Nat -> Int] /\ h[u] = a * w[u] /\ h[u] \in Int
    <3>1. Terms(f, w) \in [Nat -> Int]
      <4> HIDE DEF f
      <4> QED BY <1>2, TermsType
    <3>2. h[u] = a * w[u]
      <4> HIDE DEF f
      <4> QED BY <1>1, <2>0 DEF Terms, Coef
    <3> HIDE DEF h
    <3> QED BY <3>1, <3>2, <2>0 DEF h
  <2> HIDE DEF h
  <2>2. Total({u}, h) = h[u] + Total({}, h) /\ Total({}, h) = 0
    <3>1. {} \in SUBSET Nat /\ IsFiniteSet({}) /\ u \notin {} /\ {} \cup {u} = {u}  BY FS_EmptySet
    <3>2. Total({} \cup {u}, h) = h[u] + Total({}, h)  BY <2>0, <2>1, <3>1, TotalAdd
    <3>3. Total({}, h) = 0  BY <2>1, <3>1, TotalStep
    <3> QED BY <3>1, <3>2, <3>3
  <2>3. EvalLc(f, w) = Total({u}, h) % P
    <3>1. {u} \in SUBSET Nat /\ IsFiniteSet({u}) /\ Wires(f) \subseteq {u}
      BY <1>1, <2>0, FS_Singleton
    <3> HIDE DEF f
    <3> QED BY <1>2, <3>1, EvalTotal DEF h
  <2>4. Total({u}, h) = a * w[u]  BY <2>1, <2>2
  <2> QED BY <2>3, <2>4 DEF Times
<1> QED BY <1>1, <1>2, <1>3

\* Unit(u) is the wire u.
LEMMA UnitFacts ==
    ASSUME NEW n \in Nat, NEW u \in 0 .. n - 1
    PROVE  /\ Unit(u) \in LCs(n) /\ Wires(Unit(u)) = {u}
           /\ \A w \in Assignments : EvalLc(Unit(u), w) = w[u]
<1>1. 1 \in Field /\ 1 # 0  BY FieldOps
<1>2. \A w \in Assignments : w[u] \in Field /\ Times(1, w[u]) = w[u]
  <2>1. u \in Nat  OBVIOUS
  <2> QED BY <2>1, AssignmentFacts, FieldRing, FieldOps
<1> QED BY <1>1, <1>2, MappingFacts DEF Unit

\* Const(a) is the number a.
LEMMA ConstFacts ==
    ASSUME NEW n \in Nat, n > 0, NEW a \in Int
    PROVE  /\ Const(a) \in LCs(n) /\ Wires(Const(a)) \subseteq {0}
           /\ \A w \in Assignments : EvalLc(Const(a), w) = a % P
<1>1. a % P \in Field  BY ModType
<1>2. CASE a % P = 0  BY <1>2, EvalZero, ZeroType DEF Const
<1>3. CASE a % P # 0
  <2>1. 0 \in 0 .. n - 1  OBVIOUS
  <2>2. \A w \in Assignments : w[0] = 1 /\ Times(a % P, 1) = a % P
    BY <1>1, AssignmentFacts, FieldRing
  <2> QED BY <1>1, <1>3, <2>1, <2>2, MappingFacts DEF Const
<1> QED BY <1>2, <1>3

\* One is 1.
LEMMA OneFacts ==
    ASSUME NEW n \in Nat, n > 0
    PROVE  /\ One \in LCs(n) /\ \A w \in Assignments : EvalLc(One, w) = 1
BY ConstFacts, FieldOps, FieldMod DEF One

\* A sum, wire by wire.
LEMMA AddLinearFacts ==
    ASSUME NEW n \in Nat, NEW f \in LCs(n), NEW g \in LCs(n), NEW k \in Field
    PROVE  /\ AddLinear(f, g, k) \in LCs(n)
           /\ Wires(AddLinear(f, g, k)) \subseteq Wires(f) \cup Wires(g)
           /\ \A w \in Assignments :
                 EvalLc(AddLinear(f, g, k), w) = Plus(EvalLc(f, w), Times(k, EvalLc(g, w)))
<1> DEFINE sum(x) == Plus(Coef(f, x), Times(k, Coef(g, x)))
           D == {v \in Wires(f) \cup Wires(g) : sum(v) # 0}
           r == [x \in D |-> sum(x)]
<1>1. AddLinear(f, g, k) = r  BY DEF AddLinear
<1>2. D \in SUBSET (0 .. n - 1) /\ D \in SUBSET Nat  BY LcFacts
<1>3. \A x \in Nat : sum(x) \in Field  BY LcFacts, FieldOps
<1>4. r \in LCs(n) /\ Wires(r) = D
  <2>1. r \in [D -> Field] /\ \A x \in D : r[x] # 0  BY <1>2, <1>3
  <2>2. Wires(r) = D  BY DEF Wires
  <2> HIDE DEF r, D
  <2> QED BY <1>2, <2>1, <2>2, LcIntro
<1>5. \A x \in Nat : Coef(r, x) = sum(x)
  <2> SUFFICES ASSUME NEW x \in Nat PROVE Coef(r, x) = sum(x)  OBVIOUS
  <2>1. CASE x \in D  BY <2>1, <1>4 DEF Coef
  <2>2. CASE x \notin D
    <3>1. Coef(r, x) = 0  BY <2>2, <1>4 DEF Coef
    <3>2. CASE x \in Wires(f) \cup Wires(g)  BY <2>2, <3>1, <3>2
    <3>3. CASE x \notin Wires(f) \cup Wires(g)
      <4>1. Coef(f, x) = 0 /\ Coef(g, x) = 0  BY <3>3 DEF Coef
      <4> QED BY <3>1, <4>1, FieldRing, FieldOps
    <3> QED BY <3>2, <3>3
  <2> QED BY <2>1, <2>2
<1> HIDE DEF r, D
<1>6. ASSUME NEW w \in Assignments
      PROVE  EvalLc(r, w) = Plus(EvalLc(f, w), Times(k, EvalLc(g, w)))
  <2> DEFINE R == 0 .. n - 1
             tr == Terms(r, w)
             tf == Terms(f, w)
             tg == Terms(g, w)
  <2>1. R \in SUBSET Nat /\ IsFiniteSet(R) /\ Wires(r) \subseteq R /\ Wires(f) \subseteq R
        /\ Wires(g) \subseteq R
    BY FS_Interval, LcFacts, <1>4
  <2>2. tr \in [Nat -> Int] /\ tf \in [Nat -> Int] /\ tg \in [Nat -> Int] /\ k \in Int
    BY TermsType, FieldMod, <1>4
  <2>3. ASSUME NEW x \in R PROVE Cong(tr[x], tf[x] + k * tg[x])
    <3> DEFINE a == Coef(f, x)  b == Coef(g, x)  c == w[x]
    <3>1. a \in Int /\ b \in Int /\ c \in Int /\ x \in Nat /\ k \in Int
      BY LcFacts, AssignmentFacts, <2>1, <2>2
    <3>2. tr[x] = sum(x) * c /\ tf[x] = a * c /\ tg[x] = b * c  BY <3>1, <1>5 DEF Terms
    <3> HIDE DEF tr, tf, tg, a, b, c
    <3>3. Cong(sum(x), a + k * b) /\ sum(x) \in Int
      <4>1. k * b \in Int /\ a + k * b \in Int  BY <3>1, Z3
      <4>2. Cong((k * b) % P, k * b) /\ (k * b) % P \in Int  BY <4>1, ModType
      <4>3. Cong(a + ((k * b) % P), a + k * b)  BY <3>1, <4>1, <4>2, CongAdd DEF Cong
      <4>4. a + ((k * b) % P) \in Int  BY <3>1, <4>2
      <4>5. sum(x) = (a + ((k * b) % P)) % P  BY DEF Plus, Times, a, b
      <4>6. Cong((a + ((k * b) % P)) % P, a + ((k * b) % P)) /\ (a + ((k * b) % P)) % P \in Int
        BY <4>4, ModType
      <4> QED BY <4>3, <4>5, <4>6 DEF Cong
    <3>4. (a + k * b) * c = a * c + k * (b * c) /\ a + k * b \in Int  BY <3>1, Z3
    <3>5. Cong(sum(x) * c, (a + k * b) * c)  BY <3>1, <3>3, <3>4, CongMulOne
    <3> QED BY <3>2, <3>4, <3>5
  <2> HIDE DEF tr, tf, tg, R
  <2>4. Cong(Total(R, tr), Total(R, tf) + k * Total(R, tg))  BY <2>1, <2>2, <2>3, TotalLinear
  <2>5. /\ EvalLc(r, w) = Total(R, tr) % P
        /\ EvalLc(f, w) = Total(R, tf) % P /\ Total(R, tf) \in Int
        /\ EvalLc(g, w) = Total(R, tg) % P /\ Total(R, tg) \in Int
    BY <2>1, <1>4, EvalTotal DEF tr, tf, tg
  <2>6. k * Total(R, tg) \in Int  BY <2>2, <2>5, Z3
  <2>7. (Total(R, tf) + k * Total(R, tg)) % P = Plus(EvalLc(f, w), Times(k, EvalLc(g, w)))
    BY <2>2, <2>5, <2>6, ModAdd, ModMul, FieldMod
  <2> QED BY <2>4, <2>5, <2>7 DEF Cong
<1> QED BY <1>1, <1>4, <1>6 DEF D

\* Scaled multiplies the value.
LEMMA ScaledFacts ==
    ASSUME NEW n \in Nat, NEW f \in LCs(n), NEW k \in Field
    PROVE  /\ Scaled(f, k) \in LCs(n) /\ Wires(Scaled(f, k)) \subseteq Wires(f)
           /\ \A w \in Assignments : EvalLc(Scaled(f, k), w) = Times(k, EvalLc(f, w))
<1>1. Zero \in LCs(n) /\ Wires(Zero) = {}  BY ZeroType
<1>2. /\ AddLinear(Zero, f, k) \in LCs(n)
      /\ Wires(AddLinear(Zero, f, k)) \subseteq Wires(Zero) \cup Wires(f)
      /\ \A w \in Assignments :
            EvalLc(AddLinear(Zero, f, k), w) = Plus(EvalLc(Zero, w), Times(k, EvalLc(f, w)))
  <2> DEFINE z == Zero
  <2>1. z \in LCs(n)  BY <1>1
  <2> HIDE DEF z
  <2>2. /\ AddLinear(z, f, k) \in LCs(n)
        /\ Wires(AddLinear(z, f, k)) \subseteq Wires(z) \cup Wires(f)
        /\ \A w \in Assignments :
              EvalLc(AddLinear(z, f, k), w) = Plus(EvalLc(z, w), Times(k, EvalLc(f, w)))
    BY <2>1, AddLinearFacts
  <2> QED BY <2>2 DEF z
<1>3. ASSUME NEW w \in Assignments PROVE EvalLc(AddLinear(Zero, f, k), w) = Times(k, EvalLc(f, w))
  <2>1. EvalLc(f, w) \in Field  BY EvalType
  <2>2. Times(k, EvalLc(f, w)) \in Field  BY <2>1, FieldOps
  <2>3. Plus(0, Times(k, EvalLc(f, w))) = Times(k, EvalLc(f, w))  BY <2>2, FieldRing
  <2> QED BY <1>2, <2>3, EvalZero
<1> QED BY <1>1, <1>2, <1>3 DEF Scaled

\* Minus subtracts the values.
LEMMA MinusFacts ==
    ASSUME NEW n \in Nat, NEW f \in LCs(n), NEW g \in LCs(n)
    PROVE  /\ Minus(f, g) \in LCs(n) /\ Wires(Minus(f, g)) \subseteq Wires(f) \cup Wires(g)
           /\ \A w \in Assignments :
                 EvalLc(Minus(f, g), w) = Plus(EvalLc(f, w), Negated(EvalLc(g, w)))
<1>1. P - 1 \in Field  BY FieldOps
<1>2. /\ AddLinear(f, g, P - 1) \in LCs(n)
      /\ Wires(AddLinear(f, g, P - 1)) \subseteq Wires(f) \cup Wires(g)
      /\ \A w \in Assignments :
            EvalLc(AddLinear(f, g, P - 1), w) = Plus(EvalLc(f, w), Times(P - 1, EvalLc(g, w)))
  BY <1>1, AddLinearFacts
<1>3. ASSUME NEW w \in Assignments PROVE Times(P - 1, EvalLc(g, w)) = Negated(EvalLc(g, w))
  <2>1. EvalLc(g, w) \in Field  BY EvalType
  <2> QED BY <2>1, FieldRing
<1> QED BY <1>2, <1>3 DEF Minus

-----------------------------------------------------------------------------
(***************************************************************************)
(* Substitution: the value of a linear combination after it is the value   *)
(* before it, under the assignment that gives the substituted wires the    *)
(* values of their definitions.                                            *)
(***************************************************************************)

\* A substitution of linear combinations for wires other than 0.
IsSub(sub, n) == DOMAIN sub \subseteq Nat \ {0} /\ \A v \in DOMAIN sub : sub[v] \in LCs(n)
\* The assignment in which each wire that sub defines has the value of its definition.
Star(sub, w) == [v \in Nat |-> IF v \in DOMAIN sub THEN EvalLc(sub[v], w) ELSE w[v]]

\* and is an assignment.
LEMMA StarFacts ==
    ASSUME NEW n \in Nat, NEW sub, IsSub(sub, n), NEW w \in Assignments
    PROVE  Star(sub, w) \in Assignments
<1>1. ASSUME NEW v \in Nat
      PROVE  (IF v \in DOMAIN sub THEN EvalLc(sub[v], w) ELSE w[v]) \in Field
  BY EvalType, AssignmentFacts DEF IsSub
<1>2. Star(sub, w) \in [Nat -> Field]  BY <1>1 DEF Star
<1>3. Star(sub, w)[0] = 1  BY AssignmentFacts DEF Star, IsSub
<1> QED BY <1>2, <1>3 DEF Assignments

\* To evaluate after a substitution is to evaluate where the wires have these values.
LEMMA SubstitutedFacts ==
    ASSUME NEW n \in Nat, NEW f \in LCs(n), NEW sub, IsSub(sub, n)
    PROVE  /\ Substituted(f, sub) \in LCs(n)
           /\ \A x \in Wires(Substituted(f, sub)) :
                 \/ x \in Wires(f) \ DOMAIN sub
                 \/ \E v \in Wires(f) \cap DOMAIN sub : x \in Wires(sub[v])
           /\ \A w \in Assignments : EvalLc(Substituted(f, sub), w) = EvalLc(f, Star(sub, w))
<1>1. CASE Wires(f) \cap DOMAIN sub = {}
  <2>1. Substituted(f, sub) = f  BY <1>1 DEF Substituted
  <2>2. ASSUME NEW w \in Assignments PROVE EvalLc(f, w) = EvalLc(f, Star(sub, w))
    <3>1. \A v \in Wires(f) : w[v] = Star(sub, w)[v]  BY <1>1, LcFacts DEF Star
    <3> QED BY <3>1, EvalSame
  <2>3. \A x \in Wires(f) : x \in Wires(f) \ DOMAIN sub  BY <1>1
  <2> QED BY <2>1, <2>2, <2>3
<1>2. CASE Wires(f) \cap DOMAIN sub # {}
  <2> DEFINE part(v) == IF v \in DOMAIN sub THEN sub[v] ELSE Unit(v)
             cf(x) == [v \in Nat |-> Coef(f, v) * Coef(part(v), x)]
             sum(x) == SumFunction([v \in Wires(f) |-> f[v] * Coef(part(v), x)]) % P
             D == {x \in UNION {Wires(part(v)) : v \in Wires(f)} : sum(x) # 0}
             r == [x \in D |-> sum(x)]
             R == 0 .. n - 1
  <2>1. Substituted(f, sub) = r  BY <1>2 DEF Substituted
  <2>2. R \in SUBSET Nat /\ IsFiniteSet(R) /\ Wires(f) \subseteq R /\ Wires(f) \in SUBSET Nat
        /\ IsFiniteSet(Wires(f))
    BY FS_Interval, LcFacts
  <2>3. ASSUME NEW v \in Nat PROVE part(v) \in LCs(n) \/ (part(v) \in LCs(v + 1) /\ v \notin DOMAIN sub)
    <3>1. CASE v \in DOMAIN sub  BY <3>1 DEF IsSub
    <3>2. CASE v \notin DOMAIN sub
      <4>1. v \in 0 .. (v + 1) - 1 /\ v + 1 \in Nat  OBVIOUS
      <4>2. Unit(v) \in LCs(v + 1)  BY <4>1, UnitFacts
      <4> QED BY <3>2, <4>2
    <3> QED BY <3>1, <3>2
  <2>4. ASSUME NEW v \in Wires(f)
        PROVE  /\ part(v) \in LCs(n) /\ Wires(part(v)) \subseteq R
               /\ v \notin DOMAIN sub => Wires(part(v)) = {v}
               /\ \A w \in Assignments : EvalLc(part(v), w) = Star(sub, w)[v]
    <3>0. v \in Nat /\ v \in 0 .. n - 1  BY LcFacts
    <3>1. CASE v \in DOMAIN sub
      <4>1. part(v) = sub[v] /\ sub[v] \in LCs(n)  BY <3>1 DEF IsSub
      <4>2. Wires(sub[v]) \in SUBSET (0 .. n - 1)  BY <4>1, LcFacts
      <4>3. \A w \in Assignments : Star(sub, w)[v] = EvalLc(sub[v], w)  BY <3>0, <3>1 DEF Star
      <4> HIDE DEF part
      <4> QED BY <3>1, <4>1, <4>2, <4>3
    <3>2. CASE v \notin DOMAIN sub
      <4>1. part(v) = Unit(v)  BY <3>2
      <4>2. \A w \in Assignments : Star(sub, w)[v] = w[v]  BY <3>0, <3>2 DEF Star
      <4>3. Unit(v) \in LCs(n) /\ Wires(Unit(v)) = {v}
            /\ \A w \in Assignments : EvalLc(Unit(v), w) = w[v]
        BY <3>0, UnitFacts
      <4> HIDE DEF part
      <4> QED BY <3>0, <3>2, <4>1, <4>2, <4>3
    <3> QED BY <3>1, <3>2
  <2>5. ASSUME NEW v \in Nat, NEW x \in Nat PROVE Coef(part(v), x) \in Int
    <3> HIDE DEF part
    <3>1. v + 1 \in Nat  OBVIOUS
    <3> QED BY <2>3, <3>1, LcFacts
  <2>6. ASSUME NEW x \in Nat PROVE cf(x) \in [Nat -> Int]
    <3> SUFFICES ASSUME NEW v \in Nat PROVE Coef(f, v) * Coef(part(v), x) \in Int  OBVIOUS
    <3>1. Coef(f, v) \in Int /\ Coef(part(v), x) \in Int
      <4> HIDE DEF part
      <4> QED BY <2>5, LcFacts
    <3> HIDE DEF part
    <3> QED BY <3>1, Z3
  <2>7. ASSUME NEW x \in Nat
        PROVE  sum(x) = Total(Wires(f), cf(x)) % P /\ Total(Wires(f), cf(x)) \in Int
    <3>1. [v \in Wires(f) |-> f[v] * Coef(part(v), x)] = [v \in Wires(f) |-> cf(x)[v]]
      <4>1. ASSUME NEW v \in Wires(f) PROVE f[v] * Coef(part(v), x) = cf(x)[v]
        <5>1. v \in Nat /\ Coef(f, v) = f[v]  BY <2>2 DEF Coef
        <5> HIDE DEF part
        <5> QED BY <5>1
      <4> HIDE DEF part, cf
      <4> QED BY <4>1
    <3>2. Total(Wires(f), cf(x)) \in Int
      <4> HIDE DEF cf
      <4> QED BY <2>2, <2>6, TotalType
    <3> HIDE DEF part
    <3> QED BY <3>1, <3>2 DEF Total
  <2> HIDE DEF part
  <2>8. D \in SUBSET R  BY <2>4
  <2>9. \A x \in Nat : sum(x) \in Field
    <3> HIDE DEF cf, sum
    <3> QED BY <2>7, ModType
  <2>10. r \in LCs(n) /\ Wires(r) = D
    <3>1. r \in [D -> Field] /\ \A x \in D : r[x] # 0
      <4> HIDE DEF cf
      <4>1. \A x \in D : sum(x) # 0 /\ x \in Nat  BY <2>2, <2>8
      <4> HIDE DEF sum, D
      <4> QED BY <2>9, <4>1
    <3>2. Wires(r) = D  BY DEF Wires
    <3> HIDE DEF r, D
    <3> QED BY <2>8, <3>1, <3>2, LcIntro
  <2>11. ASSUME NEW x \in Nat PROVE Coef(r, x) = sum(x)
    <3>1. CASE x \in D
      <4>1. r[x] = sum(x)
        <5> HIDE DEF sum, D
        <5> QED BY <3>1
      <4> HIDE DEF r, D, sum
      <4> QED BY <2>10, <3>1, <4>1 DEF Coef
    <3>2. CASE x \notin D
      <4>1. Coef(r, x) = 0
        <5> HIDE DEF r, D, sum
        <5> QED BY <2>10, <3>2 DEF Coef
      <4>2. CASE x \in UNION {Wires(part(v)) : v \in Wires(f)}
        <5>1. sum(x) = 0  BY <3>2, <4>2
        <5> QED BY <4>1, <5>1
      <4>3. CASE x \notin UNION {Wires(part(v)) : v \in Wires(f)}
        <5>1. ASSUME NEW v \in Wires(f) \ {} PROVE cf(x)[v] = 0
          <6>1. Coef(part(v), x) = 0 /\ v \in Nat /\ Coef(f, v) \in Int
            BY <4>3, <2>2, LcFacts DEF Coef
          <6>2. Coef(f, v) * 0 = 0  BY <6>1
          <6> QED BY <6>1, <6>2
        <5>2. Total(Wires(f), cf(x)) = Total({}, cf(x))
          <6>1. {} \in SUBSET Wires(f)  OBVIOUS
          <6> HIDE DEF cf
          <6> QED BY <2>2, <2>6, <5>1, <6>1, TotalSupport
        <5>3. Total({}, cf(x)) = 0
          <6>1. {} \in SUBSET Nat /\ IsFiniteSet({})  BY FS_EmptySet
          <6> HIDE DEF cf
          <6> QED BY <2>6, <6>1, TotalStep
        <5>4. sum(x) = 0 % P
          <6> HIDE DEF sum, cf
          <6> QED BY <2>7, <5>2, <5>3
        <5>5. 0 % P = 0  BY FieldOps, FieldMod
        <5> HIDE DEF sum, r
        <5> QED BY <4>1, <5>4, <5>5
      <4> QED BY <4>2, <4>3
    <3> QED BY <3>1, <3>2
  <2>12. ASSUME NEW x \in D
         PROVE  \/ x \in Wires(f) \ DOMAIN sub
                \/ \E v \in Wires(f) \cap DOMAIN sub : x \in Wires(sub[v])
    <3>1. PICK v \in Wires(f) : x \in Wires(part(v))  OBVIOUS
    <3>2. CASE v \in DOMAIN sub  BY <3>1, <3>2 DEF part
    <3>3. CASE v \notin DOMAIN sub  BY <2>4, <3>1, <3>3
    <3> QED BY <3>2, <3>3
  <2> HIDE DEF r, D, sum
  <2>13. ASSUME NEW w \in Assignments PROVE EvalLc(r, w) = EvalLc(f, Star(sub, w))
    <3> DEFINE s == Star(sub, w)
               tf == Terms(f, s)
               outer(T) == [x \in Nat |-> Total(T, cf(x)) * w[x]]
               U == {T \in SUBSET Wires(f) : Cong(Total(R, outer(T)), Total(T, tf))}
    <3>1. s \in Assignments  BY StarFacts
    <3>2. tf \in [Nat -> Int]
      <4> HIDE DEF s
      <4> QED BY <3>1, TermsType
    <3>3. ASSUME NEW T \in SUBSET Wires(f)
          PROVE  /\ T \in SUBSET Nat /\ IsFiniteSet(T) /\ outer(T) \in [Nat -> Int]
                 /\ \A x \in Nat : Total(T, cf(x)) \in Int /\ w[x] \in Int
      <4>1. T \in SUBSET Nat /\ IsFiniteSet(T)  BY <2>2, FS_Subset
      <4>2. ASSUME NEW x \in Nat PROVE Total(T, cf(x)) \in Int /\ w[x] \in Int
        <5> HIDE DEF cf
        <5> QED BY <2>6, <4>1, TotalType, AssignmentFacts
      <4>3. ASSUME NEW x \in Nat PROVE Total(T, cf(x)) * w[x] \in Int
        <5> HIDE DEF cf
        <5> QED BY <4>2, Z3
      <4> HIDE DEF cf
      <4> QED BY <4>1, <4>2, <4>3
    <3>4. {} \in U
      <4>0. {} \in SUBSET Wires(f) /\ {} \in SUBSET Nat /\ IsFiniteSet({})  BY FS_EmptySet
      <4>1. ASSUME NEW x \in R \ {} PROVE outer({})[x] = 0
        <5>1. x \in Nat  BY <2>2
        <5>2. Total({}, cf(x)) = 0
          <6> HIDE DEF cf
          <6> QED BY <2>6, <4>0, <5>1, TotalStep
        <5>3. 0 * w[x] = 0
          <6>1. w[x] \in Int  BY <5>1, AssignmentFacts
          <6> QED BY <6>1
        <5> HIDE DEF cf
        <5> QED BY <5>1, <5>2, <5>3
      <4>2. outer({}) \in [Nat -> Int] /\ {} \in SUBSET R  BY <3>3, <4>0
      <4> HIDE DEF outer, R, tf
      <4>3. Total(R, outer({})) = Total({}, outer({})) /\ Total({}, outer({})) = 0
        <5>1. Total(R, outer({})) = Total({}, outer({}))  BY <2>2, <4>1, <4>2, TotalSupport
        <5>2. Total({}, outer({})) = 0  BY <4>0, <4>2, TotalStep
        <5> QED BY <5>1, <5>2
      <4>4. Total({}, tf) = 0  BY <3>2, <4>0, TotalStep
      <4>5. Cong(Total(R, outer({})), Total({}, tf))  BY <4>3, <4>4 DEF Cong
      <4> QED BY <4>0, <4>5
    <3>5. ASSUME NEW T \in SUBSET Wires(f), NEW y \in Wires(f) \ T, T \in U PROVE T \cup {y} \in U
      <4> DEFINE k == Coef(f, y)
                 g == Terms(part(y), w)
                 a == Total(R, outer(T))
                 b == Total(T, tf)
                 c == Total(R, g)
      <4>0. T \cup {y} \in SUBSET Wires(f) /\ y \in Nat /\ y \notin T /\ Cong(a, b)  BY <2>2, <3>5
      <4>1. k \in Int /\ g \in [Nat -> Int]  BY <2>4, <4>0, LcFacts, TermsType
      <4>2. ASSUME NEW x \in R PROVE outer(T \cup {y})[x] = outer(T)[x] + k * g[x]
        <5> DEFINE h == Total(T, cf(x))  m == Coef(part(y), x)  z == w[x]
        <5>0. x \in Nat  BY <2>2
        <5>1. h \in Int /\ m \in Int /\ z \in Int
          <6> HIDE DEF cf
          <6> QED BY <3>3, <2>5, <4>0, <5>0
        <5>2. cf(x)[y] = k * m  BY <4>0
        <5>3. Total(T \cup {y}, cf(x)) = k * m + h
          <6>1. Total(T \cup {y}, cf(x)) = cf(x)[y] + Total(T, cf(x))
            <7> HIDE DEF cf
            <7> QED BY <2>6, <3>3, <4>0, <5>0, TotalAdd
          <6> HIDE DEF cf
          <6> QED BY <5>2, <6>1
        <5>4. g[x] = m * z  BY <5>0 DEF Terms
        <5>5. outer(T)[x] = h * z /\ outer(T \cup {y})[x] = Total(T \cup {y}, cf(x)) * z
          <6> HIDE DEF cf
          <6> QED BY <5>0
        <5> HIDE DEF h, m, z, k, outer, g, cf
        <5>6. (k * m + h) * z = h * z + k * (m * z)  BY <4>1, <5>1, Z3
        <5> QED BY <5>3, <5>4, <5>5, <5>6
      <4>3. outer(T \cup {y}) \in [Nat -> Int] /\ outer(T) \in [Nat -> Int]  BY <3>3, <4>0
      <4> HIDE DEF outer, g, k
      <4>4. Cong(Total(R, outer(T \cup {y})), a + k * c)
        <5>1. \A x \in R : Cong(outer(T \cup {y})[x], outer(T)[x] + k * g[x])  BY <4>2 DEF Cong
        <5> HIDE DEF R
        <5> QED BY <2>2, <4>1, <4>3, <5>1, TotalLinear
      <4>5. a \in Int /\ b \in Int /\ c \in Int /\ Total(R, outer(T \cup {y})) \in Int
        <5> HIDE DEF R, tf
        <5> QED BY <2>2, <3>2, <3>3, <4>1, <4>3, TotalType
      <4>6. Total(T \cup {y}, tf) = tf[y] + b /\ tf[y] = k * s[y] /\ s[y] \in Int
        <5>1. Total(T \cup {y}, tf) = tf[y] + b
          <6> HIDE DEF tf
          <6> QED BY <3>2, <3>3, <4>0, TotalAdd
        <5>2. tf[y] = k * s[y]  BY <4>0 DEF Terms, k
        <5>3. s[y] \in Int
          <6> HIDE DEF s
          <6> QED BY <3>1, <4>0, AssignmentFacts
        <5> QED BY <5>1, <5>2, <5>3
      <4>7. Cong(c, s[y])
        <5>1. EvalLc(part(y), w) = s[y]  BY <2>4
        <5>2. Cong(EvalLc(part(y), w), c)
          <6> HIDE DEF R
          <6> QED BY <2>2, <2>4, EvalTotal DEF g
        <5> QED BY <5>1, <5>2 DEF Cong
      <4> HIDE DEF a, b, c, s, tf
      <4>8. Cong(k * c, k * s[y])
        <5>1. Cong(c * k, s[y] * k)  BY <4>1, <4>5, <4>6, <4>7, CongMulOne
        <5>2. c * k = k * c /\ s[y] * k = k * s[y]  BY <4>1, <4>5, <4>6, Z3
        <5> QED BY <5>1, <5>2
      <4>9. Cong(a + k * c, b + k * s[y])
        <5>1. k * c \in Int /\ k * s[y] \in Int  BY <4>1, <4>5, <4>6, Z3
        <5> QED BY <4>0, <4>5, <4>8, <5>1, CongAdd
      <4>10. Total(T \cup {y}, tf) = b + k * s[y]
        <5>1. k * s[y] \in Int  BY <4>1, <4>6, Z3
        <5> QED BY <4>5, <4>6, <5>1
      <4>11. Cong(Total(R, outer(T \cup {y})), Total(T \cup {y}, tf))
        BY <4>4, <4>9, <4>10 DEF Cong
      <4> QED BY <4>0, <4>11
    <3>6. Wires(f) \in U
      <4> HIDE DEF U
      <4> QED BY <2>2, <3>4, <3>5, FiniteInduction
    <3> DEFINE tr == Terms(r, w)
    <3>7. ASSUME NEW x \in R PROVE Cong(tr[x], outer(Wires(f))[x])
      <4> DEFINE t == Total(Wires(f), cf(x))
      <4>1. x \in Nat /\ t \in Int /\ w[x] \in Int /\ t % P \in Int /\ Cong(t % P, t)
        <5>1. x \in Nat /\ w[x] \in Int  BY <2>2, AssignmentFacts
        <5>2. t \in Int
          <6> HIDE DEF cf
          <6> QED BY <2>7, <5>1
        <5> HIDE DEF t
        <5> QED BY <5>1, <5>2, ModType
      <4>2. tr[x] = (t % P) * w[x]
        <5>1. Coef(r, x) = t % P
          <6> HIDE DEF cf
          <6> QED BY <2>7, <2>11, <4>1
        <5> HIDE DEF t
        <5> QED BY <4>1, <5>1 DEF Terms
      <4>3. outer(Wires(f))[x] = t * w[x]
        <5> HIDE DEF cf
        <5> QED BY <4>1
      <4> HIDE DEF t, tr, outer
      <4>4. Cong((t % P) * w[x], t * w[x])  BY <4>1, CongMulOne
      <4> QED BY <4>2, <4>3, <4>4
    <3>8. tr \in [Nat -> Int] /\ outer(Wires(f)) \in [Nat -> Int]  BY <2>10, <3>3, TermsType
    <3>9. Cong(Total(R, tr), Total(R, outer(Wires(f))))
      <4> HIDE DEF R, tr, outer
      <4> QED BY <2>2, <3>7, <3>8, TotalCong
    <3>10. EvalLc(r, w) = Total(R, tr) % P
      <4>1. Wires(r) \subseteq R  BY <2>8, <2>10
      <4> HIDE DEF R
      <4> QED BY <2>2, <2>10, <4>1, EvalTotal
    <3>11. EvalLc(f, s) = Total(Wires(f), tf) % P
      <4> HIDE DEF s
      <4> QED BY <2>2, <3>1, EvalTotal
    <3>12. Cong(Total(R, outer(Wires(f))), Total(Wires(f), tf))  BY <3>6
    <3> HIDE DEF tr, tf, outer, R
    <3>13. EvalLc(r, w) = EvalLc(f, s)  BY <3>9, <3>10, <3>11, <3>12 DEF Cong
    <3> QED BY <3>13
  <2> QED BY <2>1, <2>10, <2>12, <2>13
<1> QED BY <1>1, <1>2

-----------------------------------------------------------------------------
(***************************************************************************)
(* The solutions of a circuit.  Solutions, which assigns wire by wire,     *)
(* finds all the assignments that satisfy the circuit, and OutputsOf their *)
(* outputs: from here on the proofs speak of Models.                       *)
(***************************************************************************)

\* Constraints on the wires below n.
Constraints(n) == [a : LCs(n), b : LCs(n), c : LCs(n)]
\* A circuit with m inputs: every wire that it names is below next.
WellFormed(c, m) ==
    /\ c.next \in Nat \ {0}
    /\ c.cs \in Seq(Constraints(c.next))
    /\ c.inputs \in [1 .. m -> 1 .. c.next - 1]
    /\ \A i, j \in 1 .. m : c.inputs[i] = c.inputs[j] => i = j
    /\ c.out \in 0 .. c.next - 1

\* w gives the inputs their values.
Matches(c, in, w) == \A i \in DOMAIN in : w[c.inputs[i]] = in[i]
\* The assignments of all wires that satisfy c and have the inputs given.
Models(c, in) == {w \in Assignments : Matches(c, in, w) /\ Satisfied(c, w)}

\* What a constraint is.
LEMMA ConstraintFacts ==
    ASSUME NEW n \in Nat, NEW k \in Constraints(n)
    PROVE  /\ k.a \in LCs(n) /\ k.b \in LCs(n) /\ k.c \in LCs(n)
           /\ Mentioned(k) \subseteq 0 .. n - 1 /\ Mentioned(k) \subseteq Nat
<1>1. k.a \in LCs(n) /\ k.b \in LCs(n) /\ k.c \in LCs(n)  BY DEF Constraints
<1> QED BY <1>1, LcFacts DEF Mentioned

\* A constraint depends on the wires it mentions only.
LEMMA HoldsSame ==
    ASSUME NEW k, NEW w, NEW u, \A v \in Mentioned(k) : w[v] = u[v], Holds(k, w)
    PROVE  Holds(k, u)
<1>1. /\ \A v \in Wires(k.a) : w[v] = u[v]
      /\ \A v \in Wires(k.b) : w[v] = u[v]
      /\ \A v \in Wires(k.c) : w[v] = u[v]
  BY DEF Mentioned
<1>2. EvalLc(k.a, w) = EvalLc(k.a, u) /\ EvalLc(k.b, w) = EvalLc(k.b, u)
      /\ EvalLc(k.c, w) = EvalLc(k.c, u)
  BY <1>1, EvalSame
<1> QED BY <1>2 DEF Holds

\* The assignments of the wires in K that satisfy the constraints on these wires.
Partial(c, in, K) ==
    {f \in [K -> Field] :
        /\ \A v \in Given(c) : f[v] = Start(c, in)[v]
        /\ \A i \in DOMAIN c.cs : Mentioned(c.cs[i]) \subseteq K => Holds(c.cs[i], f)}

\* Start assigns the constant and the inputs.
LEMMA StartFacts ==
    ASSUME NEW m \in Nat, NEW c, WellFormed(c, m), NEW in \in [1 .. m -> Field]
    PROVE  /\ Start(c, in) \in [Given(c) -> Field]
           /\ Start(c, in)[0] = 1
           /\ \A i \in 1 .. m : c.inputs[i] \in Given(c) /\ Start(c, in)[c.inputs[i]] = in[i]
           /\ Given(c) \subseteq 0 .. c.next - 1 /\ 0 \in Given(c)
           /\ \A v \in Given(c) : v = 0 \/ \E i \in 1 .. m : v = c.inputs[i]
<1>1. /\ DOMAIN in = 1 .. m /\ DOMAIN c.inputs = 1 .. m
      /\ \A i \in 1 .. m : c.inputs[i] \in 1 .. c.next - 1 /\ c.inputs[i] \in Nat /\ c.inputs[i] # 0
      /\ \A i, j \in 1 .. m : c.inputs[i] = c.inputs[j] => i = j
      /\ c.next \in Nat \ {0}
  BY DEF WellFormed
<1>2. Given(c) = {0} \cup {c.inputs[i] : i \in 1 .. m}  BY <1>1 DEF Given, Range
<1> DEFINE at(v) == CHOOSE i \in DOMAIN in : c.inputs[i] = v
<1>3. \A i \in 1 .. m : at(c.inputs[i]) = i  BY <1>1
<1>4. Start(c, in) = [v \in Given(c) |-> IF v = 0 THEN 1 ELSE in[at(v)]]  BY DEF Start
<1> HIDE DEF at
<1>5. ASSUME NEW v \in Given(c) PROVE (IF v = 0 THEN 1 ELSE in[at(v)]) \in Field
  BY <1>2, <1>3, FieldOps
<1>6. \A i \in 1 .. m : c.inputs[i] \in Given(c) /\ Start(c, in)[c.inputs[i]] = in[i]
  BY <1>1, <1>2, <1>3, <1>4
<1>7. Start(c, in) \in [Given(c) -> Field]  BY <1>4, <1>5
<1>8. Start(c, in)[0] = 1 /\ 0 \in Given(c)  BY <1>2, <1>4
<1>9. Given(c) \subseteq 0 .. c.next - 1  BY <1>1, <1>2
<1> QED BY <1>2, <1>6, <1>7, <1>8, <1>9

\* NextWire gives a wire that has no value yet.
LEMMA NextWireFacts ==
    ASSUME NEW m \in Nat, NEW c, WellFormed(c, m), NEW K \in SUBSET (0 .. c.next - 1), K # 0 .. c.next - 1
    PROVE  NextWire(c, K) \in (0 .. c.next - 1) \ K
<1> DEFINE open == (0 .. c.next - 1) \ K
           tied == {w \in open : \E i \in DOMAIN c.cs :
                       w \in Mentioned(c.cs[i]) /\ Mentioned(c.cs[i]) \subseteq K \cup {w}}
           T == IF tied # {} THEN tied ELSE open
<1>1. c.next \in Nat  BY DEF WellFormed
<1>2. T \subseteq open /\ T # {} /\ T \subseteq Nat
  <2>1. tied \subseteq open  OBVIOUS
  <2>2. open # {} /\ open \subseteq Nat
    <3> DEFINE W == 0 .. c.next - 1
    <3>1. W \subseteq Nat /\ K \subseteq W /\ K # W  BY <1>1
    <3>2. open = W \ K  OBVIOUS
    <3> HIDE DEF W, open
    <3> QED BY <3>1, <3>2
  <2> HIDE DEF tied, open
  <2> QED BY <2>1, <2>2
<1>3. NextWire(c, K) = Min(T)  BY DEF NextWire
<1> HIDE DEF T
<1>4. Min(T) \in T  BY <1>2, LeastOf
<1> QED BY <1>2, <1>3, <1>4

\* One more wire.
LEMMA AssignNextFacts ==
    ASSUME NEW m \in Nat, NEW c, WellFormed(c, m), NEW in \in [1 .. m -> Field],
           NEW K \in SUBSET (0 .. c.next - 1), K # 0 .. c.next - 1, Given(c) \subseteq K
    PROVE  AssignNext(c, [known |-> K, sols |-> Partial(c, in, K)]) =
              [known |-> K \cup {NextWire(c, K)},
               sols |-> Partial(c, in, K \cup {NextWire(c, K)})]
<1> DEFINE x == NextWire(c, K)
           L0 == K \cup {x}
           extend(v, f) == [w \in L0 |-> IF w = x THEN v ELSE f[w]]
           extended == {extend(v, f) : v \in Field, f \in Partial(c, in, K)}
           fit == {f \in extended : Fits(c, f, {x}, L0)}
<1>1. AssignNext(c, [known |-> K, sols |-> Partial(c, in, K)]) = [known |-> L0, sols |-> fit]
  BY DEF AssignNext
<1>2. x \notin K /\ x # 0 /\ x \notin Given(c) /\ 0 \in K
  <2>1. x \notin K  BY NextWireFacts
  <2>2. 0 \in Given(c)  BY StartFacts
  <2> HIDE DEF x
  <2> QED BY <2>1, <2>2
<1>3. ASSUME NEW f, f \in fit PROVE f \in Partial(c, in, L0)
  <2>0. f \in extended
    <3> HIDE DEF extended
    <3> QED BY <1>3
  <2>1. PICK v \in Field, g \in Partial(c, in, K) : f = extend(v, g)
    <3> HIDE DEF extend
    <3> QED BY <2>0
  <2>2. Fits(c, f, {x}, L0)  BY <1>3
  <2>3. g \in [K -> Field] /\ \A u \in Given(c) : g[u] = Start(c, in)[u]  BY DEF Partial
  <2>4. f \in [L0 -> Field] /\ \A u \in K : f[u] = g[u]
    <3>1. \A w \in L0 : (IF w = x THEN v ELSE g[w]) \in Field  BY <2>3
    <3> HIDE DEF x
    <3> QED BY <2>1, <3>1, <1>2
  <2>5. \A u \in Given(c) : f[u] = Start(c, in)[u]  BY <2>3, <2>4
  <2>6. ASSUME NEW i \in DOMAIN c.cs, Mentioned(c.cs[i]) \subseteq L0 PROVE Holds(c.cs[i], f)
    <3>1. CASE x \in Mentioned(c.cs[i])
      <4>1. Mentioned(c.cs[i]) \cap {x} # {}  BY <3>1
      <4> HIDE DEF x, L0
      <4> QED BY <2>2, <2>6, <4>1 DEF Fits
    <3>2. CASE x \notin Mentioned(c.cs[i])
      <4>1. Mentioned(c.cs[i]) \subseteq K  BY <2>6, <3>2
      <4>2. Holds(c.cs[i], g)  BY <4>1 DEF Partial
      <4>3. \A u \in Mentioned(c.cs[i]) : g[u] = f[u]  BY <2>4, <4>1
      <4> QED BY <4>2, <4>3, HoldsSame
    <3> QED BY <3>1, <3>2
  <2> HIDE DEF L0, x
  <2> QED BY <2>4, <2>5, <2>6 DEF Partial
<1>4. ASSUME NEW f \in Partial(c, in, L0) PROVE f \in fit
  <2> DEFINE g == [w \in K |-> f[w]]
  <2>1. f \in [L0 -> Field] /\ \A u \in Given(c) : f[u] = Start(c, in)[u]  BY DEF Partial
  <2>2. \A i \in DOMAIN c.cs : Mentioned(c.cs[i]) \subseteq L0 => Holds(c.cs[i], f)
    BY DEF Partial
  <2>3. g \in [K -> Field] /\ \A u \in K : g[u] = f[u]  BY <2>1
  <2>4. g \in Partial(c, in, K)
    <3>1. \A u \in Given(c) : g[u] = Start(c, in)[u]  BY <2>1
    <3>2. ASSUME NEW i \in DOMAIN c.cs, Mentioned(c.cs[i]) \subseteq K PROVE Holds(c.cs[i], g)
      <4>1. Holds(c.cs[i], f)
        <5>1. Mentioned(c.cs[i]) \subseteq L0  BY <3>2
        <5> HIDE DEF L0
        <5> QED BY <2>2, <5>1
      <4>2. \A u \in Mentioned(c.cs[i]) : f[u] = g[u]  BY <3>2
      <4> HIDE DEF g
      <4> QED BY <4>1, <4>2, HoldsSame
    <3> HIDE DEF g
    <3> QED BY <2>3, <3>1, <3>2 DEF Partial
  <2>5. f = extend(f[x], g) /\ f[x] \in Field
    <3>1. f[x] \in Field  BY <2>1
    <3>2. \A w \in L0 : f[w] = IF w = x THEN f[x] ELSE g[w]  BY <2>3
    <3>3. f = [w \in L0 |-> f[w]]
      <4> HIDE DEF L0
      <4> QED BY <2>1
    <3> HIDE DEF L0, g
    <3> QED BY <3>1, <3>2, <3>3
  <2>6. f \in extended
    <3> HIDE DEF extend, g, x
    <3> QED BY <2>4, <2>5
  <2>7. Fits(c, f, {x}, L0)
    <3> HIDE DEF L0, x
    <3> QED BY <2>2 DEF Fits
  <2> HIDE DEF extended
  <2> QED BY <2>6, <2>7
<1>5. fit = Partial(c, in, L0)
  <2> HIDE DEF fit, L0
  <2> QED BY <1>3, <1>4
<1> HIDE DEF fit
<1> QED BY <1>1, <1>5

\* Solutions, which assigns wire by wire, finds the assignments that satisfy c.
LEMMA SolutionsFacts ==
    ASSUME NEW m \in Nat, NEW c, WellFormed(c, m), NEW in \in [1 .. m -> Field]
    PROVE  Solutions(c, in) = Partial(c, in, 0 .. c.next - 1)
<1> DEFINE W == 0 .. c.next - 1
           n == Cardinality(W \ Given(c))
           S0 == [known |-> Given(c),
                  sols |-> {f \in {Start(c, in)} : Fits(c, f, {0}, Given(c))}]
           At(K) == [known |-> K, sols |-> Partial(c, in, K)]
           Ks == {K \in SUBSET W : Given(c) \subseteq K}
           X == {At(K) : K \in Ks}
           next(s) == IF s.known = W THEN s ELSE AssignNext(c, s)
           G == [i \in Nat |-> [s \in X |-> next(s)]]
           Solves(g) == g = [i \in 0 .. n |-> IF i = 0 THEN S0 ELSE AssignNext(c, g[i - 1])]
           found == CHOOSE g : Solves(g)
<1>1. Solutions(c, in) = found[n].sols  BY Zenon DEF Solutions
<1>2. /\ IsFiniteSet(W) /\ n \in Nat /\ Given(c) \in SUBSET W /\ IsFiniteSet(Given(c))
      /\ Cardinality(W) = Cardinality(Given(c)) + n /\ Cardinality(Given(c)) \in Nat
  <2>1. IsFiniteSet(W)
    <3>1. 0 \in Int /\ c.next - 1 \in Int  BY DEF WellFormed
    <3> QED BY <3>1, FS_Interval
  <2>2. Given(c) \in SUBSET W  BY StartFacts
  <2>3. IsFiniteSet(Given(c)) /\ IsFiniteSet(W \ Given(c))  BY <2>1, <2>2, FS_Subset
  <2> HIDE DEF W
  <2>4. n = Cardinality(W) - Cardinality(W \cap Given(c)) /\ W \cap Given(c) = Given(c)
    BY <2>1, <2>2, FS_Difference
  <2>5. n \in Nat /\ Cardinality(W) \in Nat /\ Cardinality(Given(c)) \in Nat
    BY <2>1, <2>3, FS_CardinalityType
  <2>6. n = Cardinality(W) - Cardinality(Given(c))  BY <2>4
  <2> HIDE DEF n
  <2>7. Cardinality(W) = Cardinality(Given(c)) + n  BY <2>5, <2>6
  <2> QED BY <2>7, <2>1, <2>2, <2>3, <2>4, <2>5
<1>3. S0 = At(Given(c))
  <2>1. \A f : f \in {g \in {Start(c, in)} : Fits(c, g, {0}, Given(c))} <=> f \in Partial(c, in, Given(c))
    <3> TAKE f
    <3>1. f \in Partial(c, in, Given(c)) => f = Start(c, in)  BY StartFacts DEF Partial
    <3>2. Start(c, in) \in Partial(c, in, Given(c)) <=>
             \A i \in DOMAIN c.cs : Mentioned(c.cs[i]) \subseteq Given(c) => Holds(c.cs[i], Start(c, in))
      BY StartFacts DEF Partial
    <3>3. Fits(c, Start(c, in), {0}, Given(c)) <=>
             \A i \in DOMAIN c.cs : Mentioned(c.cs[i]) \subseteq Given(c) => Holds(c.cs[i], Start(c, in))
      BY DEF Fits
    <3> QED BY <3>1, <3>2, <3>3
  <2>2. {f \in {Start(c, in)} : Fits(c, f, {0}, Given(c))} = Partial(c, in, Given(c))  BY <2>1
  <2> QED BY <2>2
<1> HIDE DEF S0
<1>4. ASSUME NEW K \in Ks
      PROVE  /\ At(K) \in X /\ At(K).known = K
             /\ next(At(K)) \in X
             /\ K # W => /\ next(At(K)) = AssignNext(c, At(K))
                         /\ next(At(K)).known \in Ks
                         /\ Cardinality(next(At(K)).known) = Cardinality(K) + 1
                         /\ next(At(K)) = At(next(At(K)).known)
  <2>1. At(K) \in X /\ At(K).known = K  OBVIOUS
  <2>2. CASE K = W
    <3>1. next(At(K)) = At(K)  BY <2>1, <2>2
    <3> HIDE DEF At, next
    <3> QED BY <2>1, <2>2, <3>1
  <2>3. CASE K # W
    <3> DEFINE Q == K \cup {NextWire(c, K)}
    <3>1. NextWire(c, K) \in W \ K /\ AssignNext(c, At(K)) = At(Q)
      BY <2>3, NextWireFacts, AssignNextFacts
    <3>2. Q \in Ks /\ Cardinality(Q) = Cardinality(K) + 1
      <4>1. IsFiniteSet(K)
        <5> HIDE DEF W
        <5> QED BY <1>2, FS_Subset
      <4>2. Cardinality(Q) = Cardinality(K) + 1
        <5>1. NextWire(c, K) \notin K  BY <3>1
        <5> QED BY <4>1, <5>1, FS_AddElement
      <4>3. Q \in Ks
        <5> HIDE DEF W
        <5> QED BY <3>1
      <4> QED BY <4>2, <4>3
    <3>3. next(At(K)) = At(Q)  BY <2>1, <2>3, <3>1
    <3>4. At(Q).known = Q /\ At(Q) \in X
      <4> HIDE DEF Q, Ks
      <4> QED BY <3>2
    <3> HIDE DEF At, next, Q, Ks, X
    <3> QED BY <2>1, <2>3, <3>1, <3>2, <3>3, <3>4
  <2> QED BY <2>2, <2>3
<1> HIDE DEF At, next
<1>5. PICK F \in [Nat -> X] : Iterates(F, S0, G)
  <2>1. S0 \in X
    <3>1. Given(c) \in Ks  BY <1>2
    <3> HIDE DEF Ks
    <3> QED BY <1>3, <3>1
  <2>2. G \in [Nat -> [X -> X]]
    <3>1. ASSUME NEW s \in X PROVE next(s) \in X
      <4>1. PICK K \in Ks : s = At(K)  OBVIOUS
      <4> HIDE DEF X, Ks
      <4> QED BY <1>4, <4>1
    <3> HIDE DEF X
    <3> QED BY <3>1
  <2> HIDE DEF X, G
  <2> QED BY <2>1, <2>2, Recursion
<1>6. \A i \in Nat : F[i] \in X /\ F[i + 1] = next(F[i])
  <2> SUFFICES ASSUME NEW i \in Nat PROVE F[i] \in X /\ F[i + 1] = next(F[i])  OBVIOUS
  <2>1. F[i] \in X /\ F[i + 1] = G[i + 1][F[i]]
    <3> HIDE DEF X, G
    <3> QED BY <1>5 DEF Iterates
  <2>2. i + 1 \in Nat  OBVIOUS
  <2> HIDE DEF X
  <2> QED BY <2>1, <2>2
<1> DEFINE A == {i \in Nat : i <= n => \E K \in Ks : F[i] = At(K) /\ Cardinality(K) = Cardinality(Given(c)) + i}
<1>7. A = Nat
  <2>1. 0 \in A
    <3>1. F[0] = S0  BY <1>5 DEF Iterates
    <3>2. Given(c) \in Ks /\ F[0] = At(Given(c)) /\ Cardinality(Given(c)) = Cardinality(Given(c)) + 0
      BY <1>2, <1>3, <3>1
    <3> HIDE DEF Ks, n
    <3> QED BY <3>2
  <2>2. ASSUME NEW i \in A PROVE i + 1 \in A
    <3> SUFFICES ASSUME i + 1 <= n
                 PROVE  \E K \in Ks : F[i + 1] = At(K) /\ Cardinality(K) = Cardinality(Given(c)) + (i + 1)
      OBVIOUS
    <3>1. i <= n /\ i \in Nat  BY <1>2
    <3>2. PICK K \in Ks : F[i] = At(K) /\ Cardinality(K) = Cardinality(Given(c)) + i  BY <3>1
    <3>3. K # W
      <4> HIDE DEF n, W
      <4> QED BY <1>2, <3>1, <3>2
    <3>4. F[i + 1] = next(At(K))  BY <1>6, <3>1, <3>2
    <3> DEFINE Q == next(At(K)).known
    <3>5. Q \in Ks /\ Cardinality(Q) = Cardinality(K) + 1 /\ next(At(K)) = At(Q)  BY <1>4, <3>3
    <3> HIDE DEF Q, Ks, n
    <3>6. Cardinality(Q) = Cardinality(Given(c)) + (i + 1) /\ F[i + 1] = At(Q)
      BY <1>2, <3>1, <3>2, <3>4, <3>5
    <3> QED BY <3>5, <3>6
  <2>3. A \subseteq Nat  OBVIOUS
  <2> HIDE DEF A
  <2> QED BY <2>1, <2>2, <2>3, SetInduction
<1>8. \A i \in Nat : i <= n => \E K \in Ks : F[i] = At(K) /\ Cardinality(K) = Cardinality(Given(c)) + i
  BY <1>7
<1> HIDE DEF A
<1> DEFINE g == [i \in 0 .. n |-> F[i]]
<1>9. Solves(g)
  <2> SUFFICES ASSUME NEW i \in 0 .. n PROVE F[i] = IF i = 0 THEN S0 ELSE AssignNext(c, g[i - 1])
    BY Zenon
  <2>1. CASE i = 0  BY <1>5, <2>1 DEF Iterates
  <2>2. CASE i # 0
    <3> DEFINE j == i - 1
    <3>1. j \in Nat /\ j <= n /\ j < n /\ j + 1 = i /\ j \in 0 .. n
      <4> HIDE DEF n
      <4> QED BY <1>2, <2>2
    <3> HIDE DEF j
    <3>2. PICK K \in Ks : F[j] = At(K) /\ Cardinality(K) = Cardinality(Given(c)) + j
      BY <1>8, <3>1
    <3>3. K # W
      <4> HIDE DEF n, W
      <4> QED BY <1>2, <3>1, <3>2
    <3>4. F[i] = AssignNext(c, F[j])
      <4>1. F[j + 1] = next(F[j])  BY <1>6, <3>1
      <4>2. next(At(K)) = AssignNext(c, At(K))  BY <1>4, <3>3
      <4> QED BY <3>1, <3>2, <4>1, <4>2
    <3>5. g[i - 1] = F[j]
      <4> HIDE DEF n
      <4> QED BY <3>1 DEF j
    <3> HIDE DEF g
    <3> QED BY <2>2, <3>4, <3>5
  <2> QED BY <2>1, <2>2
<1>10. Solves(found)
  <2> HIDE DEF Solves, g
  <2> QED BY <1>9
<1> HIDE DEF found
<1>11. \A i \in 0 .. n : found[i] = IF i = 0 THEN S0 ELSE AssignNext(c, found[i - 1])
  <2> HIDE DEF n
  <2> QED BY <1>10
<1> DEFINE B == {i \in Nat : i <= n => \E K \in Ks : found[i] = At(K) /\ Cardinality(K) = Cardinality(Given(c)) + i}
<1>12. B = Nat
  <2>1. 0 \in B
    <3>1. found[0] = S0
      <4>1. 0 \in 0 .. n  BY <1>2
      <4> HIDE DEF n
      <4> QED BY <1>11, <4>1
    <3>2. Given(c) \in Ks /\ found[0] = At(Given(c)) /\ Cardinality(Given(c)) = Cardinality(Given(c)) + 0
      BY <1>2, <1>3, <3>1
    <3> HIDE DEF Ks, n
    <3> QED BY <3>2
  <2>2. ASSUME NEW i \in B PROVE i + 1 \in B
    <3> SUFFICES ASSUME i + 1 <= n
                 PROVE  \E K \in Ks : found[i + 1] = At(K) /\ Cardinality(K) = Cardinality(Given(c)) + (i + 1)
      OBVIOUS
    <3>1. i <= n /\ i \in Nat /\ i + 1 \in 0 .. n /\ (i + 1) - 1 = i /\ i + 1 # 0
      <4>1. n \in Nat /\ i \in Nat  BY <1>2
      <4> HIDE DEF n, B
      <4> QED BY <4>1
    <3>2. PICK K \in Ks : found[i] = At(K) /\ Cardinality(K) = Cardinality(Given(c)) + i  BY <3>1
    <3>3. K # W
      <4> HIDE DEF n, W
      <4> QED BY <1>2, <3>1, <3>2
    <3>4. found[i + 1] = next(At(K))
      <4>1. found[i + 1] = AssignNext(c, found[(i + 1) - 1])
        <5> HIDE DEF n, B
        <5> QED BY <1>11, <3>1
      <4>2. next(At(K)) = AssignNext(c, At(K))  BY <1>4, <3>3
      <4> QED BY <3>1, <3>2, <4>1, <4>2
    <3> DEFINE Q == next(At(K)).known
    <3>5. Q \in Ks /\ Cardinality(Q) = Cardinality(K) + 1 /\ next(At(K)) = At(Q)  BY <1>4, <3>3
    <3> HIDE DEF Q, Ks, n
    <3>6. Cardinality(Q) = Cardinality(Given(c)) + (i + 1) /\ found[i + 1] = At(Q)
      BY <1>2, <3>1, <3>2, <3>4, <3>5
    <3> QED BY <3>5, <3>6
  <2>3. B \subseteq Nat  OBVIOUS
  <2> HIDE DEF B
  <2> QED BY <2>1, <2>2, <2>3, SetInduction
<1>13. PICK K \in Ks : found[n] = At(K) /\ Cardinality(K) = Cardinality(Given(c)) + n
  <2>1. n \in Nat  BY <1>2
  <2>2. n \in B  BY <1>12, <2>1
  <2>3. n <= n
    <3> HIDE DEF n
    <3> QED BY <2>1
  <2> QED BY <2>2, <2>3
<1>14. K = W
  <2> HIDE DEF W, n
  <2>1. K \in SUBSET W  OBVIOUS
  <2> QED BY <1>2, <1>13, <2>1, FS_Subset
<1>15. found[n].sols = Partial(c, in, W)
  <2> HIDE DEF W, n
  <2> QED BY <1>13, <1>14 DEF At
<1> QED BY <1>1, <1>15

\* OutputsOf, found wire by wire, is the set of the outputs of all the assignments that
\* satisfy the circuit with the inputs given.
THEOREM OutputsFacts ==
    ASSUME NEW m \in Nat, NEW c, WellFormed(c, m), NEW in \in [1 .. m -> Field]
    PROVE  OutputsOf(c, in) = {IF c.out = NoWire THEN 0 ELSE w[c.out] : w \in Models(c, in)}
<1> DEFINE W == 0 .. c.next - 1
           sols == Partial(c, in, W)
<1>0. /\ c.next \in Nat \ {0} /\ c.out \in W /\ DOMAIN in = 1 .. m
      /\ \A i \in DOMAIN c.cs : Mentioned(c.cs[i]) \subseteq W
      /\ \A i \in 1 .. m : c.inputs[i] \in W
  <2>1. c.next \in Nat \ {0} /\ c.out \in W /\ DOMAIN in = 1 .. m /\ c.inputs \in [1 .. m -> 1 .. c.next - 1]
        /\ c.cs \in Seq(Constraints(c.next))
    BY DEF WellFormed
  <2>2. \A i \in DOMAIN c.cs : c.cs[i] \in Constraints(c.next)  BY <2>1
  <2> QED BY <2>1, <2>2, ConstraintFacts
<1>1. ASSUME NEW w \in Models(c, in) PROVE \E f \in sols : f[c.out] = w[c.out]
  <2> DEFINE f == [v \in W |-> w[v]]
  <2>1. w \in [Nat -> Field] /\ w[0] = 1 /\ Matches(c, in, w) /\ Satisfied(c, w)
    BY DEF Models, Assignments
  <2>2. f \in [W -> Field] /\ \A v \in W : f[v] = w[v]  BY <1>0, <2>1
  <2> HIDE DEF f
  <2>3. ASSUME NEW v \in Given(c) PROVE f[v] = Start(c, in)[v]
    <3>1. CASE v = 0  BY <1>0, <2>1, <2>2, <3>1, StartFacts
    <3>2. ASSUME NEW i \in 1 .. m, v = c.inputs[i] PROVE f[v] = Start(c, in)[v]
      <4>1. w[v] = in[i]  BY <1>0, <2>1, <3>2 DEF Matches
      <4>2. Start(c, in)[c.inputs[i]] = in[i]  BY StartFacts
      <4>3. f[v] = w[v]  BY <1>0, <2>2, <3>2
      <4> QED BY <3>2, <4>1, <4>2, <4>3
    <3> QED BY <3>1, <3>2, StartFacts
  <2>4. ASSUME NEW i \in DOMAIN c.cs PROVE Holds(c.cs[i], f)
    <3>1. Holds(c.cs[i], w) /\ \A v \in Mentioned(c.cs[i]) : w[v] = f[v]
      BY <1>0, <2>1, <2>2 DEF Satisfied
    <3> QED BY <3>1, HoldsSame
  <2>5. f \in sols
    <3> HIDE DEF W
    <3> QED BY <2>2, <2>3, <2>4 DEF Partial
  <2> HIDE DEF sols
  <2> QED BY <1>0, <2>2, <2>5
<1>2. ASSUME NEW f \in sols PROVE \E w \in Models(c, in) : f[c.out] = w[c.out]
  <2> DEFINE w == [v \in Nat |-> IF v \in W THEN f[v] ELSE 0]
  <2>1. f \in [W -> Field] /\ \A v \in Given(c) : f[v] = Start(c, in)[v]
    <3> HIDE DEF W
    <3> QED BY DEF Partial
  <2>2. w \in [Nat -> Field] /\ \A v \in W : w[v] = f[v]
    <3>1. \A v \in Nat : (IF v \in W THEN f[v] ELSE 0) \in Field
      <4> HIDE DEF W
      <4> QED BY <2>1, FieldOps
    <3> QED BY <3>1, <1>0
  <2> HIDE DEF w
  <2>3. w[0] = 1 /\ Matches(c, in, w)
    <3>0. /\ Start(c, in)[0] = 1 /\ 0 \in Given(c) /\ 0 \in W
          /\ \A i \in 1 .. m : c.inputs[i] \in Given(c) /\ Start(c, in)[c.inputs[i]] = in[i]
      <4>1. 0 \in W  BY <1>0
      <4> HIDE DEF W, sols
      <4> QED BY <4>1, StartFacts
    <3> HIDE DEF W, sols
    <3>1. w[0] = 1  BY <2>1, <2>2, <3>0
    <3>2. ASSUME NEW i \in 1 .. m PROVE w[c.inputs[i]] = in[i]  BY <1>0, <2>1, <2>2, <3>0
    <3> QED BY <1>0, <3>1, <3>2 DEF Matches
  <2>4. Satisfied(c, w)
    <3> SUFFICES ASSUME NEW i \in DOMAIN c.cs PROVE Holds(c.cs[i], w)  BY DEF Satisfied
    <3>1. Holds(c.cs[i], f) /\ \A v \in Mentioned(c.cs[i]) : f[v] = w[v]
      <4>1. Mentioned(c.cs[i]) \subseteq W  BY <1>0
      <4> HIDE DEF W
      <4> QED BY <2>2, <4>1 DEF Partial
    <3> QED BY <3>1, HoldsSame
  <2>5. w \in Models(c, in)  BY <2>2, <2>3, <2>4 DEF Models, Assignments
  <2> QED BY <1>0, <2>2, <2>5
<1>3. OutputsOf(c, in) = {IF c.out = NoWire THEN 0 ELSE f[c.out] : f \in sols}
  BY SolutionsFacts DEF OutputsOf
<1> HIDE DEF sols
<1> QED BY <1>1, <1>2, <1>3

-----------------------------------------------------------------------------
(***************************************************************************)
(* What a constraint says of one wire.                                     *)
(***************************************************************************)

\* A constant linear combination has one value.
LEMMA IsConstFacts ==
    ASSUME NEW n \in Nat, NEW f \in LCs(n), IsConst(f), NEW w \in Assignments
    PROVE  EvalLc(f, w) = Coef(f, 0) /\ Coef(f, 0) \in Field
<1>1. Coef(f, 0) \in Field  BY LcFacts
<1>2. CASE 0 \in Wires(f)
  <2>1. Wires(f) = {0} /\ f \in [Wires(f) -> 1 .. P - 1] /\ f[0] \in Field /\ f[0] # 0
        /\ 0 \in 0 .. n - 1
    BY <1>2, LcFacts DEF IsConst
  <2>2. f = Mapping(0, f[0])  BY <2>1 DEF Mapping
  <2>3. EvalLc(Mapping(0, f[0]), w) = Times(f[0], w[0])  BY <2>1, MappingFacts
  <2>4. w[0] = 1 /\ Times(f[0], 1) = f[0]  BY <2>1, AssignmentFacts, FieldRing
  <2> QED BY <1>1, <1>2, <2>2, <2>3, <2>4 DEF Coef
<1>3. CASE 0 \notin Wires(f)
  <2>1. Wires(f) = {} /\ f \in [Wires(f) -> 1 .. P - 1]  BY <1>3, LcFacts DEF IsConst
  <2>2. f = Zero  BY <2>1 DEF Zero
  <2> QED BY <1>1, <1>3, <2>2, EvalZero DEF Coef
<1> QED BY <1>2, <1>3

\* One of the wires taken out.
LEMMA SplitFacts ==
    ASSUME NEW n \in Nat, NEW f \in LCs(n), NEW u \in Wires(f)
    PROVE  LET rest == [v \in Wires(f) \ {u} |-> f[v]]
           IN  /\ rest \in LCs(n) /\ Wires(rest) = Wires(f) \ {u}
               /\ \A w \in Assignments :
                     EvalLc(f, w) = Plus(Times(f[u], w[u]), EvalLc(rest, w))
<1> DEFINE D == Wires(f) \ {u}
           rest == [v \in D |-> f[v]]
<1>1. rest \in LCs(n) /\ Wires(rest) = D
  <2>1. D \in SUBSET (0 .. n - 1) /\ rest \in [D -> Field] /\ \A v \in D : rest[v] # 0  BY LcFacts
  <2>2. Wires(rest) = D  BY DEF Wires
  <2> HIDE DEF rest, D
  <2> QED BY <2>1, <2>2, LcIntro
<1>2. ASSUME NEW w \in Assignments
      PROVE  EvalLc(f, w) = Plus(Times(f[u], w[u]), EvalLc(rest, w))
  <2> DEFINE t == Terms(f, w)  r == Terms(rest, w)
  <2>1. D \in SUBSET Nat /\ IsFiniteSet(D) /\ Wires(f) \in SUBSET Nat /\ IsFiniteSet(Wires(f))
        /\ u \in Nat /\ u \notin D /\ D \cup {u} = Wires(f)
    <3>1. Wires(f) \in SUBSET Nat /\ IsFiniteSet(Wires(f))  BY LcFacts
    <3>2. IsFiniteSet(D)  BY <3>1, FS_Subset
    <3> QED BY <3>1, <3>2
  <2>2. \A v \in D : t[v] = r[v]
    <3> SUFFICES ASSUME NEW v \in D PROVE t[v] = r[v]  OBVIOUS
    <3>1. v \in Nat /\ v \in Wires(f) /\ v \in Wires(rest) /\ rest[v] = f[v]  BY <1>1, <2>1
    <3> HIDE DEF rest
    <3> QED BY <3>1 DEF Terms, Coef
  <2>3. t \in [Nat -> Int] /\ r \in [Nat -> Int]
    <3> HIDE DEF rest
    <3> QED BY <1>1, TermsType
  <2>4. t[u] = f[u] * w[u]  BY <2>1 DEF Terms, Coef
  <2> HIDE DEF t, r
  <2>5. Total(D, t) = Total(D, r) /\ Total(D, r) \in Int
    <3>1. [v \in D |-> t[v]] = [v \in D |-> r[v]]  BY <2>2
    <3>2. Total(D, t) = Total(D, r)  BY <3>1 DEF Total
    <3> HIDE DEF D
    <3> QED BY <2>1, <2>3, <3>2, TotalType
  <2>6. Total(Wires(f), t) = f[u] * w[u] + Total(D, r)
    <3> HIDE DEF D
    <3> QED BY <2>1, <2>3, <2>4, <2>5, TotalAdd
  <2>7. EvalLc(f, w) = Total(Wires(f), t) % P  BY <2>1, EvalTotal DEF t
  <2>8. EvalLc(rest, w) = Total(D, r) % P
    <3> HIDE DEF rest, D
    <3> QED BY <1>1, <2>1, EvalTotal DEF r
  <2>9. f[u] * w[u] \in Int /\ f[u] \in Int /\ w[u] \in Int
    <3>1. f[u] \in Int /\ w[u] \in Int  BY <2>1, LcFacts, AssignmentFacts
    <3> QED BY <3>1, Z3
  <2> HIDE DEF rest, D
  <2>10. (f[u] * w[u] + Total(D, r)) % P = Plus((f[u] * w[u]) % P, Total(D, r) % P)
    BY <2>5, <2>9, ModAdd
  <2> QED BY <2>6, <2>7, <2>8, <2>10 DEF Times
<1> QED BY <1>1, <1>2

\* A linear combination of one wire.
LEMMA SingleFacts ==
    ASSUME NEW n \in Nat, NEW f \in LCs(n), Cardinality(Wires(f)) = 1
    PROVE  /\ Wires(f) = {SoleWire(f)} /\ SoleWire(f) \in Wires(f)
           /\ f[SoleWire(f)] \in Field /\ f[SoleWire(f)] # 0
           /\ \A w \in Assignments : EvalLc(f, w) = Times(f[SoleWire(f)], w[SoleWire(f)])
<1> DEFINE u == SoleWire(f)
<1>1. PICK x : Wires(f) = {x}  BY LcFacts, FS_Singleton
<1>2. u = x  BY <1>1 DEF SoleWire
<1> HIDE DEF u
<1>3. f[u] \in Field /\ f[u] # 0 /\ u \in 0 .. n - 1 /\ f = Mapping(u, f[u])
  <2>1. f \in [Wires(f) -> 1 .. P - 1] /\ f[u] \in Field /\ f[u] # 0 /\ u \in 0 .. n - 1
    BY <1>1, <1>2, LcFacts
  <2> QED BY <1>1, <1>2, <2>1 DEF Mapping
<1>4. \A w \in Assignments : EvalLc(Mapping(u, f[u]), w) = Times(f[u], w[u])
  BY <1>3, MappingFacts
<1>5. \A w \in Assignments : EvalLc(f, w) = Times(f[u], w[u])  BY <1>3, <1>4
<1> QED BY <1>1, <1>2, <1>3, <1>5 DEF u

\* A linear combination that is a wire.
LEMMA IsUnitFacts ==
    ASSUME NEW n \in Nat, NEW f \in LCs(n), IsUnit(f)
    PROVE  /\ Wires(f) = {SoleWire(f)} /\ SoleWire(f) \in 0 .. n - 1
           /\ \A w \in Assignments : EvalLc(f, w) = w[SoleWire(f)]
<1>1. /\ Wires(f) = {SoleWire(f)} /\ f[SoleWire(f)] = 1
      /\ \A w \in Assignments : EvalLc(f, w) = Times(f[SoleWire(f)], w[SoleWire(f)])
  BY SingleFacts DEF IsUnit
<1>2. SoleWire(f) \in 0 .. n - 1 /\ SoleWire(f) \in Nat  BY <1>1, LcFacts
<1>3. \A w \in Assignments : Times(1, w[SoleWire(f)]) = w[SoleWire(f)]
  BY <1>2, AssignmentFacts, FieldRing
<1> QED BY <1>1, <1>2, <1>3

\* Linear equations in one unknown.
LEMMA SolveFor ==
    ASSUME NEW a \in Field, a # 0, NEW x \in Field, NEW y \in Field
    PROVE  /\ y = Times(a, x) <=> x = Times(Inverted(a), y)
           /\ Plus(Times(a, x), y) = 0 <=> x = Times(Negated(Inverted(a)), y)
<1> DEFINE b == Inverted(a)
<1>1. b \in Field /\ Times(a, b) = 1  BY InvertedDef
<1> HIDE DEF b
<1>2. Times(b, Times(a, x)) = x /\ Times(a, Times(b, y)) = y
  <2>1. Times(b, Times(a, x)) = Times(Times(b, a), x) /\ Times(b, a) = Times(a, b)
    BY <1>1, FieldRing
  <2>2. Times(a, Times(b, y)) = Times(Times(a, b), y)  BY <1>1, FieldRing
  <2>3. Times(1, x) = x /\ Times(1, y) = y  BY FieldRing
  <2> QED BY <1>1, <2>1, <2>2, <2>3
<1>3. ASSUME NEW z \in Field PROVE y = Times(a, z) <=> z = Times(b, y)
  <2>1. Times(b, Times(a, z)) = z
    <3>1. Times(b, Times(a, z)) = Times(Times(b, a), z) /\ Times(b, a) = Times(a, b)
      BY <1>1, FieldRing
    <3>2. Times(1, z) = z  BY FieldRing
    <3> QED BY <1>1, <3>1, <3>2
  <2> QED BY <1>2, <2>1
<1>4. Plus(Times(a, x), y) = 0 <=> Times(a, x) = Negated(y)
  <2> DEFINE t == Times(a, x)  m == Negated(y)
  <2>1. t \in Field /\ m \in Field  BY FieldOps
  <2> HIDE DEF t, m
  <2>2. Plus(y, m) = 0 /\ Plus(m, y) = Plus(y, m)  BY <2>1, FieldRing DEF m
  <2>3. ASSUME Plus(t, y) = 0 PROVE t = m
    <3>1. Plus(Plus(t, y), m) = Plus(t, Plus(y, m))  BY <2>1, FieldRing
    <3>2. Plus(t, 0) = t /\ Plus(0, m) = m  BY <2>1, FieldRing
    <3> QED BY <2>2, <2>3, <3>1, <3>2
  <2> QED BY <2>2, <2>3 DEF t, m
<1>5. Negated(y) \in Field  BY FieldOps
<1>6. Times(a, x) = Negated(y) <=> x = Times(b, Negated(y))
  <2> DEFINE z == Negated(y)
  <2>1. z \in Field  BY <1>5
  <2> HIDE DEF z
  <2>2. Times(b, Times(a, x)) = x  BY <1>2
  <2>3. Times(a, Times(b, z)) = z
    <3>1. Times(a, Times(b, z)) = Times(Times(a, b), z) /\ Times(1, z) = z
      BY <1>1, <2>1, FieldRing
    <3> QED BY <1>1, <3>1
  <2>4. Times(a, x) = z <=> x = Times(b, z)  BY <2>2, <2>3
  <2> QED BY <2>4 DEF z
<1>7. Times(b, Negated(y)) = Times(Negated(b), y)
  <2>1. P - 1 \in Field /\ Negated(y) = Times(P - 1, y) /\ Negated(b) = Times(P - 1, b)
    BY <1>1, FieldOps, FieldRing
  <2> DEFINE q == P - 1
  <2> HIDE DEF q
  <2>2. q \in Field /\ Negated(y) = Times(q, y) /\ Negated(b) = Times(q, b)  BY <2>1 DEF q
  <2>3. Times(b, Times(q, y)) = Times(Times(b, q), y) /\ Times(b, q) = Times(q, b)
    BY <1>1, <2>2, FieldRing
  <2> QED BY <2>2, <2>3
<1> QED BY <1>3, <1>4, <1>6, <1>7 DEF b

\* A constraint with wires replaced.
LEMMA RewrittenFacts ==
    ASSUME NEW n \in Nat, NEW k \in Constraints(n), NEW sub, IsSub(sub, n)
    PROVE  /\ Rewritten(k, sub) \in Constraints(n)
           /\ \A w \in Assignments : Holds(Rewritten(k, sub), w) <=> Holds(k, Star(sub, w))
           /\ \A x \in Mentioned(Rewritten(k, sub)) :
                 \/ x \in Mentioned(k) \ DOMAIN sub
                 \/ \E v \in Mentioned(k) \cap DOMAIN sub : x \in Wires(sub[v])
<1> DEFINE r == Rewritten(k, sub)
<1>1. k.a \in LCs(n) /\ k.b \in LCs(n) /\ k.c \in LCs(n)  BY ConstraintFacts
<1>2. r.a = Substituted(k.a, sub) /\ r.b = Substituted(k.b, sub) /\ r.c = Substituted(k.c, sub)
      /\ r = [a |-> Substituted(k.a, sub), b |-> Substituted(k.b, sub), c |-> Substituted(k.c, sub)]
  BY DEF Rewritten, Constraint
<1>3. Substituted(k.a, sub) \in LCs(n) /\ Substituted(k.b, sub) \in LCs(n) /\ Substituted(k.c, sub) \in LCs(n)
  BY <1>1, SubstitutedFacts
<1>4. r \in Constraints(n)  BY <1>2, <1>3 DEF Constraints
<1> HIDE DEF r
<1>5. ASSUME NEW w \in Assignments PROVE Holds(r, w) <=> Holds(k, Star(sub, w))
  <2>1. /\ EvalLc(r.a, w) = EvalLc(k.a, Star(sub, w))
        /\ EvalLc(r.b, w) = EvalLc(k.b, Star(sub, w))
        /\ EvalLc(r.c, w) = EvalLc(k.c, Star(sub, w))
    BY <1>1, <1>2, SubstitutedFacts
  <2> QED BY <2>1 DEF Holds
<1>6. ASSUME NEW x \in Mentioned(r)
      PROVE  \/ x \in Mentioned(k) \ DOMAIN sub
             \/ \E v \in Mentioned(k) \cap DOMAIN sub : x \in Wires(sub[v])
  <2>1. ASSUME NEW f \in LCs(n), Wires(f) \subseteq Mentioned(k), x \in Wires(Substituted(f, sub))
        PROVE  \/ x \in Mentioned(k) \ DOMAIN sub
               \/ \E v \in Mentioned(k) \cap DOMAIN sub : x \in Wires(sub[v])
    <3>1. \/ x \in Wires(f) \ DOMAIN sub
          \/ \E v \in Wires(f) \cap DOMAIN sub : x \in Wires(sub[v])
      BY <2>1, SubstitutedFacts
    <3> QED BY <2>1, <3>1
  <2>2. Wires(k.a) \subseteq Mentioned(k) /\ Wires(k.b) \subseteq Mentioned(k) /\ Wires(k.c) \subseteq Mentioned(k)
    BY DEF Mentioned
  <2>3. x \in Wires(r.a) \/ x \in Wires(r.b) \/ x \in Wires(r.c)  BY <1>6 DEF Mentioned
  <2>4. CASE x \in Wires(r.a)  BY <1>1, <1>2, <2>1, <2>2, <2>4
  <2>5. CASE x \in Wires(r.b)  BY <1>1, <1>2, <2>1, <2>2, <2>5
  <2>6. CASE x \in Wires(r.c)  BY <1>1, <1>2, <2>1, <2>2, <2>6
  <2> QED BY <2>3, <2>4, <2>5, <2>6
<1> QED BY <1>4, <1>5, <1>6 DEF r

-----------------------------------------------------------------------------
(***************************************************************************)
(* Binary digits.                                                          *)
(***************************************************************************)

\* Bit i of x.
Digit(x, i) == (x \div Pow2[i]) % 2

\* The number with the k low bits b.
Bin(b, k) == Total(0 .. k - 1, [i \in Nat |-> Pow2[i] * b[i]])

\* Infinite strings of bits.
BitStrings == [Nat -> {0, 1}]

\* Powers of two are positive.
LEMMA Pow2Facts ==
    ASSUME NEW i \in Nat
    PROVE  /\ Pow2[0] = 1 /\ Pow2[i] \in Nat \ {0} /\ Pow2[i] \in Int /\ Pow2[i] >= 1
           /\ Pow2[i + 1] = 2 * Pow2[i]
<1>1. Pow2[i] \in Nat \ {0}  BY Pow2Def
<1> QED BY <1>1, Pow2Def

\* Powers add up.
LEMMA Pow2Add ==
    ASSUME NEW i \in Nat, NEW j \in Nat
    PROVE  Pow2[i + j] = Pow2[i] * Pow2[j]
<1> DEFINE A == {k \in Nat : Pow2[i + k] = Pow2[i] * Pow2[k]}
<1>1. 0 \in A
  <2>1. i + 0 = i /\ Pow2[0] = 1 /\ Pow2[i] \in Int  BY Pow2Facts
  <2> QED BY <2>1
<1>2. ASSUME NEW k \in A PROVE k + 1 \in A
  <2>1. k \in Nat /\ i + k \in Nat /\ i + (k + 1) = (i + k) + 1 /\ Pow2[i + k] = Pow2[i] * Pow2[k]
    OBVIOUS
  <2>2. Pow2[(i + k) + 1] = 2 * Pow2[i + k] /\ Pow2[k + 1] = 2 * Pow2[k] /\ Pow2[k] \in Int /\ Pow2[i] \in Int
    BY <2>1, Pow2Facts
  <2>3. \A x, y \in Int : 2 * (x * y) = x * (2 * y)  OBVIOUS
  <2>4. Pow2[i + (k + 1)] = Pow2[i] * Pow2[k + 1]  BY <2>1, <2>2, <2>3
  <2> QED BY <2>1, <2>4
<1>3. A = Nat
  <2>1. A \subseteq Nat  OBVIOUS
  <2> HIDE DEF A
  <2> QED BY <1>1, <1>2, <2>1, SetInduction
<1> QED BY <1>3

\* Powers grow.
LEMMA Pow2Mono ==
    ASSUME NEW i \in Nat, NEW j \in Nat, i <= j
    PROVE  Pow2[i] <= Pow2[j]
<1>1. PICK d \in Nat : j = i + d
  <2>1. j - i \in Nat /\ j = i + (j - i)  OBVIOUS
  <2> QED BY <2>1
<1>2. Pow2[j] = Pow2[i] * Pow2[d] /\ Pow2[i] \in Nat /\ Pow2[d] \in Nat /\ Pow2[d] >= 1
  BY <1>1, Pow2Add, Pow2Facts
<1>3. \A x, y \in Nat : y >= 1 => x <= x * y
  <2> SUFFICES ASSUME NEW x \in Nat, NEW y \in Nat, y >= 1 PROVE x <= x * y  OBVIOUS
  <2>1. x * y = x + x * (y - 1) /\ y - 1 \in Nat  OBVIOUS
  <2>2. x * (y - 1) \in Nat  BY <2>1
  <2> QED BY <2>1, <2>2
<1> QED BY <1>2, <1>3

\* A digit is a bit.
LEMMA DigitType ==
    ASSUME NEW x \in Nat, NEW i \in Nat
    PROVE  /\ Digit(x, i) \in {0, 1}
           /\ x \div Pow2[i] \in Nat /\ x % Pow2[i] \in 0 .. Pow2[i] - 1
           /\ x = Pow2[i] * (x \div Pow2[i]) + (x % Pow2[i])
<1> DEFINE p == Pow2[i]
           q == x \div p
           r == x % p
<1>1. p \in Nat \ {0}  BY Pow2Facts
<1> HIDE DEF p
<1>2. q \in Int /\ r \in 0 .. p - 1 /\ x = p * q + r  BY <1>1, Division
<1> HIDE DEF q, r
<1>3. q >= 0
  <2> SUFFICES ASSUME q <= -1 PROVE FALSE  BY <1>2
  <2>1. p * q <= -p
    <3>1. p * q = p * (q + 1) - p /\ q + 1 \in Int /\ 0 - (q + 1) \in Nat  BY <1>1, <1>2
    <3>2. p * (0 - (q + 1)) \in Nat /\ p * (0 - (q + 1)) = 0 - p * (q + 1)  BY <1>1, <3>1
    <3>3. p * (q + 1) \in Int /\ p * q \in Int  BY <1>1, <1>2
    <3> QED BY <1>1, <3>1, <3>2, <3>3
  <2>2. p * q \in Int  BY <1>1, <1>2
  <2> QED BY <1>1, <1>2, <2>1, <2>2
<1>4. q % 2 \in {0, 1}  BY <1>2
<1> QED BY <1>1, <1>2, <1>3, <1>4 DEF Digit, p, q, r

\* One more digit.
LEMMA DigitStep ==
    ASSUME NEW x \in Nat, NEW k \in Nat
    PROVE  x % Pow2[k + 1] = (x % Pow2[k]) + Pow2[k] * Digit(x, k)
<1> DEFINE p == Pow2[k]
           q == x \div p
           r == x % p
           b == q % 2
           h == q \div 2
<1>1. p \in Nat \ {0} /\ Pow2[k + 1] = 2 * p  BY Pow2Facts
<1>2. q \in Nat /\ r \in 0 .. p - 1 /\ x = p * q + r  BY DigitType
<1>3. b \in {0, 1} /\ h \in Int /\ q = 2 * h + b
  <2> HIDE DEF q
  <2> QED BY <1>2
<1>4. Digit(x, k) = b  BY DEF Digit
<1> HIDE DEF p, q, r, b, h
<1>5. x = (2 * p) * h + (p * b + r)
  <2>1. p * (2 * h + b) = (2 * p) * h + p * b  BY <1>1, <1>3
  <2>2. p * b \in Int /\ (2 * p) * h \in Int  BY <1>1, <1>3
  <2> QED BY <1>2, <1>3, <2>1, <2>2
<1>6. p * b + r \in 0 .. (2 * p) - 1
  <2>1. CASE b = 0  BY <1>1, <1>2, <2>1
  <2>2. CASE b = 1  BY <1>1, <1>2, <2>2
  <2> QED BY <1>3, <2>1, <2>2
<1>7. x % (2 * p) = p * b + r
  <2>1. 2 * p \in Nat \ {0} /\ x \in Int  BY <1>1
  <2> QED BY <1>3, <1>5, <1>6, <2>1, DivisionUnique
<1>8. p * b \in Int /\ r \in Int  BY <1>1, <1>2, <1>3
<1> QED BY <1>1, <1>4, <1>7, <1>8 DEF p, r

\* Bin is a sum, bit by bit.
LEMMA BinStep ==
    ASSUME NEW b \in BitStrings, NEW k \in Nat
    PROVE  /\ Bin(b, 0) = 0
           /\ Bin(b, k + 1) = Bin(b, k) + Pow2[k] * b[k]
           /\ Bin(b, k) \in Int
<1> DEFINE h == [i \in Nat |-> Pow2[i] * b[i]]
<1>1. h \in [Nat -> Int] /\ h[k] = Pow2[k] * b[k]
  <2>1. \A i \in Nat : Pow2[i] * b[i] \in Int
    <3>1. \A i \in Nat : Pow2[i] \in Int /\ b[i] \in Int  BY Pow2Facts DEF BitStrings
    <3> QED BY <3>1
  <2> QED BY <2>1
<1>2. \A j : Bin(b, j) = Total(0 .. j - 1, h)  BY DEF Bin
<1> HIDE DEF h
<1>3. 0 .. 0 - 1 = {} /\ 0 .. (k + 1) - 1 = (0 .. k - 1) \cup {k} /\ k \notin 0 .. k - 1
      /\ IsFiniteSet(0 .. k - 1) /\ 0 .. k - 1 \in SUBSET Nat /\ {} \in SUBSET Nat /\ IsFiniteSet({})
  BY FS_Interval, FS_EmptySet
<1>4. Total({}, h) = 0  BY <1>1, <1>3, TotalStep
<1> DEFINE S == 0 .. k - 1
<1>5. Total(S \cup {k}, h) = h[k] + Total(S, h) /\ Total(S, h) \in Int
  <2> HIDE DEF S
  <2> QED BY <1>1, <1>3, TotalAdd, TotalType DEF S
<1>6. h[k] \in Int  BY <1>1
<1>7. Bin(b, 0) = 0  BY <1>2, <1>3, <1>4
<1>8. Bin(b, k + 1) = h[k] + Bin(b, k) /\ Bin(b, k) \in Int  BY <1>2, <1>3, <1>5
<1>9. h[k] + Bin(b, k) = Bin(b, k) + h[k]  BY <1>6, <1>8
<1> QED BY <1>1, <1>7, <1>8, <1>9

\* k bits make a number below 2^k.
LEMMA BinBound ==
    ASSUME NEW b \in BitStrings, NEW k \in Nat
    PROVE  Bin(b, k) \in 0 .. Pow2[k] - 1 /\ Bin(b, k) \in Nat
<1> DEFINE A == {j \in Nat : Bin(b, j) \in 0 .. Pow2[j] - 1}
<1>1. 0 \in A  BY BinStep, Pow2Facts
<1>2. ASSUME NEW j \in A PROVE j + 1 \in A
  <2>1. j \in Nat /\ Bin(b, j) \in 0 .. Pow2[j] - 1 /\ Pow2[j] \in Nat /\ Pow2[j + 1] = 2 * Pow2[j]
    BY Pow2Facts
  <2>2. Bin(b, j + 1) = Bin(b, j) + Pow2[j] * b[j] /\ b[j] \in {0, 1}
    BY <2>1, BinStep DEF BitStrings
  <2>3. Pow2[j] * b[j] \in 0 .. Pow2[j]  BY <2>1, <2>2
  <2>4. Bin(b, j + 1) \in 0 .. Pow2[j + 1] - 1  BY <2>1, <2>2, <2>3
  <2> QED BY <2>1, <2>4
<1>3. A = Nat
  <2>1. A \subseteq Nat  OBVIOUS
  <2> HIDE DEF A
  <2> QED BY <1>1, <1>2, <2>1, SetInduction
<1>4. Bin(b, k) \in 0 .. Pow2[k] - 1 /\ Pow2[k] \in Nat  BY <1>3, Pow2Facts
<1> QED BY <1>4

\* The bits of a number of k bits are its digits.
LEMMA BinDigits ==
    ASSUME NEW b \in BitStrings, NEW k \in Nat, NEW i \in 0 .. k - 1
    PROVE  Digit(Bin(b, k), i) = b[i]
<1> DEFINE A == {j \in Nat : \A l \in 0 .. j - 1 : Digit(Bin(b, j), l) = b[l]}
<1>1. 0 \in A  OBVIOUS
<1>2. ASSUME NEW j \in A PROVE j + 1 \in A
  <2> SUFFICES ASSUME NEW l \in 0 .. j PROVE Digit(Bin(b, j + 1), l) = b[l]  OBVIOUS
  <2> DEFINE s == Bin(b, j)
             p == Pow2[l]
             e == b[j]
  <2>1. /\ j \in Nat /\ l \in Nat /\ e \in {0, 1} /\ s \in Nat /\ s < Pow2[j] /\ Bin(b, j + 1) = s + Pow2[j] * e
        /\ p \in Nat \ {0} /\ \A x \in 0 .. j - 1 : Digit(s, x) = b[x]
    <3>1. j \in Nat /\ l \in Nat /\ \A x \in 0 .. j - 1 : Digit(Bin(b, j), x) = b[x]  OBVIOUS
    <3>2. Pow2[j] \in Nat /\ Pow2[l] \in Nat \ {0}  BY <3>1, Pow2Facts
    <3>3. s \in Nat /\ s < Pow2[j]  BY <3>1, <3>2, BinBound
    <3>4. Bin(b, j + 1) = s + Pow2[j] * e  BY <3>1, BinStep
    <3>5. e \in {0, 1}  BY <3>1 DEF BitStrings
    <3> QED BY <3>1, <3>2, <3>3, <3>4, <3>5
  <2> HIDE DEF s, p, e, A
  <2>2. CASE l = j
    <3>1. p = Pow2[j] /\ s \in 0 .. p - 1 /\ s + p * e = p * e + s /\ s + p * e \in Int
      BY <2>1, <2>2 DEF p
    <3>2. (s + p * e) \div p = e  BY <2>1, <3>1, DivisionUnique
    <3>3. e % 2 = e  BY <2>1
    <3> QED BY <2>1, <2>2, <3>1, <3>2, <3>3 DEF Digit, e
  <2>3. CASE l # j
    <3>1. l \in 0 .. j - 1 /\ (j - l) - 1 \in Nat /\ j = l + ((j - l) - 1) + 1 /\ l + ((j - l) - 1) \in Nat
      BY <2>1, <2>3
    <3> DEFINE g == Pow2[(j - l) - 1]
               q == s \div p
               r == s % p
    <3>2. g \in Nat /\ Pow2[j] = 2 * (p * g)  BY <2>1, <3>1, Pow2Add, Pow2Facts DEF p
    <3>3. q \in Nat /\ r \in 0 .. p - 1 /\ s = p * q + r  BY <2>1, DigitType DEF p
    <3> HIDE DEF g, q, r
    <3> DEFINE t == s + Pow2[j] * e
               a == g * e
    <3>4. a \in Int /\ t \in Int /\ t = p * (q + 2 * a) + r
      <4>1. a \in Int  BY <2>1, <3>2
      <4>2. (2 * (p * g)) * e = p * (2 * (g * e))  BY <2>1, <3>2
      <4>3. t = s + p * (2 * a)  BY <3>2, <4>2
      <4> HIDE DEF a, t
      <4>4. p * (q + 2 * a) = p * q + p * (2 * a) /\ p * q \in Int /\ p * (2 * a) \in Int
        BY <2>1, <3>3, <4>1
      <4> QED BY <2>1, <3>3, <4>1, <4>3, <4>4
    <3> HIDE DEF t, a
    <3>5. t \div p = q + 2 * a
      <4>1. q + 2 * a \in Int  BY <3>3, <3>4
      <4> DEFINE z == q + 2 * a
      <4>2. z \in Int /\ t = p * z + r /\ t \in Int  BY <3>4, <4>1
      <4> HIDE DEF z
      <4>3. t \div p = z  BY <2>1, <3>3, <4>2, DivisionUnique
      <4> QED BY <4>3 DEF z
    <3>6. (q + 2 * a) % 2 = q % 2  BY <3>3, <3>4
    <3>7. Digit(t, l) = Digit(s, l)  BY <3>5, <3>6 DEF Digit, p, q
    <3> QED BY <2>1, <3>1, <3>7 DEF t
  <2> QED BY <2>2, <2>3
<1>3. A = Nat
  <2>1. A \subseteq Nat  OBVIOUS
  <2> HIDE DEF A
  <2> QED BY <1>1, <1>2, <2>1, SetInduction
<1>4. k \in A  BY <1>3
<1> QED BY <1>4

\* The digits of x make x again, modulo 2^k.
LEMMA DigitsBin ==
    ASSUME NEW x \in Nat, NEW b \in BitStrings, NEW k \in Nat,
           \A i \in 0 .. k - 1 : b[i] = Digit(x, i)
    PROVE  Bin(b, k) = x % Pow2[k]
<1> DEFINE A == {j \in Nat : j <= k => Bin(b, j) = x % Pow2[j]}
<1>1. 0 \in A
  <2>1. Pow2[0] = 1 /\ x % 1 = 0 /\ Bin(b, 0) = 0  BY Pow2Facts, BinStep
  <2> QED BY <2>1
<1>2. ASSUME NEW j \in A PROVE j + 1 \in A
  <2> SUFFICES ASSUME j + 1 <= k PROVE Bin(b, j + 1) = x % Pow2[j + 1]  OBVIOUS
  <2>1. j \in Nat /\ j \in 0 .. k - 1 /\ Bin(b, j) = x % Pow2[j]  OBVIOUS
  <2>2. Bin(b, j + 1) = Bin(b, j) + Pow2[j] * b[j]  BY <2>1, BinStep
  <2>3. x % Pow2[j + 1] = (x % Pow2[j]) + Pow2[j] * Digit(x, j)  BY <2>1, DigitStep
  <2>4. b[j] = Digit(x, j)  BY <2>1
  <2> QED BY <2>1, <2>2, <2>3, <2>4
<1>3. A = Nat
  <2>1. A \subseteq Nat  OBVIOUS
  <2> HIDE DEF A
  <2> QED BY <1>1, <1>2, <2>1, SetInduction
<1> QED BY <1>3

\* Dividing what is below the divisor.
LEMMA SmallMod ==
    ASSUME NEW x \in Nat, NEW k \in Nat \ {0}, x < k
    PROVE  x % k = x /\ x \div k = 0
<1>1. x = k * 0 + x /\ x \in 0 .. k - 1 /\ x \in Int  OBVIOUS
<1> QED BY <1>1, DivisionUnique

-----------------------------------------------------------------------------
(***************************************************************************)
(* Bits on wires.                                                          *)
(***************************************************************************)

\* The powers of two from 2^a on, for n wires from first on.
Weights(first, n, a) == [v \in first .. first + n - 1 |-> Pow2[a + (v - first)]]

\* A total of weighted bits, wherever the wires are.
LEMMA TotalMoved ==
    ASSUME NEW h \in [Nat -> Int], NEW b \in BitStrings, NEW first \in Nat, NEW n \in Nat, NEW p \in Int,
           \A i \in 0 .. n - 1 : h[first + i] = p * (Pow2[i] * b[i])
    PROVE  Total(first .. first + n - 1, h) = p * Bin(b, n)
<1> DEFINE A == {k \in Nat : k <= n => Total(first .. first + k - 1, h) = p * Bin(b, k)}
<1>1. 0 \in A
  <2>1. first .. first + 0 - 1 = {} /\ {} \in SUBSET Nat /\ IsFiniteSet({})  BY FS_EmptySet
  <2>2. Total({}, h) = 0 /\ Bin(b, 0) = 0  BY <2>1, TotalStep, BinStep
  <2> QED BY <2>1, <2>2
<1>2. ASSUME NEW k \in A PROVE k + 1 \in A
  <2> SUFFICES ASSUME k + 1 <= n
               PROVE  Total(first .. first + (k + 1) - 1, h) = p * Bin(b, k + 1)
    OBVIOUS
  <2> DEFINE S == first .. first + k - 1
             x == first + k
  <2>1. k \in Nat /\ k \in 0 .. n - 1 /\ Total(S, h) = p * Bin(b, k)  OBVIOUS
  <2>2. /\ first .. first + (k + 1) - 1 = S \cup {x} /\ x \notin S /\ x \in Nat
        /\ S \in SUBSET Nat /\ IsFiniteSet(S)
    <3>1. first \in Int /\ first + k - 1 \in Int  BY <2>1
    <3>2. IsFiniteSet(S)  BY <3>1, FS_Interval
    <3>3. first .. first + (k + 1) - 1 = S \cup {x} /\ x \notin S /\ x \in Nat /\ S \in SUBSET Nat
      <4>1. first \in Nat /\ k \in Nat  BY <2>1
      <4>2. \A v : v \in first .. first + (k + 1) - 1 <=> v \in first .. first + k - 1 \/ v = first + k
        BY ONLY <4>1
      <4>3. \A v : v \in first .. first + (k + 1) - 1 <=> v \in S \/ v = x  BY <4>2
      <4>4. x \notin S /\ x \in Nat /\ \A v \in S : v \in Nat  BY <2>1
      <4> HIDE DEF S, x
      <4> QED BY <4>3, <4>4
    <3> QED BY <3>2, <3>3
  <2> HIDE DEF S, x
  <2>3. Total(S \cup {x}, h) = h[x] + Total(S, h)  BY <2>2, TotalAdd
  <2>4. h[x] = p * (Pow2[k] * b[k])  BY <2>1 DEF x
  <2>5. Bin(b, k + 1) = Bin(b, k) + Pow2[k] * b[k] /\ Bin(b, k) \in Int  BY <2>1, BinStep
  <2>6. Pow2[k] * b[k] \in Int
    <3>1. Pow2[k] \in Int /\ b[k] \in Int  BY <2>1, Pow2Facts DEF BitStrings
    <3> QED BY <3>1
  <2>7. \A y, z \in Int : p * z + p * y = p * (y + z)  OBVIOUS
  <2> DEFINE y == Bin(b, k)
             z == Pow2[k] * b[k]
  <2>8. y \in Int /\ z \in Int /\ Bin(b, k + 1) = y + z /\ h[x] = p * z /\ Total(S, h) = p * y
    BY <2>1, <2>4, <2>5, <2>6
  <2> HIDE DEF y, z
  <2>9. Total(S \cup {x}, h) = p * (y + z)  BY <2>3, <2>7, <2>8
  <2> QED BY <2>2, <2>8, <2>9
<1>3. A = Nat
  <2>1. A \subseteq Nat  OBVIOUS
  <2> HIDE DEF A
  <2> QED BY <1>1, <1>2, <2>1, SetInduction
<1>4. n \in A  BY <1>3
<1>5. n <= n  OBVIOUS
<1> QED BY <1>4, <1>5

\* n bits moved up by a stay below 2^(a + n).
LEMMA ScaledBin ==
    ASSUME NEW b \in BitStrings, NEW n \in Nat, NEW a \in Nat
    PROVE  Pow2[a] * Bin(b, n) \in 0 .. Pow2[a + n] - 1
<1> DEFINE p == Pow2[a]
           q == Pow2[n]
           s == Bin(b, n)
<1>1. p \in Nat \ {0} /\ q \in Nat \ {0} /\ s \in 0 .. q - 1 /\ Pow2[a + n] = p * q
  BY Pow2Facts, BinBound, Pow2Add
<1> HIDE DEF p, q, s
<1>2. (q - 1) - s \in Nat /\ s \in Nat  BY <1>1
<1>3. p * ((q - 1) - s) \in Nat /\ p * s \in Nat /\ p * q \in Nat  BY <1>1, <1>2
<1>4. p * ((q - 1) - s) = p * q - p - p * s  BY <1>1, <1>2
<1>5. p * s \in 0 .. p * q - 1  BY <1>1, <1>3, <1>4
<1> QED BY <1>1, <1>5 DEF p, q, s

\* A sum of bits with powers of two.
LEMMA WeightsFacts ==
    ASSUME NEW first \in Nat \ {0}, NEW n \in Nat, NEW N \in Nat, first + n <= N,
           NEW a \in Nat, Pow2[a + n] <= P
    PROVE  /\ Weights(first, n, a) \in LCs(N)
           /\ \A w \in Assignments : \A b \in BitStrings :
                 (\A i \in 0 .. n - 1 : w[first + i] = b[i])
                 => EvalLc(Weights(first, n, a), w) = Pow2[a] * Bin(b, n)
<1> DEFINE f == Weights(first, n, a)
           S == first .. first + n - 1
<1>1. /\ Wires(f) = S /\ S \in SUBSET (0 .. N - 1) /\ S \in SUBSET Nat /\ IsFiniteSet(S)
      /\ \A i \in 0 .. n - 1 : first + i \in S /\ f[first + i] = Pow2[a + i]
      /\ \A v \in S : f[v] = Pow2[a + (v - first)] /\ v - first \in 0 .. n - 1
      /\ f = [v \in S |-> Pow2[a + (v - first)]]
  <2>1. /\ S \in SUBSET (0 .. N - 1) /\ S \in SUBSET Nat /\ IsFiniteSet(S)
        /\ \A i \in 0 .. n - 1 : first + i \in S /\ (first + i) - first = i
        /\ \A v \in S : v - first \in 0 .. n - 1
    <3>1. first \in Int /\ first + n - 1 \in Int  OBVIOUS
    <3>2. IsFiniteSet(S)  BY <3>1, FS_Interval
    <3>3. S \in SUBSET (0 .. N - 1) /\ S \in SUBSET Nat  OBVIOUS
    <3>4. \A i \in 0 .. n - 1 : first + i \in S /\ (first + i) - first = i  OBVIOUS
    <3>5. \A v \in S : v - first \in 0 .. n - 1  OBVIOUS
    <3> HIDE DEF S
    <3> QED BY <3>2, <3>3, <3>4, <3>5
  <2>2. f = [v \in S |-> Pow2[a + (v - first)]]  BY DEF Weights
  <2> HIDE DEF S, f
  <2>3. Wires(f) = S  BY <2>2 DEF Wires
  <2>4. \A v \in S : f[v] = Pow2[a + (v - first)]  BY <2>2
  <2>5. \A i \in 0 .. n - 1 : f[first + i] = Pow2[a + i]  BY <2>1, <2>4
  <2> QED BY <2>1, <2>2, <2>3, <2>4, <2>5
<1>2. \A i \in 0 .. n - 1 : Pow2[a + i] \in Field /\ Pow2[a + i] # 0 /\ Pow2[a + i] = Pow2[a] * Pow2[i]
  <2> SUFFICES ASSUME NEW i \in 0 .. n - 1
               PROVE  Pow2[a + i] \in Field /\ Pow2[a + i] # 0 /\ Pow2[a + i] = Pow2[a] * Pow2[i]
    OBVIOUS
  <2>1. i \in Nat /\ a + i \in Nat /\ (a + i) + 1 \in Nat /\ (a + i) + 1 <= a + n /\ a + n \in Nat
    OBVIOUS
  <2>2. Pow2[a + i] \in Nat \ {0} /\ Pow2[(a + i) + 1] = 2 * Pow2[a + i] /\ Pow2[a + n] \in Int
    BY <2>1, Pow2Facts
  <2>3. Pow2[(a + i) + 1] <= Pow2[a + n]  BY <2>1, Pow2Mono
  <2>4. Pow2[a + i] < P  BY <2>2, <2>3, Modulus
  <2>5. Pow2[a + i] = Pow2[a] * Pow2[i]  BY <2>1, Pow2Add
  <2> DEFINE x == Pow2[a + i]
  <2>6. x \in Nat \ {0} /\ x < P  BY <2>2, <2>4
  <2> HIDE DEF x
  <2>7. x \in Field /\ x # 0  BY <2>6, Modulus DEF Field
  <2> QED BY <2>5, <2>7 DEF x
<1> HIDE DEF f, S
<1>3. f \in LCs(N)
  <2>1. f \in [S -> Field] /\ \A v \in S : f[v] # 0  BY <1>1, <1>2
  <2> QED BY <1>1, <2>1, LcIntro
<1>4. ASSUME NEW w \in Assignments, NEW b \in BitStrings, \A i \in 0 .. n - 1 : w[first + i] = b[i]
      PROVE  EvalLc(f, w) = Pow2[a] * Bin(b, n)
  <2> DEFINE h == Terms(f, w)
  <2>1. h \in [Nat -> Int] /\ EvalLc(f, w) = Total(S, h) % P  BY <1>1, <1>3, TermsType, EvalTotal
  <2>2. ASSUME NEW i \in 0 .. n - 1 PROVE h[first + i] = Pow2[a] * (Pow2[i] * b[i])
    <3>1. h[first + i] = Coef(f, first + i) * w[first + i]
      <4>1. first + i \in Nat  OBVIOUS
      <4> QED BY <4>1 DEF Terms
    <3>2. Coef(f, first + i) = Pow2[a] * Pow2[i]  BY <1>1, <1>2 DEF Coef
    <3>3. Pow2[a] \in Int /\ Pow2[i] \in Int /\ b[i] \in Int  BY Pow2Facts DEF BitStrings
    <3>4. \A x, y, z \in Int : (x * y) * z = x * (y * z)  OBVIOUS
    <3> QED BY <1>4, <3>1, <3>2, <3>3, <3>4
  <2> HIDE DEF h
  <2>3. Total(S, h) = Pow2[a] * Bin(b, n)
    <3> DEFINE p == Pow2[a]
    <3>1. p \in Int /\ first \in Nat  BY Pow2Facts
    <3> HIDE DEF p
    <3>2. \A i \in 0 .. n - 1 : h[first + i] = p * (Pow2[i] * b[i])  BY <2>2 DEF p
    <3>3. h \in [Nat -> Int] /\ b \in BitStrings /\ n \in Nat  BY <2>1
    <3>4. Total(first .. first + n - 1, h) = p * Bin(b, n)  BY ONLY <3>1, <3>2, <3>3, TotalMoved, ZenonT(40)
    <3> QED BY <3>4 DEF S, p
  <2>4. Pow2[a] * Bin(b, n) \in Field
    <3>1. Pow2[a] * Bin(b, n) \in 0 .. Pow2[a + n] - 1 /\ Pow2[a + n] \in Int
      <4>1. a + n \in Nat  OBVIOUS
      <4>2. Pow2[a + n] \in Int  BY <4>1, Pow2Facts
      <4> QED BY <4>2, ScaledBin
    <3> DEFINE x == Pow2[a] * Bin(b, n)
               y == Pow2[a + n]
    <3>2. x \in 0 .. y - 1 /\ y \in Int /\ y <= P  BY <3>1
    <3> HIDE DEF x, y
    <3>3. x \in Field  BY <3>2, Modulus DEF Field
    <3> QED BY <3>3 DEF x
  <2> QED BY <2>1, <2>3, <2>4, FieldMod
<1> QED BY <1>3, <1>4 DEF f

\* x * x = x says that x is a bit: a field has no zero divisors.
LEMMA BooleanValue ==
    ASSUME NEW x \in Field
    PROVE  Times(x, x) = x <=> x \in {0, 1}
<1>1. CASE x = 0  BY <1>1, FieldRing, FieldOps
<1>2. CASE x # 0
  <2> DEFINE y == Inverted(x)
  <2>1. y \in Field /\ Times(x, y) = 1 /\ Times(y, x) = 1 /\ 1 \in Field
    BY <1>2, InvertedDef, FieldRing, FieldOps
  <2> HIDE DEF y
  <2>2. Times(Times(y, x), x) = Times(y, Times(x, x)) /\ Times(1, x) = x /\ Times(1, 1) = 1
    BY <2>1, FieldRing
  <2>3. Times(x, x) = x => x = 1  BY <2>1, <2>2
  <2> QED BY <1>2, <2>2, <2>3
<1> QED BY <1>1, <1>2
=============================================================================
