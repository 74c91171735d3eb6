---------------------------- MODULE GpuCtaProofs ----------------------------
(***************************************************************************)
(* Proofs about GpuCta.  What a warp of a kernel is given to execute is a  *)
(* concatenation of loop bodies over as many K-tiles as the launch has, so *)
(* what holds of it holds by induction over the loops: SetInduction is     *)
(* induction over a set of naturals, and FlattenIn carries a set of        *)
(* sequences that concatenation stays within through FlattenSeq.  Two such *)
(* sets are enough.  Batches: every copy is followed by its commit; Quiet: *)
(* there is no copy.  A kernel is batches, then a wait for everything,     *)
(* then a quiet rest, or it is quiet throughout.  The invariant follows    *)
(* that shape as the warp consumes it: what is left always settles the     *)
(* copies that were issued (Settling), and a copy in flight is in a group  *)
(* of the warp that issued it (Tracked), so that a wait for all finds it.  *)
(* Barriers are counted: the codes of a block's warps differ in what they  *)
(* do and agree in how many barriers they hold (CodeAlike), and warps pass *)
(* them together (Meeting).                                                *)
(***************************************************************************)
EXTENDS GpuCta, SequenceTheorems, FunctionTheorems, FiniteSetTheorems, WellFoundedInduction,
        TLAPS

----------------------------------------------------------------------------
(* Instructions and the sequences of them *)

\* Every instruction of GpuKernels, its slots among those of the block.
Instrs ==
    [op: {"bar", "commit", "storec"}] \cup [op: {"wait"}, n: Nat]
    \cup [op: {"store", "copy"}, slot: Slots, tile: Int]
    \cup [op: {"ldreg"}, tile: Int] \cup [op: {"streg"}, slot: Slots]
    \cup [op: {"convert"}, from: Slots, slot: Slots]
    \cup [op: {"mma"}, slot: Slots, step: Int, b: Int]
    \cup [op: {"stage"}, c: Int] \cup [op: {"copyout"}, c: Int, n: Int]
    \cup [op: {"sum"}, b: Int, k: Int] \cup [op: {"redc", "putc"}, row: Int, col: Int]
    \cup [op: {"token"}, h: Int, k: Int] \cup [op: {"partial"}, h: Int]
    \cup [op: {"merge"}, h: Int, q: Int, z: Int]
    \cup [op: {"zeroc", "combine", "norm"}, q: Int]

\* No copy is issued; every copy is followed by a commit.
CopyFree(c) == \A i \in 1 .. Len(c) : c[i].op # "copy"
Committed(c) ==
    \A i \in 1 .. Len(c) : c[i].op = "copy" => \E j \in i + 1 .. Len(c) : c[j].op = "commit"

Quiet == {c \in Seq(Instrs) : CopyFree(c)}
Batches == {c \in Seq(Instrs) : Committed(c)}

\* What a warp has left to do settles its copies: wait j is for all groups, every
\* copy before it and those issued already, o, are committed by then, and no copy
\* follows.  f are those in flight.
SettlesAt(c, j, o) ==
    /\ c[j].op = "wait" /\ c[j].n = 0
    /\ \A i \in j + 1 .. Len(c) : c[i].op # "copy"
    /\ \A i \in 1 .. j - 1 : c[i].op = "copy" => \E k \in i + 1 .. j - 1 : c[k].op = "commit"
    /\ o # {} => \E k \in 1 .. j - 1 : c[k].op = "commit"
Settles(c, o, f) ==
    \/ CopyFree(c) /\ o = {} /\ f = {}
    \/ \E j \in 1 .. Len(c) : SettlesAt(c, j, o)

----------------------------------------------------------------------------
(* The inductive invariant *)

Types ==
    /\ shape \in Shapes /\ entry \in {"none", "main", "reduce"}
    /\ todo \subseteq Int \X Int \X Int
    /\ code \in [Warps -> Seq(Instrs)]
    /\ flying \subseteq Slots \X Warps
    /\ groups \in [Warps -> Seq(SUBSET (Slots \X Int))]
    /\ open \in [Warps -> SUBSET (Slots \X Int)]
    /\ arrived \subseteq Warps

\* Code is what the warps of the block that runs have.
Scheduled ==
    /\ entry = "none" => block = NoBlock
    /\ block = NoBlock => \A w \in Warps : code[w] = <<>>
    /\ \A w \in Warps : w \notin InBlock => code[w] = <<>>
    /\ \A w \in arrived : code[w] # <<>> /\ Head(code[w]).op = "bar"

Issued(w) == open[w] \cup UNION {groups[w][g] : g \in 1 .. Len(groups[w])}
InFlight(w) == {x \in flying : x[2] = w}

\* A copy in flight is in a group, committed or not, of the warp that issued it.
Tracked == \A x \in flying : \E c \in Issued(x[2]) : c[1] = x[1]

Settling == \A w \in Warps : Settles(code[w], open[w], InFlight(w))

Inv == Types /\ Scheduled /\ Tracked /\ Settling

----------------------------------------------------------------------------
(* Induction, and flattening *)

\* Induction, from a least element of the numbers left out.
LEMMA SetInduction ==
    ASSUME NEW S, S \subseteq Nat, 0 \in S, \A n \in S : n + 1 \in S
    PROVE  S = Nat
<1> DEFINE R == OpToRel(<, Nat)
           T == Nat \ S
<1>1. SUFFICES ASSUME T # {} PROVE FALSE
      OBVIOUS
<1>2. IsWellFoundedOn(R, Nat)
      BY NatLessThanWellFounded
<1>3. PICK x \in T : \A y \in T : <<y, x>> \notin R
  <2>1. T \subseteq Nat
        OBVIOUS
  <2> HIDE DEF R, T
  <2> QED BY <1>1, <1>2, <2>1, WFMin
<1>4. x # 0 /\ x - 1 \in Nat /\ x - 1 < x
      OBVIOUS
<1>5. x - 1 \in S
  <2>1. <<x - 1, x>> \in R
        BY <1>4 DEF OpToRel
  <2> QED BY <1>3, <1>4, <2>1
<1>6. (x - 1) + 1 = x
      BY <1>4
<1> QED BY <1>5, <1>6

\* The equation flatten solves in FlattenSeq(q).
Flattens(f, q) ==
    f = [i \in 1 .. Len(q) |-> IF i = 1 THEN q[i] ELSE f[i - 1] \o q[i]]

ClosedUnderConcat(T) == \A c, d \in T : c \o d \in T

\* The equation has a solution for every sequence: by induction on its prefixes.
LEMMA FlatExists ==
    ASSUME NEW T, ClosedUnderConcat(T), NEW q \in Seq(T)
    PROVE  \E f : Flattens(f, q)
<1> DEFINE n == Len(q)
           Upto(m, g) == \A i \in 1 .. m : g[i] = IF i = 1 THEN q[i] ELSE g[i - 1] \o q[i]
           S == {m \in Nat : m <= n => \E g \in [1 .. m -> T] : Upto(m, g)}
<1>n. n \in Nat /\ q \in [1 .. n -> T]
      OBVIOUS
<1>1. 0 \in S
  <2>1. [i \in 1 .. 0 |-> q[i]] \in [1 .. 0 -> T]
        OBVIOUS
  <2>2. Upto(0, [i \in 1 .. 0 |-> q[i]])
        OBVIOUS
  <2> QED BY <2>1, <2>2
<1>2. ASSUME NEW m \in S PROVE m + 1 \in S
  <2>1. SUFFICES ASSUME m + 1 <= n PROVE \E g \in [1 .. m + 1 -> T] : Upto(m + 1, g)
        OBVIOUS
  <2>2. PICK g \in [1 .. m -> T] : Upto(m, g)
        BY <2>1, <1>n
  <2> DEFINE h == [i \in 1 .. m + 1 |-> IF i <= m THEN g[i]
                                        ELSE IF m = 0 THEN q[1] ELSE g[m] \o q[m + 1]]
  <2>3. h \in [1 .. m + 1 -> T]
    <3>1. SUFFICES ASSUME NEW i \in 1 .. m + 1 PROVE h[i] \in T
          OBVIOUS
    <3>2. CASE i <= m
          BY <3>2
    <3>3. CASE i = m + 1 /\ m = 0
          BY <3>3, <2>1, <1>n
    <3>4. CASE i = m + 1 /\ m # 0
      <4>1. g[m] \in T /\ q[m + 1] \in T
            BY <3>4, <2>1, <2>2, <1>n
      <4> QED BY <3>4, <4>1 DEF ClosedUnderConcat
    <3> QED BY <3>2, <3>3, <3>4
  <2>4. Upto(m + 1, h)
    <3>1. SUFFICES ASSUME NEW i \in 1 .. m + 1
                   PROVE  h[i] = IF i = 1 THEN q[i] ELSE h[i - 1] \o q[i]
          OBVIOUS
    <3>2. CASE i <= m
      <4>1. h[i] = g[i]
            BY <3>2
      <4>2. i # 1 => i - 1 \in 1 .. m + 1 /\ i - 1 <= m
            BY <3>2
      <4>3. i # 1 => h[i - 1] = g[i - 1]
            BY <4>2
      <4>4. i \in 1 .. m
            BY <3>2
      <4>5. g[i] = IF i = 1 THEN q[i] ELSE g[i - 1] \o q[i]
            BY <4>4, <2>2
      <4> HIDE DEF h
      <4> QED BY <4>1, <4>3, <4>5
    <3>3. CASE i = m + 1
      <4>1. ~(i <= m) /\ i - 1 = m
            BY <3>3
      <4>2. h[i] = IF m = 0 THEN q[1] ELSE g[m] \o q[m + 1]
            BY <4>1
      <4>3. m # 0 => m \in 1 .. m + 1 /\ m <= m
            OBVIOUS
      <4>4. m # 0 => h[m] = g[m]
            BY <4>3
      <4> HIDE DEF h
      <4> QED BY <3>3, <4>1, <4>2, <4>4
    <3> QED BY <3>2, <3>3
  <2> HIDE DEF Upto, h
  <2> QED BY <2>3, <2>4
<1>3. n \in S
  <2>1. S \subseteq Nat
        OBVIOUS
  <2> HIDE DEF S
  <2> QED BY <1>1, <1>2, <2>1, <1>n, SetInduction
<1>4. PICK g \in [1 .. n -> T] : Upto(n, g)
      BY <1>3, <1>n
<1>5. g = [i \in 1 .. n |-> IF i = 1 THEN q[i] ELSE g[i - 1] \o q[i]]
      BY <1>4
<1> QED BY <1>5 DEF Flattens

\* Flattening stays within a set of sequences that concatenation stays within.
LEMMA FlattenIn ==
    ASSUME NEW T, <<>> \in T, ClosedUnderConcat(T), NEW q \in Seq(T)
    PROVE  FlattenSeq(q) \in T
<1> DEFINE n == Len(q)
           F == CHOOSE f : Flattens(f, q)
           S == {m \in Nat : m \in 1 .. n => F[m] \in T}
<1>n. n \in Nat /\ q \in [1 .. n -> T]
      OBVIOUS
<1>1. CASE n = 0
  <2>1. q = <<>>
        BY <1>1
  <2> QED BY <1>1, <2>1 DEF FlattenSeq
<1>2. CASE n # 0
  <2>1. Flattens(F, q)
        BY FlatExists
  <2>2. FlattenSeq(q) = F[n]
        BY <1>2 DEF FlattenSeq, Flattens
  <2> HIDE DEF F
  <2>3. \A i \in 1 .. n : F[i] = IF i = 1 THEN q[i] ELSE F[i - 1] \o q[i]
        BY <2>1, <1>n DEF Flattens
  <2>4. 0 \in S
        BY <1>n
  <2>5. ASSUME NEW m \in S PROVE m + 1 \in S
    <3>1. SUFFICES ASSUME m + 1 \in 1 .. n PROVE F[m + 1] \in T
          OBVIOUS
    <3>2. q[m + 1] \in T
          BY <3>1, <1>n
    <3>3. CASE m = 0
          BY <3>1, <3>2, <3>3, <2>3
    <3>4. CASE m # 0
      <4>1. F[m] \in T
            BY <3>1, <3>4, <1>n
      <4>2. m + 1 # 1 /\ (m + 1) - 1 = m
            BY <3>4
      <4>3. F[m + 1] = IF m + 1 = 1 THEN q[m + 1] ELSE F[(m + 1) - 1] \o q[m + 1]
            BY <3>1, <2>3
      <4>4. F[m + 1] = F[m] \o q[m + 1]
            BY <4>2, <4>3
      <4> QED BY <3>2, <4>1, <4>4 DEF ClosedUnderConcat
    <3> QED BY <3>3, <3>4
  <2>6. n \in S
    <3>1. S \subseteq Nat
          OBVIOUS
    <3> HIDE DEF S
    <3> QED BY <2>4, <2>5, <3>1, <1>n, SetInduction
  <2> QED BY <1>2, <2>2, <2>6, <1>n
<1> QED BY <1>1, <1>2

\* The same for the bodies of a loop that may run zero times.
LEMMA FlatIn ==
    ASSUME NEW T, <<>> \in T, ClosedUnderConcat(T), NEW n \in Int, NEW q \in [1 .. n -> T]
    PROVE  FlattenSeq(q) \in T
<1>1. q \in Seq(T)
      OBVIOUS
<1> QED BY <1>1, FlattenIn

----------------------------------------------------------------------------
(* Sequences of instructions *)

LEMMA InstrFields ==
    ASSUME NEW i \in Instrs
    PROVE  /\ i.op = "copy" => i.slot \in Slots /\ i.tile \in Int
           /\ i.op = "wait" => i.n \in Nat
BY DEF Instrs

LEMMA QuietIsBatch == Quiet \subseteq Batches
BY DEF Quiet, Batches, CopyFree, Committed

LEMMA EmptyQuiet == <<>> \in Quiet /\ <<>> \in Batches
BY DEF Quiet, Batches, CopyFree, Committed

LEMMA QuietClosed == ClosedUnderConcat(Quiet)
<1>1. SUFFICES ASSUME NEW c \in Quiet, NEW d \in Quiet PROVE c \o d \in Quiet
      BY DEF ClosedUnderConcat
<1>2. c \in Seq(Instrs) /\ d \in Seq(Instrs)
      BY DEF Quiet
<1>3. /\ c \o d \in Seq(Instrs) /\ Len(c \o d) = Len(c) + Len(d)
      /\ \A i \in 1 .. Len(c) + Len(d) :
            (c \o d)[i] = IF i <= Len(c) THEN c[i] ELSE d[i - Len(c)]
      BY <1>2, ConcatProperties
<1>4. ASSUME NEW i \in 1 .. Len(c \o d) PROVE (c \o d)[i].op # "copy"
  <2>1. CASE i <= Len(c)
        BY <2>1, <1>2, <1>3 DEF Quiet, CopyFree
  <2>2. CASE i > Len(c)
    <3>1. i - Len(c) \in 1 .. Len(d)
          BY <2>2, <1>2, <1>3
    <3> QED BY <3>1, <2>2, <1>2, <1>3 DEF Quiet, CopyFree
  <2> QED BY <2>1, <2>2, <1>2, <1>3
<1> QED BY <1>3, <1>4 DEF Quiet, CopyFree

LEMMA BatchesClosed == ClosedUnderConcat(Batches)
<1>1. SUFFICES ASSUME NEW c \in Batches, NEW d \in Batches PROVE c \o d \in Batches
      BY DEF ClosedUnderConcat
<1>2. c \in Seq(Instrs) /\ d \in Seq(Instrs)
      BY DEF Batches
<1>3. /\ c \o d \in Seq(Instrs) /\ Len(c \o d) = Len(c) + Len(d)
      /\ \A i \in 1 .. Len(c) + Len(d) :
            (c \o d)[i] = IF i <= Len(c) THEN c[i] ELSE d[i - Len(c)]
      BY <1>2, ConcatProperties
<1>4. ASSUME NEW i \in 1 .. Len(c \o d), (c \o d)[i].op = "copy"
      PROVE  \E j \in i + 1 .. Len(c \o d) : (c \o d)[j].op = "commit"
  <2>1. CASE i <= Len(c)
    <3>1. PICK j \in i + 1 .. Len(c) : c[j].op = "commit"
          BY <2>1, <1>2, <1>3, <1>4 DEF Batches, Committed
    <3>2. j \in i + 1 .. Len(c \o d) /\ (c \o d)[j] = c[j]
          BY <3>1, <1>2, <1>3
    <3> QED BY <3>1, <3>2
  <2>2. CASE i > Len(c)
    <3>1. i - Len(c) \in 1 .. Len(d) /\ (c \o d)[i] = d[i - Len(c)]
          BY <2>2, <1>2, <1>3
    <3>2. PICK j \in (i - Len(c)) + 1 .. Len(d) : d[j].op = "commit"
          BY <3>1, <1>2, <1>4 DEF Batches, Committed
    <3>3. j + Len(c) \in i + 1 .. Len(c \o d) /\ (c \o d)[j + Len(c)] = d[j]
          BY <3>1, <3>2, <1>2, <1>3
    <3> QED BY <3>2, <3>3
  <2> QED BY <2>1, <2>2, <1>2, <1>3
<1> QED BY <1>3, <1>4 DEF Batches, Committed

\* A commit takes whatever was issued before it.
LEMMA CommitAfter ==
    ASSUME NEW c \in Seq(Instrs)
    PROVE  c \o <<Commit>> \in Batches
<1>1. Commit \in Instrs /\ Commit.op = "commit"
      BY DEF Commit, Instrs
<1>2. <<Commit>> \in Seq(Instrs) /\ Len(<<Commit>>) = 1 /\ <<Commit>>[1] = Commit
      BY <1>1
<1>3. /\ c \o <<Commit>> \in Seq(Instrs) /\ Len(c \o <<Commit>>) = Len(c) + 1
      /\ \A i \in 1 .. Len(c) + 1 :
            (c \o <<Commit>>)[i] = IF i <= Len(c) THEN c[i] ELSE <<Commit>>[i - Len(c)]
      BY <1>2, ConcatProperties
<1>4. (c \o <<Commit>>)[Len(c) + 1] = Commit
      BY <1>2, <1>3
<1>5. ASSUME NEW i \in 1 .. Len(c) + 1, (c \o <<Commit>>)[i].op = "copy"
      PROVE  Len(c) + 1 \in i + 1 .. Len(c) + 1
  <2>1. i # Len(c) + 1
        BY <1>1, <1>4, <1>5
  <2> QED BY <2>1
<1> QED BY <1>1, <1>3, <1>4, <1>5 DEF Batches, Committed

LEMMA FlatQuiet ==
    ASSUME NEW n \in Int, NEW q \in [1 .. n -> Quiet]
    PROVE  FlattenSeq(q) \in Quiet
<1>1. q \in Seq(Quiet)
      OBVIOUS
<1> QED BY <1>1, QuietClosed, EmptyQuiet, FlattenIn

LEMMA FlatBatches ==
    ASSUME NEW n \in Int, NEW q \in [1 .. n -> Batches]
    PROVE  FlattenSeq(q) \in Batches
<1>1. q \in Seq(Batches)
      OBVIOUS
<1> QED BY <1>1, BatchesClosed, EmptyQuiet, FlattenIn

LEMMA FlatInstrs ==
    ASSUME NEW n \in Int, NEW q \in [1 .. n -> Seq(Instrs)]
    PROVE  FlattenSeq(q) \in Seq(Instrs)
<1>1. q \in Seq(Seq(Instrs))
      OBVIOUS
<1>2. ClosedUnderConcat(Seq(Instrs)) /\ <<>> \in Seq(Instrs)
      BY DEF ClosedUnderConcat
<1> QED BY <1>1, <1>2, FlattenIn

LEMMA QuietSettles ==
    ASSUME NEW c \in Quiet
    PROVE  c \in Seq(Instrs) /\ Settles(c, {}, {})
BY DEF Quiet, Settles

\* Batches of copies, and then a wait for all of them before anything else.
LEMMA DrainSettles ==
    ASSUME NEW c \in Batches, NEW d \in Quiet, d # <<>>, d[1] = Wait(0)
    PROVE  c \o d \in Seq(Instrs) /\ Settles(c \o d, {}, {})
<1>2. c \in Seq(Instrs) /\ d \in Seq(Instrs) /\ Len(d) \in Nat \ {0}
      BY DEF Batches, Quiet
<1>3. /\ c \o d \in Seq(Instrs) /\ Len(c \o d) = Len(c) + Len(d)
      /\ \A i \in 1 .. Len(c) + Len(d) :
            (c \o d)[i] = IF i <= Len(c) THEN c[i] ELSE d[i - Len(c)]
      BY <1>2, ConcatProperties
<1> DEFINE j == Len(c) + 1
<1>4. j \in 1 .. Len(c \o d) /\ (c \o d)[j] = Wait(0)
      BY <1>2, <1>3
<1>5. ASSUME NEW i \in j + 1 .. Len(c \o d) PROVE (c \o d)[i].op # "copy"
  <2>1. i - Len(c) \in 1 .. Len(d) /\ (c \o d)[i] = d[i - Len(c)]
        BY <1>2, <1>3
  <2> QED BY <2>1 DEF Quiet, CopyFree
<1>6. ASSUME NEW i \in 1 .. j - 1, (c \o d)[i].op = "copy"
      PROVE  \E k \in i + 1 .. j - 1 : (c \o d)[k].op = "commit"
  <2>1. i \in 1 .. Len(c) /\ (c \o d)[i] = c[i]
        BY <1>2, <1>3
  <2>2. PICK k \in i + 1 .. Len(c) : c[k].op = "commit"
        BY <2>1, <1>6 DEF Batches, Committed
  <2>3. k \in i + 1 .. j - 1 /\ (c \o d)[k] = c[k]
        BY <2>1, <2>2, <1>2, <1>3
  <2> QED BY <2>2, <2>3
<1>7. SettlesAt(c \o d, j, {})
  <2>1. Wait(0).op = "wait" /\ Wait(0).n = 0
        BY DEF Wait
  <2> QED BY <2>1, <1>4, <1>5, <1>6 DEF SettlesAt
<1> QED BY <1>3, <1>4, <1>7 DEF Settles

----------------------------------------------------------------------------
(* What an instruction leaves of the rest *)

LEMMA TailOf ==
    ASSUME NEW c \in Seq(Instrs), c # <<>>
    PROVE  /\ Tail(c) \in Seq(Instrs) /\ Len(c) \in Nat \ {0} /\ Len(Tail(c)) = Len(c) - 1
           /\ \A i \in 1 .. Len(c) - 1 : Tail(c)[i] = c[i + 1]
           /\ Head(c) = c[1] /\ Head(c) \in Instrs
BY HeadTailProperties

\* The promise passes from c to its tail: what was open stays open unless the head
\* is a commit, and a copy opens.
LEMMA SettlesTail ==
    ASSUME NEW c \in Seq(Instrs), c # <<>>, NEW o, NEW j \in 2 .. Len(c),
           SettlesAt(c, j, o), NEW p,
           p # {} => \/ o # {} /\ c[1].op # "commit"
                     \/ c[1].op = "copy"
    PROVE  j - 1 \in 1 .. Len(Tail(c)) /\ SettlesAt(Tail(c), j - 1, p)
<1>1. /\ Len(c) \in Nat \ {0} /\ Len(Tail(c)) = Len(c) - 1
      /\ \A i \in 1 .. Len(c) - 1 : Tail(c)[i] = c[i + 1]
      BY TailOf
<1>2. j - 1 \in 1 .. Len(Tail(c)) /\ Tail(c)[j - 1] = c[j]
      BY <1>1
<1>3. ASSUME NEW i \in (j - 1) + 1 .. Len(Tail(c)) PROVE Tail(c)[i].op # "copy"
  <2>1. i + 1 \in j + 1 .. Len(c) /\ Tail(c)[i] = c[i + 1]
        BY <1>1
  <2> QED BY <2>1 DEF SettlesAt
<1>4. ASSUME NEW i \in 1 .. (j - 1) - 1, Tail(c)[i].op = "copy"
      PROVE  \E k \in i + 1 .. (j - 1) - 1 : Tail(c)[k].op = "commit"
  <2>1. i + 1 \in 1 .. j - 1 /\ Tail(c)[i] = c[i + 1]
        BY <1>1
  <2>2. PICK k \in (i + 1) + 1 .. j - 1 : c[k].op = "commit"
        BY <2>1, <1>4 DEF SettlesAt
  <2>3. k - 1 \in i + 1 .. (j - 1) - 1 /\ Tail(c)[k - 1] = c[k]
        BY <2>2, <1>1
  <2> QED BY <2>2, <2>3
<1>5. ASSUME p # {} PROVE \E k \in 1 .. (j - 1) - 1 : Tail(c)[k].op = "commit"
  <2>1. PICK k \in 2 .. j - 1 : c[k].op = "commit"
    <3>1. CASE o # {} /\ c[1].op # "commit"
      <4>1. PICK k \in 1 .. j - 1 : c[k].op = "commit"
            BY <3>1 DEF SettlesAt
      <4> QED BY <4>1, <3>1
    <3>2. CASE c[1].op = "copy"
      <4>1. 1 \in 1 .. j - 1
            OBVIOUS
      <4> QED BY <4>1, <3>2 DEF SettlesAt
    <3> QED BY <1>5, <3>1, <3>2
  <2>2. k - 1 \in 1 .. (j - 1) - 1 /\ Tail(c)[k - 1] = c[k]
        BY <2>1, <1>1
  <2> QED BY <2>1, <2>2
<1> QED BY <1>2, <1>3, <1>4, <1>5 DEF SettlesAt

LEMMA CopyFreeTail ==
    ASSUME NEW c \in Seq(Instrs), c # <<>>, CopyFree(c)
    PROVE  CopyFree(Tail(c)) /\ c[1].op # "copy"
<1>1. /\ Len(c) \in Nat \ {0} /\ Len(Tail(c)) = Len(c) - 1
      /\ \A i \in 1 .. Len(c) - 1 : Tail(c)[i] = c[i + 1]
      BY TailOf
<1>2. ASSUME NEW i \in 1 .. Len(Tail(c)) PROVE Tail(c)[i].op # "copy"
  <2>1. i + 1 \in 1 .. Len(c) /\ Tail(c)[i] = c[i + 1]
        BY <1>1
  <2> QED BY <2>1 DEF CopyFree
<1>3. 1 \in 1 .. Len(c)
      BY <1>1
<1> QED BY <1>2, <1>3 DEF CopyFree

LEMMA AfterCopy ==
    ASSUME NEW c \in Seq(Instrs), c # <<>>, NEW o, NEW f,
           Settles(c, o, f), c[1].op = "copy", NEW p, NEW g
    PROVE  Settles(Tail(c), p, g)
<1>1. PICK j \in 1 .. Len(c) : SettlesAt(c, j, o)
      BY CopyFreeTail DEF Settles
<1>2. j \in 2 .. Len(c)
      BY <1>1, TailOf DEF SettlesAt
<1> QED BY <1>1, <1>2, SettlesTail DEF Settles

LEMMA AfterCommit ==
    ASSUME NEW c \in Seq(Instrs), c # <<>>, NEW o, NEW f,
           Settles(c, o, f), c[1].op = "commit"
    PROVE  Settles(Tail(c), {}, f)
<1>1. CASE CopyFree(c) /\ o = {} /\ f = {}
      BY <1>1, CopyFreeTail DEF Settles
<1>2. CASE \E j \in 1 .. Len(c) : SettlesAt(c, j, o)
  <2>1. PICK j \in 1 .. Len(c) : SettlesAt(c, j, o)
        BY <1>2
  <2>2. j \in 2 .. Len(c)
        BY <2>1, TailOf DEF SettlesAt
  <2> QED BY <2>1, <2>2, SettlesTail DEF Settles
<1> QED BY <1>1, <1>2 DEF Settles

\* g says that some copy is still in flight after the wait.
LEMMA AfterWait ==
    ASSUME NEW c \in Seq(Instrs), c # <<>>, NEW o, NEW f,
           Settles(c, o, f), c[1].op = "wait", NEW g, g # {} => f # {},
           c[1].n = 0 /\ o = {} => g = {}
    PROVE  Settles(Tail(c), o, g)
<1>1. CASE CopyFree(c) /\ o = {} /\ f = {}
      BY <1>1, CopyFreeTail DEF Settles
<1>2. CASE \E j \in 2 .. Len(c) : SettlesAt(c, j, o)
      BY <1>2, SettlesTail DEF Settles
<1>3. CASE SettlesAt(c, 1, o)
  <2>1. o = {} /\ g = {}
        BY <1>3 DEF SettlesAt
  <2>2. ASSUME NEW i \in 1 .. Len(Tail(c)) PROVE Tail(c)[i].op # "copy"
    <3>1. i + 1 \in 1 + 1 .. Len(c) /\ Tail(c)[i] = c[i + 1]
          BY TailOf
    <3> QED BY <3>1, <1>3 DEF SettlesAt
  <2> QED BY <2>1, <2>2 DEF Settles, CopyFree
<1>4. \A j \in 1 .. Len(c) : j = 1 \/ j \in 2 .. Len(c)
      BY TailOf
<1> QED BY <1>1, <1>2, <1>3, <1>4 DEF Settles

LEMMA AfterOther ==
    ASSUME NEW c \in Seq(Instrs), c # <<>>, NEW o, NEW f,
           Settles(c, o, f), c[1].op \notin {"copy", "commit", "wait"}
    PROVE  Settles(Tail(c), o, f)
<1>1. CASE CopyFree(c) /\ o = {} /\ f = {}
      BY <1>1, CopyFreeTail DEF Settles
<1>2. CASE \E j \in 1 .. Len(c) : SettlesAt(c, j, o)
  <2>1. PICK j \in 1 .. Len(c) : SettlesAt(c, j, o)
        BY <1>2
  <2>2. j \in 2 .. Len(c)
        BY <2>1, TailOf DEF SettlesAt
  <2> QED BY <2>1, <2>2, SettlesTail DEF Settles
<1> QED BY <1>1, <1>2 DEF Settles

----------------------------------------------------------------------------
(* The code of the kernels *)

LEMMA LaunchTypes ==
    ASSUME NEW l \in Launches
    PROVE  /\ l.kind \in {"f16", "swiglu", "fp8", "int8", "rmsnorm", "attention"}
           /\ l.wm \in Nat \ {0} /\ l.wn \in Nat \ {0} /\ l.ck \in Nat \ {0}
           /\ l.M \in Int /\ l.N \in Int /\ l.K \in Int /\ l.fit \in Int
           /\ l.spread \in BOOLEAN /\ l.padded \in BOOLEAN /\ l.fused \in BOOLEAN
           /\ l.split \in BOOLEAN /\ l.fp8stages \in 0 .. MaxRaw /\ l.gqa \in Nat \ {0}
           /\ l.gx \in Nat \ {0} /\ l.gy \in Nat \ {0} /\ l.gz \in Nat \ {0}
BY DEF Launches

LEMMA DivMod ==
    ASSUME NEW a \in Int, NEW d \in Nat \ {0}
    PROVE  a \div d \in Int /\ a % d \in 0 .. d - 1
OBVIOUS

LEMMA StageTypes ==
    ASSUME NEW l \in Launches
    PROVE  /\ KTiles(l) \in Int
           /\ Stages(l) \in Nat \ {0}
           /\ \A x \in Int : Tile(x % Stages(l)) \in Slots
           /\ \A s \in 0 .. Stages(l) - 1 : Tile(s) \in Slots
           /\ Tile(0) \in Slots /\ \A x \in Int : Tile(x % 2) \in Slots
           /\ \A s \in 0 .. l.fp8stages - 1 : Raw(s) \in Slots
           /\ l.fp8stages > 0 => \A x \in Int : Raw(x % l.fp8stages) \in Slots
<1>1. RequestedStages \in Nat /\ MaxRaw \in Nat
      BY LaunchAssumption
<1>2. KTiles(l) \in Int
  <2>1. l.K + l.ck - 1 \in Int
        BY LaunchTypes
  <2> QED BY <2>1, LaunchTypes, DivMod DEF KTiles
<1>3. Stages(l) \in Nat \ {0} /\ Stages(l) - 1 <= imax(RequestedStages, 2) - 1
      BY <1>1, <1>2, LaunchTypes DEF Stages, imin, imax
<1>4. imax(RequestedStages, 2) \in Nat /\ 2 <= imax(RequestedStages, 2)
      BY <1>1 DEF imax
<1>5. \A s \in 0 .. imax(RequestedStages, 2) - 1 : Tile(s) \in Slots
      BY DEF Slots
<1>6. \A s \in 0 .. MaxRaw - 1 : Raw(s) \in Slots
      BY DEF Slots
<1> HIDE DEF Stages, KTiles
<1>7. \A s \in 0 .. Stages(l) - 1 : Tile(s) \in Slots
      BY <1>3, <1>4, <1>5
<1>8. \A x \in Int : Tile(x % Stages(l)) \in Slots
      BY <1>3, <1>7, DivMod
<1>9. \A s \in 0 .. 1 : Tile(s) \in Slots
      BY <1>4, <1>5
<1>10. \A x \in Int : Tile(x % 2) \in Slots
  <2>1. \A x \in Int : x % 2 \in 0 .. 1
        OBVIOUS
  <2> QED BY <2>1, <1>9
<1>11. \A s \in 0 .. l.fp8stages - 1 : Raw(s) \in Slots
      BY <1>1, <1>6, LaunchTypes
<1>12. ASSUME l.fp8stages > 0, NEW x \in Int PROVE Raw(x % l.fp8stages) \in Slots
  <2>1. l.fp8stages \in Nat \ {0}
        BY <1>12, LaunchTypes
  <2> QED BY <2>1, <1>11, DivMod
<1> QED BY <1>2, <1>3, <1>7, <1>8, <1>9, <1>10, <1>11, <1>12

\* What one instruction is.
LEMMA OneQuiet ==
    ASSUME NEW i \in Instrs, i.op # "copy"
    PROVE  <<i>> \in Quiet
BY DEF Quiet, CopyFree

LEMMA BarQuiet == Bar \in Instrs /\ Bar.op # "copy" /\ Commit \in Instrs /\ Commit.op # "copy"
                  /\ StoreC \in Instrs /\ StoreC.op # "copy"
BY DEF Bar, Commit, StoreC, Instrs

LEMMA WaitQuiet ==
    ASSUME NEW n \in Nat
    PROVE  Wait(n) \in Instrs /\ Wait(n).op # "copy"
BY DEF Wait, Instrs

LEMMA CopyInstr ==
    ASSUME NEW s \in Slots, NEW t \in Int
    PROVE  Copy(s, t) \in Instrs /\ Store(s, t) \in Instrs /\ Store(s, t).op # "copy"
BY DEF Copy, Store, Instrs

LEMMA RegsInstr ==
    ASSUME NEW s \in Slots, NEW f \in Slots, NEW t \in Int
    PROVE  /\ LoadRegs(t) \in Instrs /\ LoadRegs(t).op # "copy"
           /\ StoreRegs(s) \in Instrs /\ StoreRegs(s).op # "copy"
           /\ Convert(f, s) \in Instrs /\ Convert(f, s).op # "copy"
BY DEF LoadRegs, StoreRegs, Convert, Instrs

LEMMA MmaInstr ==
    ASSUME NEW s \in Slots, NEW i \in Int, NEW b \in Int
    PROVE  Mma(s, i, b) \in Instrs /\ Mma(s, i, b).op # "copy"
BY DEF Mma, Instrs

LEMMA EpilogueInstr ==
    ASSUME NEW c \in Int, NEW n \in Int
    PROVE  /\ Stage(c) \in Instrs /\ Stage(c).op # "copy"
           /\ CopyOut(c, n) \in Instrs /\ CopyOut(c, n).op # "copy"
BY DEF Stage, CopyOut, Instrs

LEMMA SumInstr ==
    ASSUME NEW k \in Int, NEW r \in Int, NEW c \in Int
    PROVE  /\ Sum(k) \in Instrs /\ Sum(k).op # "copy"
           /\ RedC(r, c) \in Instrs /\ RedC(r, c).op # "copy"
           /\ PutC(r, c) \in Instrs /\ PutC(r, c).op # "copy"
BY DEF Sum, RedC, PutC, Instrs

LEMMA TokenInstr ==
    ASSUME NEW h \in Int, NEW t \in Int
    PROVE  Token(h, t) \in Instrs /\ Token(h, t).op # "copy"
BY DEF Token, Instrs

LEMMA RowInstr ==
    ASSUME NEW q \in Int
    PROVE  /\ PutPartial(q) \in Instrs /\ PutPartial(q).op # "copy"
           /\ ZeroC(q) \in Instrs /\ ZeroC(q).op # "copy"
           /\ Combine(q) \in Instrs /\ Combine(q).op # "copy"
           /\ Norm(q) \in Instrs /\ Norm(q).op # "copy"
BY DEF PutPartial, ZeroC, Combine, Norm, Instrs

LEMMA MergeInstr ==
    ASSUME NEW h \in Int, NEW q \in Int, NEW z \in Int
    PROVE  Merge(h, q, z) \in Instrs /\ Merge(h, q, z).op # "copy"
BY DEF Merge, Instrs

LEMMA FewQuiet ==
    ASSUME NEW i \in Instrs, i.op # "copy", NEW j \in Instrs, j.op # "copy",
           NEW k \in Instrs, k.op # "copy"
    PROVE  <<i>> \in Quiet /\ <<i, j>> \in Quiet /\ <<i, j, k>> \in Quiet
<1>1. <<i>> \in Quiet
      BY OneQuiet
<1>2. <<i, j>> \in Seq(Instrs) /\ \A x \in 1 .. 2 : <<i, j>>[x].op # "copy"
      OBVIOUS
<1>3. <<i, j, k>> \in Seq(Instrs) /\ \A x \in 1 .. 3 : <<i, j, k>>[x].op # "copy"
      OBVIOUS
<1> QED BY <1>1, <1>2, <1>3 DEF Quiet, CopyFree

LEMMA Join ==
    ASSUME NEW c, NEW d
    PROVE  /\ c \in Quiet /\ d \in Quiet => c \o d \in Quiet
           /\ c \in Batches /\ d \in Batches => c \o d \in Batches
           /\ c \in Batches /\ d \in Quiet => c \o d \in Batches
BY QuietClosed, BatchesClosed, QuietIsBatch DEF ClosedUnderConcat

LEMMA HeadOfConcat ==
    ASSUME NEW c \in Seq(Instrs), c # <<>>, NEW d \in Seq(Instrs)
    PROVE  c \o d # <<>> /\ (c \o d)[1] = c[1]
<1>1. Len(c) \in Nat \ {0} /\ Len(d) \in Nat
      OBVIOUS
<1>2. /\ Len(c \o d) = Len(c) + Len(d)
      /\ \A i \in 1 .. Len(c) + Len(d) :
            (c \o d)[i] = IF i <= Len(c) THEN c[i] ELSE d[i - Len(c)]
      BY ConcatProperties
<1>3. Len(c \o d) # 0 /\ (c \o d)[1] = c[1]
      BY <1>1, <1>2
<1> QED BY <1>3

LEMMA StepsQuiet ==
    ASSUME NEW l \in Launches, NEW s \in Slots, NEW from \in Int
    PROVE  Steps(l, s, from) \in Quiet
<1> DEFINE inner(b) == [i \in 1 .. l.ck - from |-> <<Mma(s, from + (i - 1), b)>>]
           q == [b \in Operands(l) |-> FlattenSeq(inner(b))]
<1>1. ASSUME NEW b \in Int PROVE FlattenSeq(inner(b)) \in Quiet
  <2>1. ASSUME NEW i \in 1 .. l.ck - from PROVE <<Mma(s, from + (i - 1), b)>> \in Quiet
        BY MmaInstr, OneQuiet
  <2>2. inner(b) \in [1 .. l.ck - from -> Quiet] /\ l.ck - from \in Int
        BY <2>1, LaunchTypes
  <2> HIDE DEF inner
  <2> QED BY <2>2, FlatQuiet
<1>2. PICK n \in Nat : Operands(l) = 1 .. n
      BY DEF Operands
<1>3. q \in [1 .. n -> Quiet]
  <2> HIDE DEF inner
  <2> QED BY <1>1, <1>2
<1>4. FlattenSeq(q) \in Quiet
  <2> HIDE DEF q
  <2> QED BY <1>3, FlatQuiet
<1> QED BY <1>4 DEF Steps, Loop

\* One slot: no copy at all.
LEMMA SyncLoopQuiet ==
    ASSUME NEW l \in Launches
    PROVE  SyncLoop(l) \in Quiet
<1> DEFINE body(k) == <<Store(Tile(0), k), Bar>> \o Steps(l, Tile(0), 0) \o <<Bar>>
           q == [i \in 1 .. KTiles(l) |-> body(i - 1)]
<1>1. ASSUME NEW k \in Int PROVE body(k) \in Quiet
  <2>1. <<Store(Tile(0), k), Bar>> \in Quiet /\ <<Bar>> \in Quiet
        BY StageTypes, CopyInstr, BarQuiet, FewQuiet
  <2>2. Steps(l, Tile(0), 0) \in Quiet
        BY StageTypes, StepsQuiet
  <2> QED BY <2>1, <2>2, Join
<1>2. q \in [1 .. KTiles(l) -> Quiet]
  <2>1. \A i \in 1 .. KTiles(l) : body(i - 1) \in Quiet
    <3> HIDE DEF body
    <3> QED BY <1>1, StageTypes
  <2> HIDE DEF body
  <2> QED BY <2>1
<1>3. FlattenSeq(q) \in Quiet
  <2> HIDE DEF q
  <2> QED BY <1>2, StageTypes, FlatQuiet
<1> QED BY <1>3 DEF SyncLoop, Loop

LEMMA CopyCommit ==
    ASSUME NEW s \in Slots, NEW t \in Int
    PROVE  <<Copy(s, t), Commit>> \in Batches
<1>1. Copy(s, t) \in Instrs /\ Commit \in Instrs /\ Commit.op = "commit"
      BY CopyInstr, BarQuiet DEF Commit
<1> QED BY <1>1 DEF Batches, Committed

LEMMA BodyBatch ==
    ASSUME NEW l \in Launches, Stages(l) >= 2, NEW k \in Int
    PROVE  Body(l, k) \in Batches
<1> DEFINE n == Stages(l)
           next == k + n - 1
           write == Tile(next % n)
<1>1. n \in Nat /\ n - 2 \in Nat /\ next \in Int /\ write \in Slots /\ Tile(k % n) \in Slots
      BY StageTypes
<1> HIDE DEF n, next, write
<1>2. <<Wait(n - 2), Bar>> \in Quiet
      BY <1>1, WaitQuiet, BarQuiet, FewQuiet
<1>3. Steps(l, Tile(k % n), 0) \in Quiet /\ Steps(l, Tile(k % n), 1) \in Quiet
      BY <1>1, StepsQuiet
<1>4. <<Wait(n - 2), Bar, Mma(Tile(k % n), 0, 1), SpreadCopy(write, next)>>
         \o Steps(l, Tile(k % n), 1) \o <<Commit>> \in Batches
  <2>1. <<Wait(n - 2), Bar, Mma(Tile(k % n), 0, 1), SpreadCopy(write, next)>> \in Seq(Instrs)
        BY <1>1, WaitQuiet, BarQuiet, MmaInstr, CopyInstr DEF SpreadCopy
  <2>2. Steps(l, Tile(k % n), 1) \in Seq(Instrs)
        BY <1>3 DEF Quiet
  <2> QED BY <2>1, <2>2, ConcatProperties, CommitAfter
<1>5. <<Copy(write, next), Commit>> \o Steps(l, Tile(k % n), 0) \o <<Wait(n - 2), Bar>> \in Batches
  <2>1. <<Copy(write, next), Commit>> \in Batches
        BY <1>1, CopyCommit
  <2> QED BY <2>1, <1>2, <1>3, Join
<1>6. Body(l, k) \in
         {<<Wait(n - 2), Bar, Mma(Tile(k % n), 0, 1), SpreadCopy(write, next)>>
             \o Steps(l, Tile(k % n), 1) \o <<Commit>>,
          <<Copy(write, next), Commit>> \o Steps(l, Tile(k % n), 0) \o <<Wait(n - 2), Bar>>}
      BY DEF Body, n, next, write
<1> QED BY <1>4, <1>5, <1>6

LEMMA PrologueBatch ==
    ASSUME NEW l \in Launches, Stages(l) >= 2
    PROVE  Prologue(l) \in Batches
<1> DEFINE n == Stages(l)
           q == [i \in 1 .. n - 1 |-> <<Copy(Tile(i - 1), i - 1), Commit>>]
<1>1. n \in Nat /\ n - 2 \in Nat /\ \A s \in 0 .. n - 1 : Tile(s) \in Slots
      BY StageTypes
<1> HIDE DEF n
<1>2. q \in [1 .. n - 1 -> Batches]
  <2>1. ASSUME NEW i \in 1 .. n - 1 PROVE <<Copy(Tile(i - 1), i - 1), Commit>> \in Batches
    <3>1. i - 1 \in 0 .. n - 1 /\ i - 1 \in Int
          BY <1>1
    <3> QED BY <1>1, <3>1, CopyCommit
  <2> QED BY <2>1
<1>3. FlattenSeq(q) \in Batches
  <2> HIDE DEF q
  <2> QED BY <1>1, <1>2, FlatBatches
<1>4. When(~l.spread, <<Wait(n - 2), Bar>>) \in Quiet
  <2>1. <<Wait(n - 2), Bar>> \in Quiet
        BY <1>1, WaitQuiet, BarQuiet, FewQuiet
  <2> QED BY <2>1, EmptyQuiet DEF When
<1>5. FlattenSeq(q) \o When(~l.spread, <<Wait(n - 2), Bar>>) \in Batches
  <2> HIDE DEF q
  <2> QED BY <1>3, <1>4, Join
<1> QED BY <1>5 DEF Prologue, Loop, n

LEMMA BandEpilogueQuiet ==
    ASSUME NEW l \in Launches, NEW w \in Nat
    PROVE  BandEpilogue(l, w) \in Quiet
<1> DEFINE body(n) == When(WarpN(l, w) = n, <<Stage(0)>>) \o <<Bar, CopyOut(0, n), Bar>>
           q == [i \in 1 .. l.wn |-> body(i - 1)]
<1>1. ASSUME NEW n \in Int PROVE body(n) \in Quiet
  <2>1. <<Stage(0)>> \in Quiet /\ <<Bar, CopyOut(0, n), Bar>> \in Quiet
    <3>1. /\ Stage(0) \in Instrs /\ Stage(0).op # "copy"
          /\ CopyOut(0, n) \in Instrs /\ CopyOut(0, n).op # "copy"
          BY EpilogueInstr
    <3> QED BY <3>1, BarQuiet, FewQuiet
  <2>2. When(WarpN(l, w) = n, <<Stage(0)>>) \in Quiet
        BY <2>1, EmptyQuiet DEF When
  <2> QED BY <2>1, <2>2, Join
<1>2. q \in [1 .. l.wn -> Quiet]
  <2>1. \A i \in 1 .. l.wn : body(i - 1) \in Quiet
    <3> HIDE DEF body
    <3> QED BY <1>1, LaunchTypes
  <2> HIDE DEF body
  <2> QED BY <2>1
<1>3. FlattenSeq(q) \in Quiet
  <2>1. l.wn \in Int
        BY LaunchTypes
  <2> HIDE DEF q
  <2> QED BY <1>2, <2>1, FlatQuiet
<1> QED BY <1>3 DEF BandEpilogue, Loop

\* What a warp is given settles its copies.
Clean(c) == c \in Seq(Instrs) /\ Settles(c, {}, {})

LEMMA GemmClean ==
    ASSUME NEW l \in Launches, NEW w \in Nat
    PROVE  Clean(GemmCode(l, w))
<1>1. BandEpilogue(l, w) \in Quiet
      BY BandEpilogueQuiet
<1>2. CASE Stages(l) < 2
  <2>1. SyncLoop(l) \o BandEpilogue(l, w) \in Quiet
        BY <1>1, SyncLoopQuiet, Join
  <2> QED BY <1>2, <2>1, QuietSettles DEF GemmCode, Clean
<1>3. CASE ~(Stages(l) < 2)
  <2> DEFINE q == [i \in 1 .. KTiles(l) |-> Body(l, i - 1)]
             pipe == Prologue(l) \o FlattenSeq(q)
             rest == Drain(l) \o BandEpilogue(l, w)
  <2>1. Stages(l) >= 2
        BY <1>3, StageTypes
  <2>2. q \in [1 .. KTiles(l) -> Batches]
    <3>1. \A i \in 1 .. KTiles(l) : Body(l, i - 1) \in Batches
          BY <2>1, StageTypes, BodyBatch
    <3> QED BY <3>1
  <2>3. FlattenSeq(q) \in Batches
    <3> HIDE DEF q
    <3> QED BY <2>2, StageTypes, FlatBatches
  <2>4. pipe \in Batches
    <3> HIDE DEF q
    <3> QED BY <2>1, <2>3, PrologueBatch, Join
  <2>5. Drain(l) \in Quiet /\ Drain(l) # <<>> /\ Len(Drain(l)) = 2 /\ Drain(l)[1] = Wait(0)
        BY WaitQuiet, BarQuiet, FewQuiet DEF Drain
  <2>6. rest \in Quiet /\ rest # <<>> /\ rest[1] = Wait(0)
    <3>1. Drain(l) \in Seq(Instrs) /\ BandEpilogue(l, w) \in Seq(Instrs)
          BY <1>1, <2>5 DEF Quiet
    <3>2. rest \in Quiet
          BY <1>1, <2>5, Join
    <3>3. rest # <<>> /\ rest[1] = Drain(l)[1]
          BY <2>5, <3>1, HeadOfConcat
    <3> HIDE DEF rest
    <3> QED BY <2>5, <3>2, <3>3
  <2>7. GemmCode(l, w) = pipe \o rest
    <3>1. pipe \in Seq(Instrs) /\ Drain(l) \in Seq(Instrs) /\ BandEpilogue(l, w) \in Seq(Instrs)
          BY <1>1, <2>4, <2>5 DEF Batches, Quiet
    <3>2. GemmCode(l, w) = (pipe \o Drain(l)) \o BandEpilogue(l, w)
          BY <1>3 DEF GemmCode, PipelinedLoop, Loop
    <3> HIDE DEF pipe
    <3> QED BY <3>1, <3>2, ConcatAssociative
  <2> HIDE DEF pipe, rest
  <2> QED BY <2>4, <2>6, <2>7, DrainSettles DEF Clean
<1> QED BY <1>2, <1>3

LEMMA SwigluClean ==
    ASSUME NEW l \in Launches, NEW w \in Nat
    PROVE  Clean(SwigluCode(l, w))
<1>1. [l EXCEPT !.spread = FALSE] \in Launches
      BY DEF Launches
<1> QED BY <1>1, GemmClean DEF SwigluCode

LEMMA Fp8DoubleQuiet ==
    ASSUME NEW l \in Launches
    PROVE  Fp8DoubleLoop(l) \in Quiet
<1> DEFINE q == [i \in 1 .. KTiles(l) |-> Fp8Body(l, i - 1)]
<1>1. ASSUME NEW k \in Int PROVE Fp8Body(l, k) \in Quiet
  <2> DEFINE write == Tile((k + 1) % 2)
             valid == k + 1 < KTiles(l)
  <2>1. write \in Slots /\ Tile(k % 2) \in Slots /\ <<Bar>> \in Quiet
    <3>1. k + 1 \in Int
          OBVIOUS
    <3>2. write \in Slots /\ Tile(k % 2) \in Slots
          BY <3>1, StageTypes
    <3> QED BY <3>2, BarQuiet, OneQuiet
  <2> HIDE DEF write, valid
  <2>2. /\ LoadRegs(k + 1) \in Instrs /\ LoadRegs(k + 1).op # "copy"
        /\ StoreRegs(write) \in Instrs /\ StoreRegs(write).op # "copy"
        /\ QuantizeTile(write, k + 1) \in Instrs /\ QuantizeTile(write, k + 1).op # "copy"
        BY <2>1, RegsInstr, CopyInstr DEF QuantizeTile
  <2>3. /\ When(valid, <<LoadRegs(k + 1)>>) \in Quiet
        /\ When(valid, <<StoreRegs(write)>>) \in Quiet
        /\ <<QuantizeTile(write, k + 1)>> \in Quiet
        BY <2>2, OneQuiet, EmptyQuiet DEF When
  <2>4. Steps(l, Tile(k % 2), 0) \in Quiet /\ PaddedSteps(l, Tile(k % 2)) \in Quiet
        BY <2>1, StepsQuiet DEF PaddedSteps
  <2>5. /\ When(valid, <<LoadRegs(k + 1)>>) \o PaddedSteps(l, Tile(k % 2))
              \o When(valid, <<StoreRegs(write)>>) \o <<Bar>> \in Quiet
        /\ <<QuantizeTile(write, k + 1)>> \o Steps(l, Tile(k % 2), 0) \o <<Bar>> \in Quiet
        BY <2>1, <2>3, <2>4, Join
  <2>6. Fp8Body(l, k) \in
          {When(valid, <<LoadRegs(k + 1)>>) \o PaddedSteps(l, Tile(k % 2))
              \o When(valid, <<StoreRegs(write)>>) \o <<Bar>>,
           <<QuantizeTile(write, k + 1)>> \o Steps(l, Tile(k % 2), 0) \o <<Bar>>}
        BY DEF Fp8Body, write, valid
  <2> QED BY <2>5, <2>6
<1>2. q \in [1 .. KTiles(l) -> Quiet]
  <2>1. \A i \in 1 .. KTiles(l) : Fp8Body(l, i - 1) \in Quiet
        BY <1>1, StageTypes
  <2> QED BY <2>1
<1>3. FlattenSeq(q) \in Quiet
  <2> HIDE DEF q
  <2> QED BY <1>2, StageTypes, FlatQuiet
<1>4. <<QuantizeTile(Tile(0), 0), Bar>> \in Quiet
  <2>1. QuantizeTile(Tile(0), 0) \in Instrs /\ QuantizeTile(Tile(0), 0).op # "copy"
        BY StageTypes, CopyInstr DEF QuantizeTile
  <2> QED BY <2>1, BarQuiet, FewQuiet
<1>5. <<QuantizeTile(Tile(0), 0), Bar>> \o FlattenSeq(q) \in Quiet
  <2> HIDE DEF q
  <2> QED BY <1>3, <1>4, Join
<1> QED BY <1>5 DEF Fp8DoubleLoop, Loop

LEMMA RawCopyInstr ==
    ASSUME NEW l \in Launches, NEW s, Raw(s) \in Slots, NEW t \in Int, NEW p \in BOOLEAN
    PROVE  When(p, <<RawCopy(s, t)>>) \in Seq(Instrs)
<1>1. RawCopy(s, t) \in Instrs
      BY CopyInstr DEF RawCopy
<1> QED BY <1>1 DEF When

LEMMA Fp8PrologueBatch ==
    ASSUME NEW l \in Launches, l.fp8stages > 0
    PROVE  Fp8AsyncPrologue(l) \in Batches
<1> DEFINE body(t) == When(t < KTiles(l), <<RawCopy(t, t)>>) \o <<Commit>>
           q == [i \in 1 .. l.fp8stages |-> body(i - 1)]
<1>1. ASSUME NEW t \in 0 .. l.fp8stages - 1 PROVE body(t) \in Batches
  <2>1. Raw(t) \in Slots /\ t \in Int /\ (t < KTiles(l)) \in BOOLEAN
        BY StageTypes, LaunchTypes
  <2>2. When(t < KTiles(l), <<RawCopy(t, t)>>) \in Seq(Instrs)
        BY <2>1, RawCopyInstr
  <2> QED BY <2>2, CommitAfter
<1>2. l.fp8stages \in Nat /\ q \in [1 .. l.fp8stages -> Batches]
  <2>1. l.fp8stages \in Nat
        BY LaunchTypes
  <2>2. \A i \in 1 .. l.fp8stages : body(i - 1) \in Batches
    <3>1. \A i \in 1 .. l.fp8stages : i - 1 \in 0 .. l.fp8stages - 1
          BY <2>1
    <3> HIDE DEF body
    <3> QED BY <1>1, <3>1
  <2> HIDE DEF body
  <2> QED BY <2>1, <2>2
<1>3. FlattenSeq(q) \in Batches
  <2> HIDE DEF q
  <2> QED BY <1>2, FlatBatches
<1>4. <<Wait(l.fp8stages - 1), Bar, Convert(Raw(0), Tile(0)), Bar>> \in Quiet
  <2>1. /\ Wait(l.fp8stages - 1) \in Instrs /\ Wait(l.fp8stages - 1).op # "copy"
        /\ l.fp8stages - 1 \in Nat
        BY <1>2, WaitQuiet
  <2>2. Raw(0) \in Slots /\ Tile(0) \in Slots
    <3>1. 0 \in 0 .. l.fp8stages - 1
          BY <1>2
    <3> QED BY <3>1, StageTypes
  <2>3. Convert(Raw(0), Tile(0)) \in Instrs /\ Convert(Raw(0), Tile(0)).op # "copy"
    <3>1. 0 \in Int
          OBVIOUS
    <3> QED BY <2>2, <3>1, RegsInstr
  <2> DEFINE c == <<Wait(l.fp8stages - 1), Bar, Convert(Raw(0), Tile(0)), Bar>>
  <2>4. c \in Seq(Instrs) /\ \A i \in 1 .. 4 : c[i].op # "copy"
        BY <2>1, <2>3, BarQuiet
  <2>5. Len(c) = 4
        OBVIOUS
  <2> HIDE DEF c
  <2>6. c \in Quiet
        BY <2>4, <2>5 DEF Quiet, CopyFree
  <2> QED BY <2>6 DEF c
<1>5. FlattenSeq(q) \o <<Wait(l.fp8stages - 1), Bar, Convert(Raw(0), Tile(0)), Bar>> \in Batches
  <2> HIDE DEF q
  <2> QED BY <1>3, <1>4, Join
<1> QED BY <1>5 DEF Fp8AsyncPrologue, Loop

LEMMA Fp8BodyBatch ==
    ASSUME NEW l \in Launches, l.fp8stages > 0, NEW k \in Int
    PROVE  Fp8AsyncBody(l, k) \in Batches
<1> DEFINE s == l.fp8stages
           first == When(k + s < KTiles(l), <<RawCopy(k % s, k + s)>>)
           last == When(k + 1 < KTiles(l), <<Convert(Raw((k + 1) % s), Tile((k + 1) % 2))>>)
<1>1. s \in Nat \ {0} /\ s - 1 \in Nat /\ k + s \in Int /\ k + 1 \in Int
      BY LaunchTypes
<1>2. /\ Raw(k % s) \in Slots /\ Raw((k + 1) % s) \in Slots
      /\ Tile(k % 2) \in Slots /\ Tile((k + 1) % 2) \in Slots
      BY <1>1, StageTypes
<1>3. first \o <<Commit>> \in Batches
  <2>1. first \in Seq(Instrs)
    <3>1. (k + s < KTiles(l)) \in BOOLEAN
          BY <1>1, StageTypes
    <3> QED BY <1>1, <1>2, <3>1, RawCopyInstr
  <2> HIDE DEF first
  <2> QED BY <2>1, CommitAfter
<1>4. PaddedSteps(l, Tile(k % 2)) \in Quiet
      BY <1>2, StepsQuiet DEF PaddedSteps
<1>5. <<Wait(s - 1), Bar>> \in Quiet /\ <<Bar>> \in Quiet
      BY <1>1, WaitQuiet, BarQuiet, FewQuiet
<1>6. last \in Quiet
  <2>1. /\ Convert(Raw((k + 1) % s), Tile((k + 1) % 2)) \in Instrs
        /\ Convert(Raw((k + 1) % s), Tile((k + 1) % 2)).op # "copy"
        BY <1>1, <1>2, RegsInstr
  <2> QED BY <2>1, OneQuiet, EmptyQuiet DEF When
<1>7. Fp8AsyncBody(l, k) =
        first \o <<Commit>> \o PaddedSteps(l, Tile(k % 2)) \o <<Wait(s - 1), Bar>>
          \o last \o <<Bar>>
      BY DEF Fp8AsyncBody
<1> HIDE DEF first, last
<1> QED BY <1>3, <1>4, <1>5, <1>6, <1>7, Join

LEMMA StagedEpilogueQuiet ==
    ASSUME NEW l \in Launches, NEW w \in Nat
    PROVE  /\ StagedEpilogue(l, w) \in Quiet /\ StagedEpilogue(l, w) # <<>>
           /\ StagedEpilogue(l, w)[1] = Wait(0)
<1> DEFINE q == [i \in 1 .. l.wn |-> <<CopyOut(i - 1, i - 1)>>]
           first == <<Wait(0), Stage(WarpN(l, w)), Bar>>
<1>1. l.wn \in Int /\ WarpN(l, w) \in Int
  <2>1. l.wn \in Int /\ l.wm \in Nat \ {0}
        BY LaunchTypes
  <2> QED BY <2>1, DivMod DEF WarpN
<1>2. FlattenSeq(q) \in Quiet
  <2>1. ASSUME NEW i \in 1 .. l.wn PROVE <<CopyOut(i - 1, i - 1)>> \in Quiet
        BY <1>1, EpilogueInstr, OneQuiet
  <2>2. q \in [1 .. l.wn -> Quiet]
        BY <2>1
  <2> HIDE DEF q
  <2> QED BY <1>1, <2>2, FlatQuiet
<1>3. first \in Quiet /\ first # <<>> /\ first[1] = Wait(0)
  <2>1. Stage(WarpN(l, w)) \in Instrs /\ Stage(WarpN(l, w)).op # "copy"
        BY <1>1, EpilogueInstr
  <2> QED BY <2>1, WaitQuiet, BarQuiet, FewQuiet
<1>4. StagedEpilogue(l, w) = first \o FlattenSeq(q)
      BY DEF StagedEpilogue, Loop
<1>5. first \in Seq(Instrs) /\ FlattenSeq(q) \in Seq(Instrs)
  <2> HIDE DEF first, q
  <2> QED BY <1>2, <1>3 DEF Quiet
<1> HIDE DEF first, q
<1>6. first \o FlattenSeq(q) \in Quiet
      BY <1>2, <1>3, Join
<1> QED BY <1>3, <1>4, <1>5, <1>6, HeadOfConcat

LEMMA Fp8Clean ==
    ASSUME NEW l \in Launches, NEW w \in Nat
    PROVE  Clean(Fp8Code(l, w))
<1>1. CASE l.fp8stages > 0
  <2> DEFINE q == [i \in 1 .. KTiles(l) |-> Fp8AsyncBody(l, i - 1)]
  <2>1. FlattenSeq(q) \in Batches
    <3>1. \A i \in 1 .. KTiles(l) : Fp8AsyncBody(l, i - 1) \in Batches
          BY <1>1, StageTypes, Fp8BodyBatch
    <3>2. q \in [1 .. KTiles(l) -> Batches]
          BY <3>1
    <3> HIDE DEF q
    <3> QED BY <3>2, StageTypes, FlatBatches
  <2>2. Fp8AsyncPrologue(l) \o FlattenSeq(q) \in Batches
    <3> HIDE DEF q
    <3> QED BY <1>1, <2>1, Fp8PrologueBatch, Join
  <2>3. Fp8Code(l, w) = (Fp8AsyncPrologue(l) \o FlattenSeq(q)) \o StagedEpilogue(l, w)
        BY <1>1 DEF Fp8Code, Loop
  <2> HIDE DEF q
  <2> QED BY <2>2, <2>3, StagedEpilogueQuiet, DrainSettles DEF Clean
<1>2. CASE ~(l.fp8stages > 0)
  <2>1. Fp8DoubleLoop(l) \o <<StoreC>> \in Quiet
        BY Fp8DoubleQuiet, BarQuiet, OneQuiet, Join
  <2> QED BY <1>2, <2>1, QuietSettles DEF Fp8Code, Clean
<1> QED BY <1>1, <1>2

----------------------------------------------------------------------------
(* The kernels without copies *)

LEMMA StrideTypes ==
    ASSUME NEW lo \in Int, NEW hi \in Int, NEW step \in Nat \ {0}
    PROVE  \E n \in Nat : DOMAIN Stride(lo, step, hi) = 1 .. n
                          /\ \A i \in 1 .. n : Stride(lo, step, hi)[i] \in Int
<1> DEFINE n == imax(0, (hi - lo + step - 1) \div step)
<1>1. n \in Nat
  <2>1. (hi - lo + step - 1) \div step \in Int
        BY DivMod
  <2> QED BY <2>1 DEF imax
<1>2. Stride(lo, step, hi) = [i \in 1 .. n |-> lo + (i - 1) * step]
      BY DEF Stride
<1> HIDE DEF n
<1>3. \A i \in 1 .. n : lo + (i - 1) * step \in Int
      BY <1>1
<1> QED BY <1>1, <1>2, <1>3

\* The loops of the int8 kernel, whatever holds of each of its instructions.
LEMMA Int8In ==
    ASSUME NEW l \in Launches, NEW b \in Int \X Int \X Int, NEW w \in Nat,
           NEW T, <<>> \in T, ClosedUnderConcat(T),
           \A k, r, c \in Int : <<Sum(k)>> \in T /\ <<RedC(r, c)>> \in T /\ <<PutC(r, c)>> \in T
    PROVE  Int8Code(l, b, w) \in T
<1> DEFINE z == IF l.fused THEN 0 ELSE b[3]
           nz == IF l.fused THEN 1 ELSE l.gz
           ks == Stride(z, nz, l.K)
           rs == Stride(b[2], l.gy, l.M)
           cs == Stride(b[1], l.gx, l.N)
           tile(r, c) == FlattenSeq([i \in DOMAIN ks |-> <<Sum(ks[i])>>])
                         \o (IF l.fused THEN <<PutC(r, c)>> ELSE <<RedC(r, c)>>)
           row(c) == FlattenSeq([j \in DOMAIN rs |-> tile(rs[j], c)])
           all == FlattenSeq([i \in DOMAIN cs |-> row(cs[i])])
<1>1. /\ b[1] \in Int /\ b[2] \in Int /\ z \in Int /\ nz \in Nat \ {0}
      /\ l.gx \in Nat \ {0} /\ l.gy \in Nat \ {0} /\ l.K \in Int /\ l.M \in Int /\ l.N \in Int
      BY LaunchTypes
<1> HIDE DEF z, nz
<1>2. PICK nk \in Nat : DOMAIN ks = 1 .. nk /\ \A i \in 1 .. nk : ks[i] \in Int
      BY <1>1, StrideTypes
<1>3. PICK nr \in Nat : DOMAIN rs = 1 .. nr /\ \A i \in 1 .. nr : rs[i] \in Int
      BY <1>1, StrideTypes
<1>4. PICK nc \in Nat : DOMAIN cs = 1 .. nc /\ \A i \in 1 .. nc : cs[i] \in Int
      BY <1>1, StrideTypes
<1> HIDE DEF ks, rs, cs
<1>5. ASSUME NEW r \in Int, NEW c \in Int PROVE tile(r, c) \in T
  <2> DEFINE q == [i \in DOMAIN ks |-> <<Sum(ks[i])>>]
  <2>1. \A i \in 1 .. nk : <<Sum(ks[i])>> \in T
        BY <1>2
  <2>2. q \in [1 .. nk -> T]
        BY <1>2, <2>1
  <2>3. FlattenSeq(q) \in T
    <3> HIDE DEF q
    <3> QED BY <2>2, FlatIn
  <2>4. (IF l.fused THEN <<PutC(r, c)>> ELSE <<RedC(r, c)>>) \in T
        BY <1>1
  <2> HIDE DEF q
  <2>5. FlattenSeq(q) \o (IF l.fused THEN <<PutC(r, c)>> ELSE <<RedC(r, c)>>) \in T
        BY <2>3, <2>4 DEF ClosedUnderConcat
  <2> QED BY <2>5 DEF q
<1> HIDE DEF tile
<1>6. ASSUME NEW c \in Int PROVE row(c) \in T
  <2> DEFINE q == [j \in DOMAIN rs |-> tile(rs[j], c)]
  <2>1. q \in [1 .. nr -> T]
        BY <1>3, <1>5
  <2> HIDE DEF q
  <2>2. FlattenSeq(q) \in T
        BY <2>1, FlatIn
  <2> QED BY <2>2 DEF q
<1> HIDE DEF row
<1>7. all \in T
  <2> DEFINE q == [i \in DOMAIN cs |-> row(cs[i])]
  <2>1. q \in [1 .. nc -> T]
        BY <1>4, <1>6
  <2> HIDE DEF q
  <2>2. FlattenSeq(q) \in T
        BY <2>1, FlatIn
  <2> QED BY <2>2 DEF q
<1>8. Int8Code(l, b, w) = When(w = 0, all)
      BY DEF Int8Code, ForEach, all, row, tile, ks, rs, cs, z, nz
<1> QED BY <1>7, <1>8 DEF When

LEMMA Int8Quiet ==
    ASSUME NEW l \in Launches, NEW b \in Int \X Int \X Int, NEW w \in Nat
    PROVE  Int8Code(l, b, w) \in Quiet
<1>1. \A k, r, c \in Int :
         <<Sum(k)>> \in Quiet /\ <<RedC(r, c)>> \in Quiet /\ <<PutC(r, c)>> \in Quiet
      BY SumInstr, OneQuiet
<1> QED BY <1>1, Int8In, EmptyQuiet, QuietClosed

LEMMA AttentionQuiet ==
    ASSUME NEW l \in Launches, NEW b \in Int \X Int \X Int, NEW w \in Nat
    PROVE  AttentionCode(l, b, w) \in Quiet
<1> DEFINE chunk == (l.K + l.gz - 1) \div l.gz
           lo == IF l.split THEN b[3] * chunk ELSE 0
           hi == IF l.split THEN imin(lo + chunk, l.K) ELSE l.K
           heads == HeadsPerCta(l)
           ts == Stride(lo + w, NumWarps(l), hi)
           token(t) == FlattenSeq([i \in 1 .. heads |-> <<Token(i - 1, t)>>])
           tokens == FlattenSeq([i \in DOMAIN ts |-> token(ts[i])])
           head(h) == When(h > 0, <<Bar>>) \o <<PutPartial(h), Bar>>
                      \o When(w = 0, <<Merge(h, b[1] * heads + h, b[3])>>)
           merges == FlattenSeq([i \in 1 .. heads |-> head(i - 1)])
<1>1. /\ b[1] \in Int /\ b[3] \in Int /\ l.K \in Int /\ l.gz \in Nat \ {0}
      /\ l.wm \in Nat \ {0} /\ l.wn \in Nat \ {0} /\ l.gqa \in Nat \ {0}
      BY LaunchTypes
<1>2. heads \in Nat
      BY <1>1 DEF HeadsPerCta
<1>3. lo \in Int /\ hi \in Int
  <2>1. chunk \in Int
    <3>1. l.K + l.gz - 1 \in Int
          BY <1>1
    <3> QED BY <1>1, <3>1, DivMod
  <2> HIDE DEF chunk
  <2>2. lo \in Int
        BY <1>1, <2>1
  <2> HIDE DEF lo
  <2> QED BY <1>1, <2>1, <2>2 DEF imin
<1>4. NumWarps(l) \in Nat \ {0}
      BY <1>1 DEF NumWarps
<1> HIDE DEF chunk, lo, hi, heads
<1>5. PICK nt \in Nat : DOMAIN ts = 1 .. nt /\ \A i \in 1 .. nt : ts[i] \in Int
  <2>1. lo + w \in Int
        BY <1>3
  <2> QED BY <1>3, <1>4, <2>1, StrideTypes
<1> HIDE DEF ts
<1>6. ASSUME NEW t \in Int PROVE token(t) \in Quiet
  <2> DEFINE q == [i \in 1 .. heads |-> <<Token(i - 1, t)>>]
  <2>1. ASSUME NEW i \in 1 .. heads PROVE <<Token(i - 1, t)>> \in Quiet
    <3>1. i - 1 \in Int
          BY <1>2
    <3>2. Token(i - 1, t) \in Instrs /\ Token(i - 1, t).op # "copy"
          BY <3>1, TokenInstr
    <3> QED BY <3>2, OneQuiet
  <2>2. q \in [1 .. heads -> Quiet]
        BY <2>1
  <2> HIDE DEF q
  <2>3. FlattenSeq(q) \in Quiet
        BY <1>2, <2>2, FlatQuiet
  <2> QED BY <2>3 DEF q
<1> HIDE DEF token
<1>7. tokens \in Quiet
  <2> DEFINE q == [i \in DOMAIN ts |-> token(ts[i])]
  <2>1. q \in [1 .. nt -> Quiet]
        BY <1>5, <1>6
  <2> HIDE DEF q
  <2>2. FlattenSeq(q) \in Quiet
        BY <2>1, FlatQuiet
  <2> QED BY <2>2 DEF q
<1>8. ASSUME NEW h \in Int PROVE head(h) \in Quiet
  <2>1. b[1] * heads + h \in Int
        BY <1>1, <1>2
  <2>2. /\ PutPartial(h) \in Instrs /\ PutPartial(h).op # "copy"
        /\ Merge(h, b[1] * heads + h, b[3]) \in Instrs
        /\ Merge(h, b[1] * heads + h, b[3]).op # "copy"
        BY <1>1, <2>1, RowInstr, MergeInstr
  <2>3. When(h > 0, <<Bar>>) \in Quiet
        BY BarQuiet, OneQuiet, EmptyQuiet DEF When
  <2>4. When(w = 0, <<Merge(h, b[1] * heads + h, b[3])>>) \in Quiet
        BY <2>2, OneQuiet, EmptyQuiet DEF When
  <2>5. <<PutPartial(h), Bar>> \in Quiet
        BY <2>2, BarQuiet, FewQuiet
  <2> QED BY <2>3, <2>4, <2>5, Join
<1> HIDE DEF head
<1>9. merges \in Quiet
  <2> DEFINE q == [i \in 1 .. heads |-> head(i - 1)]
  <2>1. q \in [1 .. heads -> Quiet]
    <3>1. \A i \in 1 .. heads : i - 1 \in Int
          BY <1>2
    <3> QED BY <1>8, <3>1
  <2> HIDE DEF q
  <2>2. FlattenSeq(q) \in Quiet
        BY <1>2, <2>1, FlatQuiet
  <2> QED BY <2>2 DEF q
<1>10. When(~l.split /\ w = 0, <<ZeroC(b[1])>>) \in Quiet
  <2>1. ZeroC(b[1]) \in Instrs /\ ZeroC(b[1]).op # "copy"
        BY <1>1, RowInstr
  <2> QED BY <2>1, OneQuiet, EmptyQuiet DEF When
<1>11. AttentionCode(l, b, w) =
          IF l.K <= 0 THEN When(~l.split /\ w = 0, <<ZeroC(b[1])>>) ELSE tokens \o merges
       BY DEF AttentionCode, ForEach, Loop, tokens, merges, token, head, ts, heads, hi, lo, chunk
<1> HIDE DEF tokens, merges
<1>12. tokens \o merges \in Quiet
       BY <1>7, <1>9, Join
<1> QED BY <1>10, <1>11, <1>12

LEMMA CombineQuiet ==
    ASSUME NEW l \in Launches, NEW b \in Int \X Int \X Int, NEW w \in Nat
    PROVE  CombineCode(l, b, w) \in Quiet
<1>1. /\ ZeroC(b[1]) \in Instrs /\ ZeroC(b[1]).op # "copy"
      /\ Combine(b[1]) \in Instrs /\ Combine(b[1]).op # "copy"
      BY RowInstr
<1>2. <<ZeroC(b[1])>> \in Quiet /\ <<Combine(b[1])>> \in Quiet
      BY <1>1, OneQuiet
<1> QED BY <1>2, EmptyQuiet DEF CombineCode, When

LEMMA NormQuiet ==
    ASSUME NEW l \in Launches, NEW b \in Int \X Int \X Int, NEW w \in Nat
    PROVE  NormCode(l, b, w) \in Quiet
<1> DEFINE ks == Stride(w, NumWarps(l), l.K)
           q == [i \in DOMAIN ks |-> <<Token(0, ks[i])>>]
<1>1. /\ b[1] \in Int /\ l.K \in Int /\ l.wm \in Nat \ {0} /\ l.wn \in Nat \ {0}
      BY LaunchTypes
<1>2. NumWarps(l) \in Nat \ {0}
      BY <1>1 DEF NumWarps
<1>3. PICK nk \in Nat : DOMAIN ks = 1 .. nk /\ \A i \in 1 .. nk : ks[i] \in Int
  <2>1. w \in Int
        OBVIOUS
  <2> QED BY <1>1, <1>2, <2>1, StrideTypes
<1> HIDE DEF ks
<1>4. FlattenSeq(q) \in Quiet
  <2>1. \A t \in Int : <<Token(0, t)>> \in Quiet
        BY TokenInstr, OneQuiet
  <2>2. q \in [1 .. nk -> Quiet]
        BY <1>3, <2>1
  <2> HIDE DEF q
  <2> QED BY <2>2, FlatQuiet
<1>5. /\ PutPartial(0) \in Instrs /\ PutPartial(0).op # "copy"
      /\ Norm(b[1]) \in Instrs /\ Norm(b[1]).op # "copy"
      BY <1>1, RowInstr
<1>6. <<PutPartial(0)>> \in Quiet /\ <<Norm(b[1])>> \in Quiet /\ <<Bar>> \in Quiet
      BY <1>5, BarQuiet, OneQuiet
<1>7. When(NumWarps(l) > 1, <<Bar>>) \in Quiet
      BY <1>6, EmptyQuiet DEF When
<1>8. NormCode(l, b, w) =
         FlattenSeq(q) \o <<PutPartial(0)>> \o When(NumWarps(l) > 1, <<Bar>>) \o <<Norm(b[1])>>
      BY DEF NormCode, ForEach, ks
<1> HIDE DEF q
<1> QED BY <1>4, <1>6, <1>7, <1>8, Join

LEMMA CodeClean ==
    ASSUME NEW l \in Launches, NEW e, NEW b \in Int \X Int \X Int, NEW w \in Nat
    PROVE  Clean(Code(l, e, b, w))
<1>1. CASE l.kind = "f16"
      BY <1>1, GemmClean DEF Code
<1>2. CASE l.kind = "swiglu"
      BY <1>2, SwigluClean DEF Code
<1>3. CASE l.kind = "fp8"
      BY <1>3, Fp8Clean DEF Code
<1>4. CASE l.kind = "int8"
  <2>1. Code(l, e, b, w) = Int8Code(l, b, w)
        BY <1>4 DEF Code
  <2> QED BY <2>1, Int8Quiet, QuietSettles DEF Clean
<1>5. CASE l.kind = "rmsnorm"
  <2>1. Code(l, e, b, w) = NormCode(l, b, w)
        BY <1>5 DEF Code
  <2> QED BY <2>1, NormQuiet, QuietSettles DEF Clean
<1>6. CASE l.kind = "attention"
  <2>1. Code(l, e, b, w) = IF e = "reduce" THEN CombineCode(l, b, w) ELSE AttentionCode(l, b, w)
        BY <1>6 DEF Code
  <2> QED BY <2>1, AttentionQuiet, CombineQuiet, QuietSettles DEF Clean
<1> QED BY <1>1, <1>2, <1>3, <1>4, <1>5, <1>6, LaunchTypes

----------------------------------------------------------------------------
(* The invariant *)

LEMMA SettledAtEnd ==
    ASSUME NEW o, NEW f, Settles(<<>>, o, f)
    PROVE  o = {} /\ f = {}
BY DEF Settles

LEMMA EmptySettles == Settles(<<>>, {}, {})
BY DEF Settles, CopyFree

LEMMA InitInv == Init => Inv
<1> SUFFICES ASSUME Init PROVE Inv
    OBVIOUS
<1> USE DEF Init, Idle
<1>1. Types
      BY DEF Types
<1>2. Scheduled
      BY DEF Scheduled
<1>3. Tracked
      BY DEF Tracked
<1>4. Settling
  <2> SUFFICES ASSUME NEW w \in Warps PROVE Settles(code[w], open[w], InFlight(w))
      BY DEF Settling
  <2>1. code[w] = <<>> /\ open[w] = {} /\ InFlight(w) = {}
        BY DEF InFlight
  <2> QED BY <2>1, EmptySettles
<1> QED BY <1>1, <1>2, <1>3, <1>4 DEF Inv

LEMMA CopiesKept ==
    ASSUME UNCHANGED <<code, flying, groups, open>>, Tracked, Settling
    PROVE  Tracked' /\ Settling'
<1>1. Tracked'
      BY DEF Tracked, Issued
<1>2. ASSUME NEW w \in Warps PROVE Settles(code[w], open[w], InFlight(w))'
  <2>1. code'[w] = code[w] /\ open'[w] = open[w] /\ InFlight(w)' = InFlight(w)
        BY DEF InFlight
  <2> QED BY <2>1 DEF Settling
<1> QED BY <1>1, <1>2 DEF Settling

LEMMA InvStutter == Inv /\ UNCHANGED vars => Inv'
BY DEF Inv, Types, Scheduled, Tracked, Settling, InFlight, Issued, InBlock, vars, grid, shared, queues

\* Nothing that the invariant speaks of but the launch changes.
LEMMA LaunchStep ==
    ASSUME Inv, NEW l \in Shapes, Launch(l)
    PROVE  Inv'
<1> USE DEF Inv, Launch, shared, queues
<1>1. Types'
  <2>1. todo' \subseteq Int \X Int \X Int
    <3>1. l.gx \in Int /\ l.gy \in Int /\ l.gz \in Int
          BY LaunchAssumption, LaunchTypes
    <3>2. Interval(0, l.gx) \subseteq Int /\ Interval(0, l.gy) \subseteq Int
          /\ Interval(0, l.gz) \subseteq Int
          BY <3>1 DEF Interval
    <3> QED BY <3>2 DEF Grid
  <2> QED BY <2>1 DEF Types
<1>2. Scheduled'
  <2>1. block = NoBlock /\ \A w \in Warps : code[w] = <<>>
        BY DEF Scheduled
  <2> QED BY <2>1 DEF Scheduled
<1>3. Tracked' /\ Settling'
  <2>1. UNCHANGED <<code, flying, groups, open>>
        OBVIOUS
  <2> QED BY <2>1, CopiesKept
<1> QED BY <1>1, <1>2, <1>3

LEMMA EndGridStep ==
    ASSUME Inv, EndGrid
    PROVE  Inv'
<1> USE DEF Inv, EndGrid, shared, queues
<1>1. Types'
  <2>1. todo' \subseteq Int \X Int \X Int
    <3>1. shape \in Launches
          BY LaunchAssumption DEF Types
    <3>2. shape.M \in Int
          BY <3>1, LaunchTypes
    <3>3. Interval(0, shape.M) \subseteq Int
          BY <3>2 DEF Interval
    <3>4. Grid(shape, "reduce") \subseteq Int \X Int \X Int
          BY <3>3 DEF Grid
    <3> QED BY <3>4 DEF Types
  <2> QED BY <2>1 DEF Types
<1>2. Scheduled'
  <2>1. block = NoBlock /\ \A w \in Warps : code[w] = <<>>
        BY DEF Scheduled
  <2> QED BY <2>1 DEF Scheduled
<1>3. Tracked' /\ Settling'
  <2>1. UNCHANGED <<code, flying, groups, open>>
        OBVIOUS
  <2>2. Tracked /\ Settling
        OBVIOUS
  <2> QED BY <2>1, <2>2, CopiesKept
<1> QED BY <1>1, <1>2, <1>3

LEMMA BlockIsTriple ==
    ASSUME NEW b \in Int \X Int \X Int
    PROVE  b # NoBlock
<1>1. Len(b) = 3
      OBVIOUS
<1>2. Len(NoBlock) = 0
      BY DEF NoBlock
<1> QED BY <1>1, <1>2

LEMMA StartBlockStep ==
    ASSUME Inv, NEW b \in todo, StartBlock(b)
    PROVE  Inv'
<1> USE DEF Inv, StartBlock, shared, queues
<1>0. shape \in Launches /\ b \in Int \X Int \X Int /\ b # NoBlock
  <2>1. shape \in Launches /\ b \in Int \X Int \X Int
        BY LaunchAssumption DEF Types
  <2> QED BY <2>1, BlockIsTriple
<1>1. ASSUME NEW w \in Warps PROVE Clean(code'[w])
  <2>1. w \in Nat
        BY DEF Warps
  <2>2. Clean(Code(shape, entry, b, w))
        BY <1>0, <2>1, CodeClean
  <2>3. Clean(<<>>)
        BY EmptySettles DEF Clean
  <2> QED BY <2>2, <2>3
<1>2. Types'
  <2>1. code' \in [Warps -> Seq(Instrs)]
        BY <1>1 DEF Clean
  <2> QED BY <2>1 DEF Types
<1>3. \A w \in Warps : code[w] = <<>>
      BY DEF Scheduled
<1>4. Scheduled'
      BY <1>0, <1>3 DEF Scheduled, InBlock, Types
<1>5. Tracked'
      BY DEF Tracked, Issued
<1>6. Settling'
  <2> SUFFICES ASSUME NEW w \in Warps PROVE Settles(code[w], open[w], InFlight(w))'
      BY DEF Settling
  <2>1. Settles(<<>>, open[w], InFlight(w))
        BY <1>3 DEF Settling
  <2>2. open[w] = {} /\ InFlight(w) = {}
        BY <2>1, SettledAtEnd DEF InFlight
  <2>3. open'[w] = {} /\ InFlight(w)' = {}
        BY <2>2 DEF InFlight
  <2> QED BY <1>1, <2>3 DEF Clean
<1> QED BY <1>2, <1>4, <1>5, <1>6

LEMMA EndBlockStep ==
    ASSUME Inv, EndBlock
    PROVE  Inv'
<1> USE DEF Inv, EndBlock
<1>1. Types'
      BY DEF Types
<1>2. Scheduled'
      BY DEF Scheduled, InBlock
<1>3. Tracked'
      BY DEF Tracked
<1>4. Settling'
  <2> SUFFICES ASSUME NEW w \in Warps PROVE Settles(code[w], open[w], InFlight(w))'
      BY DEF Settling
  <2>1. code'[w] = <<>> /\ open'[w] = {} /\ InFlight(w)' = {}
        BY DEF InFlight
  <2> QED BY <2>1, EmptySettles
<1> QED BY <1>1, <1>2, <1>3, <1>4

\* The facts an instruction of warp w starts from.
LEMMA AtInstr ==
    ASSUME Inv, NEW w \in Warps, NEW op, AtOp(w, op)
    PROVE  /\ code[w] \in Seq(Instrs) /\ code[w] # <<>> /\ code[w][1].op = op
           /\ Instr(w) = code[w][1] /\ Instr(w) \in Instrs
           /\ Tail(code[w]) \in Seq(Instrs)
           /\ block # NoBlock /\ w \in InBlock
           /\ Settles(code[w], open[w], InFlight(w))
<1>1. code[w] \in Seq(Instrs) /\ code[w] # <<>>
      BY DEF Inv, Types, AtOp
<1>2. block # NoBlock /\ w \in InBlock
      BY <1>1 DEF Inv, Scheduled
<1> QED BY <1>1, <1>2, TailOf DEF AtOp, Instr, Inv, Settling

LEMMA AdvanceScheduled ==
    ASSUME Inv, NEW w \in Warps, NEW op, AtOp(w, op), op # "bar", Advance(w),
           UNCHANGED <<grid, arrived>>
    PROVE  Scheduled' /\ code' \in [Warps -> Seq(Instrs)]
<1>1. /\ Tail(code[w]) \in Seq(Instrs) /\ block # NoBlock /\ w \in InBlock
      BY AtInstr
<1>2. code' \in [Warps -> Seq(Instrs)] /\ \A u \in Warps : u # w => code'[u] = code[u]
      BY <1>1 DEF Inv, Types, Advance
<1>3. \A u \in arrived : u # w
      BY DEF Inv, Scheduled, AtOp
<1> QED BY <1>1, <1>2, <1>3 DEF Inv, Types, Scheduled, grid, InBlock

\* An instruction that has nothing to do with copies and barriers.
LEMMA OtherStep ==
    ASSUME Inv, NEW w \in Warps, NEW op, AtOp(w, op),
           op \notin {"copy", "commit", "wait", "bar"}, Advance(w),
           UNCHANGED <<grid, flying, queues, arrived>>
    PROVE  Inv'
<1>1. Scheduled' /\ code' \in [Warps -> Seq(Instrs)]
      BY AdvanceScheduled
<1>2. Types'
      BY <1>1 DEF Inv, Types, grid, queues
<1>3. Tracked'
      BY DEF Inv, Tracked, Issued, queues
<1>4. Settling'
  <2> SUFFICES ASSUME NEW u \in Warps PROVE Settles(code[u], open[u], InFlight(u))'
      BY DEF Settling
  <2>1. open'[u] = open[u] /\ InFlight(u)' = InFlight(u)
        BY DEF queues, InFlight
  <2>2. CASE u = w
    <3>1. Settles(Tail(code[w]), open[w], InFlight(w))
      <4>1. /\ code[w] \in Seq(Instrs) /\ code[w] # <<>> /\ code[w][1].op = op
            /\ Settles(code[w], open[w], InFlight(w))
            BY AtInstr
      <4> QED BY <4>1, AfterOther
    <3>2. code'[w] = Tail(code[w])
          BY DEF Advance, Inv, Types
    <3> QED BY <2>1, <2>2, <3>1, <3>2
  <2>3. CASE u # w
    <3>1. code'[u] = code[u]
          BY <2>3 DEF Advance, Inv, Types
    <3> QED BY <2>1, <3>1 DEF Inv, Settling
  <2> QED BY <2>2, <2>3
<1> QED BY <1>1, <1>2, <1>3, <1>4 DEF Inv

\* What only warp w has done leaves the others' copies as they were.
LEMMA OthersSettle ==
    ASSUME Inv, NEW w \in Warps, Advance(w), NEW u \in Warps, u # w,
           open'[u] = open[u], InFlight(u)' = InFlight(u)
    PROVE  Settles(code[u], open[u], InFlight(u))'
<1>1. code'[u] = code[u]
      BY DEF Advance, Inv, Types
<1> QED BY <1>1 DEF Inv, Settling

LEMMA CopyStep ==
    ASSUME Inv, NEW w \in Warps, CopyAsync(w)
    PROVE  Inv'
<1> DEFINE i == Instr(w)
<1>1. /\ AtOp(w, "copy") /\ Advance(w)
      /\ open' = [open EXCEPT ![w] = @ \cup {<<i.slot, i.tile>>}]
      /\ flying' = flying \cup {<<i.slot, w>>}
      /\ UNCHANGED <<grid, groups, arrived>>
      BY DEF CopyAsync
<1>2. /\ code[w] \in Seq(Instrs) /\ code[w] # <<>> /\ code[w][1].op = "copy"
      /\ Settles(code[w], open[w], InFlight(w))
      /\ i.slot \in Slots /\ i.tile \in Int
      BY <1>1, AtInstr, InstrFields
<1>3. Scheduled' /\ code' \in [Warps -> Seq(Instrs)]
      BY <1>1, AdvanceScheduled
<1> HIDE DEF i
<1>4. /\ open'[w] = open[w] \cup {<<i.slot, i.tile>>}
      /\ \A u \in Warps : u # w => open'[u] = open[u]
      BY <1>1 DEF Inv, Types
<1>5. Types'
  <2>1. open[w] \cup {<<i.slot, i.tile>>} \in SUBSET (Slots \X Int)
        BY <1>2 DEF Inv, Types
  <2>2. open' \in [Warps -> SUBSET (Slots \X Int)]
        BY <1>1, <2>1 DEF Inv, Types
  <2>3. flying' \subseteq Slots \X Warps
        BY <1>1, <1>2 DEF Inv, Types
  <2> QED BY <1>1, <1>3, <2>2, <2>3 DEF Inv, Types, grid
<1>6. Tracked'
  <2> SUFFICES ASSUME NEW x \in flying' PROVE \E c \in Issued(x[2])' : c[1] = x[1]
      BY DEF Tracked
  <2>1. x[2] \in Warps
        BY <1>5 DEF Types
  <2>2. open[x[2]] \subseteq open'[x[2]] /\ groups'[x[2]] = groups[x[2]]
        BY <1>1, <1>4, <2>1
  <2>3. CASE x \in flying
    <3>1. PICK c \in Issued(x[2]) : c[1] = x[1]
          BY <2>3 DEF Inv, Tracked
    <3>2. c \in Issued(x[2])'
          BY <2>2 DEF Issued
    <3> QED BY <3>1, <3>2
  <2>4. CASE x = <<i.slot, w>>
    <3>1. <<i.slot, i.tile>> \in Issued(x[2])'
          BY <1>4, <2>4 DEF Issued
    <3> QED BY <2>4, <3>1
  <2> QED BY <1>1, <2>3, <2>4
<1>7. Settling'
  <2> SUFFICES ASSUME NEW u \in Warps PROVE Settles(code[u], open[u], InFlight(u))'
      BY DEF Settling
  <2>1. CASE u = w
    <3>1. Settles(Tail(code[w]), open'[w], InFlight(w)')
          BY <1>2, AfterCopy
    <3>2. code'[w] = Tail(code[w])
          BY <1>1 DEF Advance, Inv, Types
    <3> QED BY <2>1, <3>1, <3>2
  <2>2. CASE u # w
    <3>1. open'[u] = open[u] /\ InFlight(u)' = InFlight(u)
          BY <1>1, <1>4, <2>2 DEF InFlight
    <3> QED BY <1>1, <2>2, <3>1, OthersSettle
  <2> QED BY <2>1, <2>2
<1> QED BY <1>3, <1>5, <1>6, <1>7 DEF Inv

LEMMA CommitStep ==
    ASSUME Inv, NEW w \in Warps, CommitGroup(w)
    PROVE  Inv'
<1>1. /\ AtOp(w, "commit") /\ Advance(w)
      /\ groups' = [groups EXCEPT ![w] = Append(@, open[w])]
      /\ open' = [open EXCEPT ![w] = {}]
      /\ UNCHANGED <<grid, flying, arrived>>
      BY DEF CommitGroup, shared
<1>2. /\ code[w] \in Seq(Instrs) /\ code[w] # <<>> /\ code[w][1].op = "commit"
      /\ Settles(code[w], open[w], InFlight(w))
      BY <1>1, AtInstr
<1>3. Scheduled' /\ code' \in [Warps -> Seq(Instrs)]
      BY <1>1, AdvanceScheduled
<1>4. /\ open'[w] = {} /\ groups'[w] = Append(groups[w], open[w])
      /\ \A u \in Warps : u # w => open'[u] = open[u] /\ groups'[u] = groups[u]
      BY <1>1 DEF Inv, Types
<1>5. /\ groups[w] \in Seq(SUBSET (Slots \X Int)) /\ open[w] \in SUBSET (Slots \X Int)
      /\ Len(groups[w]) \in Nat
      BY DEF Inv, Types
<1>6. Types'
  <2>1. Append(groups[w], open[w]) \in Seq(SUBSET (Slots \X Int))
        BY <1>5
  <2>2. groups' \in [Warps -> Seq(SUBSET (Slots \X Int))]
        BY <1>1, <2>1 DEF Inv, Types
  <2> QED BY <1>1, <1>3, <2>2 DEF Inv, Types, grid
<1>7. Tracked'
  <2>1. \A u \in Warps : Issued(u) \subseteq Issued(u)'
    <3>1. ASSUME NEW u \in Warps, u # w PROVE Issued(u)' = Issued(u)
          BY <1>4, <3>1 DEF Issued
    <3>2. ASSUME NEW c \in open[w] PROVE c \in Issued(w)'
      <4>1. /\ Len(groups'[w]) = Len(groups[w]) + 1
            /\ groups'[w][Len(groups[w]) + 1] = open[w]
            BY <1>4, <1>5, AppendProperties
      <4>2. Len(groups[w]) + 1 \in 1 .. Len(groups'[w])
            BY <1>5, <4>1
      <4> QED BY <3>2, <4>1, <4>2 DEF Issued
    <3>3. ASSUME NEW g \in 1 .. Len(groups[w]), NEW c \in groups[w][g] PROVE c \in Issued(w)'
      <4>1. Len(groups'[w]) = Len(groups[w]) + 1 /\ groups'[w][g] = groups[w][g]
            BY <1>4, <1>5, AppendProperties
      <4>2. g \in 1 .. Len(groups'[w])
            BY <1>5, <4>1
      <4> QED BY <3>3, <4>1, <4>2 DEF Issued
    <3>4. Issued(w) \subseteq Issued(w)'
          BY <3>2, <3>3 DEF Issued
    <3> QED BY <3>1, <3>4
  <2>2. \A x \in flying : x[2] \in Warps
        BY DEF Inv, Types
  <2> QED BY <1>1, <2>1, <2>2 DEF Inv, Tracked
<1>8. Settling'
  <2> SUFFICES ASSUME NEW u \in Warps PROVE Settles(code[u], open[u], InFlight(u))'
      BY DEF Settling
  <2>0. InFlight(u)' = InFlight(u)
        BY <1>1 DEF InFlight
  <2>1. CASE u = w
    <3>1. Settles(Tail(code[w]), {}, InFlight(w))
          BY <1>2, AfterCommit
    <3>2. code'[w] = Tail(code[w])
          BY <1>1 DEF Advance, Inv, Types
    <3> QED BY <1>4, <2>0, <2>1, <3>1, <3>2
  <2>2. CASE u # w
    <3>1. open'[u] = open[u]
          BY <1>4, <2>2
    <3> QED BY <1>1, <2>0, <2>2, <3>1, OthersSettle
  <2> QED BY <2>1, <2>2
<1> QED BY <1>3, <1>6, <1>7, <1>8 DEF Inv

LEMMA WaitStep ==
    ASSUME Inv, NEW w \in Warps, WaitGroup(w)
    PROVE  Inv'
<1> DEFINE G == groups[w]
           n == imin(Instr(w).n, Len(G))
           landed == UNION {G[g] : g \in 1 .. Len(G) - n}
           gone == {<<c[1], w>> : c \in landed}
<1>1. /\ AtOp(w, "wait") /\ Advance(w)
      /\ groups' = [groups EXCEPT ![w] = SubSeq(@, Len(@) - n + 1, Len(@))]
      /\ flying' = flying \ gone
      /\ UNCHANGED <<grid, open, arrived>>
      BY DEF WaitGroup
<1>2. /\ code[w] \in Seq(Instrs) /\ code[w] # <<>> /\ code[w][1].op = "wait"
      /\ Settles(code[w], open[w], InFlight(w))
      /\ Instr(w) = code[w][1] /\ Instr(w).n \in Nat
      BY <1>1, AtInstr, InstrFields
<1>3. Scheduled' /\ code' \in [Warps -> Seq(Instrs)]
      BY <1>1, AdvanceScheduled
<1>4. G \in Seq(SUBSET (Slots \X Int)) /\ Len(G) \in Nat
      BY DEF Inv, Types
<1>5. n \in 0 .. Len(G) /\ (Instr(w).n = 0 => n = 0)
      BY <1>2, <1>4 DEF imin
<1> HIDE DEF n
<1> DEFINE H == SubSeq(G, Len(G) - n + 1, Len(G))
<1>6. /\ H \in Seq(SUBSET (Slots \X Int)) /\ Len(H) = n
      /\ \A g \in 1 .. n : H[g] = G[Len(G) - n + g]
  <2>1. \A i \in Len(G) - n + 1 .. Len(G) : G[i] \in SUBSET (Slots \X Int)
        BY <1>4, <1>5
  <2>2. Len(G) - n + 1 \in Int /\ Len(G) \in Int
        BY <1>4, <1>5
  <2>3. /\ H \in Seq(SUBSET (Slots \X Int))
        /\ Len(H) = IF Len(G) - n + 1 <= Len(G) THEN Len(G) - (Len(G) - n + 1) + 1 ELSE 0
        /\ \A i \in 1 .. Len(G) - (Len(G) - n + 1) + 1 : H[i] = G[(Len(G) - n + 1) + i - 1]
        BY <2>1, <2>2, SubSeqProperties
  <2> HIDE DEF H, G
  <2>4. Len(G) - (Len(G) - n + 1) + 1 = n
        BY <1>4, <1>5
  <2>5. \A i \in 1 .. n : (Len(G) - n + 1) + i - 1 = Len(G) - n + i
        BY <1>4, <1>5
  <2> QED BY <1>4, <1>5, <2>3, <2>4, <2>5
<1>7. groups'[w] = H /\ \A u \in Warps : u # w => groups'[u] = groups[u]
      BY <1>1 DEF Inv, Types
<1> HIDE DEF H
<1>8. Types'
  <2>1. groups' \in [Warps -> Seq(SUBSET (Slots \X Int))]
        BY <1>1, <1>6, <1>7 DEF Inv, Types, H
  <2>2. flying' \subseteq Slots \X Warps
        BY <1>1 DEF Inv, Types
  <2> QED BY <1>1, <1>3, <2>1, <2>2 DEF Inv, Types, grid
<1>9. Tracked'
  <2> SUFFICES ASSUME NEW x \in flying' PROVE \E c \in Issued(x[2])' : c[1] = x[1]
      BY DEF Tracked
  <2>1. x \in flying /\ x \notin gone /\ x[2] \in Warps /\ x = <<x[1], x[2]>>
        BY <1>1 DEF Inv, Types
  <2>2. PICK c \in Issued(x[2]) : c[1] = x[1]
        BY <2>1 DEF Inv, Tracked
  <2>3. CASE x[2] # w
    <3>1. Issued(x[2])' = Issued(x[2])
          BY <1>1, <1>7, <2>1, <2>3 DEF Issued
    <3> QED BY <2>2, <3>1
  <2>4. CASE x[2] = w /\ c \in open[w]
    <3>1. c \in Issued(x[2])'
          BY <1>1, <2>4 DEF Issued
    <3> QED BY <2>2, <3>1
  <2>5. CASE x[2] = w /\ c \notin open[w]
    <3>1. PICK g \in 1 .. Len(G) : c \in G[g]
          BY <2>2, <2>5 DEF Issued
    <3>2. c \notin landed
          BY <2>1, <2>2, <2>5
    <3>3. ~(g \in 1 .. Len(G) - n)
          BY <3>1, <3>2
    <3> DEFINE h == g - (Len(G) - n)
    <3>4. h \in 1 .. n /\ Len(G) - n + h = g
      <4> DEFINE k == Len(G)
      <4>1. k \in Nat /\ n \in 0 .. k /\ g \in 1 .. k /\ ~(g \in 1 .. k - n)
            BY <1>4, <1>5, <3>1, <3>3
      <4> HIDE DEF k
      <4>2. g - (k - n) \in 1 .. n /\ k - n + (g - (k - n)) = g
            BY <4>1
      <4> QED BY <4>2 DEF k
    <3> HIDE DEF h
    <3>5. H[h] = G[g] /\ h \in 1 .. Len(H)
          BY <1>6, <3>4
    <3>6. c \in Issued(w)'
          BY <1>7, <3>1, <3>5 DEF Issued
    <3> QED BY <2>2, <2>5, <3>6
  <2> QED BY <2>3, <2>4, <2>5
<1>10. Settling'
  <2> SUFFICES ASSUME NEW u \in Warps PROVE Settles(code[u], open[u], InFlight(u))'
      BY DEF Settling
  <2>1. CASE u = w
    <3>1. InFlight(w)' \subseteq InFlight(w)
          BY <1>1 DEF InFlight
    <3>2. ASSUME code[w][1].n = 0, open[w] = {} PROVE InFlight(w)' = {}
      <4>1. SUFFICES ASSUME NEW x \in InFlight(w)' PROVE FALSE
            OBVIOUS
      <4>2. x \in flying /\ x[2] = w /\ x \notin gone /\ x = <<x[1], x[2]>>
            BY <1>1 DEF InFlight, Inv, Types
      <4>3. PICK c \in Issued(w) : c[1] = x[1]
            BY <4>2 DEF Inv, Tracked
      <4>4. PICK g \in 1 .. Len(G) : c \in G[g]
            BY <3>2, <4>3 DEF Issued
      <4>5. n = 0 /\ Len(G) - n = Len(G)
            BY <1>2, <1>4, <1>5, <3>2
      <4>6. c \in landed
            BY <4>4, <4>5
      <4> QED BY <4>2, <4>3, <4>6
    <3>3. Settles(Tail(code[w]), open[w], InFlight(w)')
      <4> DEFINE left == InFlight(w)'
      <4>1. left # {} => InFlight(w) # {}
            BY <3>1
      <4>2. code[w][1].n = 0 /\ open[w] = {} => left = {}
            BY <3>2
      <4> HIDE DEF left
      <4>3. Settles(Tail(code[w]), open[w], left)
            BY <1>2, <4>1, <4>2, AfterWait
      <4> QED BY <4>3 DEF left
    <3>4. code'[w] = Tail(code[w]) /\ open'[w] = open[w]
          BY <1>1 DEF Advance, Inv, Types
    <3> QED BY <2>1, <3>3, <3>4
  <2>2. CASE u # w
    <3>1. \A x \in gone : x[2] = w
          OBVIOUS
    <3>2. InFlight(u)' = InFlight(u) /\ open'[u] = open[u]
          BY <1>1, <2>2, <3>1 DEF InFlight
    <3> QED BY <1>1, <2>2, <3>2, OthersSettle
  <2> QED BY <2>1, <2>2
<1> QED BY <1>3, <1>8, <1>9, <1>10 DEF Inv

\* The last warp to arrive lets all pass; each is at the barrier.
LEMMA BarStep ==
    ASSUME Inv, NEW w \in Warps, BarSync(w)
    PROVE  Inv'
<1>1. AtOp(w, "bar") /\ w \notin arrived /\ UNCHANGED <<grid, flying, groups, open>>
      BY DEF BarSync, shared, queues
<1>2. /\ code[w] # <<>> /\ Head(code[w]).op = "bar" /\ block # NoBlock /\ w \in InBlock
      BY <1>1, AtInstr DEF AtOp
<1>3. CASE arrived \cup {w} # InBlock
  <2>1. arrived' = arrived \cup {w} /\ code' = code
        BY <1>3 DEF BarSync
  <2>2. Types'
        BY <1>1, <2>1 DEF Inv, Types, grid
  <2>3. Scheduled'
        BY <1>1, <1>2, <2>1 DEF Inv, Scheduled, grid, InBlock
  <2>4. Tracked' /\ Settling'
        BY <1>1, <2>1, CopiesKept DEF Inv
  <2> QED BY <2>2, <2>3, <2>4 DEF Inv
<1>4. CASE arrived \cup {w} = InBlock
  <2>1. arrived' = {}
        /\ code' = [u \in Warps |-> IF u \in InBlock THEN Tail(code[u]) ELSE <<>>]
        BY <1>4 DEF BarSync
  <2>2. \A u \in InBlock : u \in Warps /\ code[u] # <<>> /\ Head(code[u]).op = "bar"
        BY <1>2, <1>4 DEF Inv, Scheduled, InBlock
  <2>3. ASSUME NEW u \in InBlock
        PROVE  /\ code[u] \in Seq(Instrs) /\ Tail(code[u]) \in Seq(Instrs)
               /\ code[u] # <<>> /\ code[u][1].op = "bar"
    <3>1. code[u] \in Seq(Instrs) /\ code[u] # <<>>
          BY <2>2 DEF Inv, Types
    <3> QED BY <2>2, <3>1, TailOf
  <2>4. Types'
    <3>1. code' \in [Warps -> Seq(Instrs)]
          BY <2>1, <2>3
    <3> QED BY <1>1, <2>1, <3>1 DEF Inv, Types, grid
  <2>5. Scheduled'
    <3>1. InBlock' = InBlock /\ block' = block /\ entry' = entry
          BY <1>1 DEF InBlock, grid
    <3>2. \A u \in Warps : u \notin InBlock => code'[u] = <<>>
          BY <2>1
    <3> QED BY <1>2, <2>1, <3>1, <3>2 DEF Inv, Scheduled
  <2>6. Tracked'
        BY <1>1 DEF Inv, Tracked, Issued
  <2>7. Settling'
    <3> SUFFICES ASSUME NEW u \in Warps PROVE Settles(code[u], open[u], InFlight(u))'
        BY DEF Settling
    <3>1. open'[u] = open[u] /\ InFlight(u)' = InFlight(u)
          BY <1>1 DEF InFlight
    <3>2. Settles(code[u], open[u], InFlight(u))
          BY DEF Inv, Settling
    <3>3. CASE u \in InBlock
      <4>1. Settles(Tail(code[u]), open[u], InFlight(u))
            BY <2>3, <3>2, <3>3, AfterOther
      <4>2. code'[u] = Tail(code[u])
            BY <2>1, <3>3
      <4> QED BY <3>1, <4>1, <4>2
    <3>4. CASE u \notin InBlock
      <4>1. code'[u] = code[u]
            BY <2>1, <3>4 DEF Inv, Scheduled
      <4> QED BY <3>1, <3>2, <4>1
    <3> QED BY <3>3, <3>4
  <2> QED BY <2>4, <2>5, <2>6, <2>7 DEF Inv
<1> QED BY <1>3, <1>4

\* One instruction of one warp.
LEMMA StepInv ==
    ASSUME Inv, NEW w \in Warps, Step(w)
    PROVE  Inv'
<1> USE DEF shared
<1>1. CASE StoreTile(w)
      BY <1>1, OtherStep DEF StoreTile
<1>2. CASE CopyAsync(w)
      BY <1>2, CopyStep
<1>3. CASE CommitGroup(w)
      BY <1>3, CommitStep
<1>4. CASE WaitGroup(w)
      BY <1>4, WaitStep
<1>5. CASE BarSync(w)
      BY <1>5, BarStep
<1>6. CASE LoadTile(w)
      BY <1>6, OtherStep DEF LoadTile
<1>7. CASE StoreTileRegs(w)
      BY <1>7, OtherStep DEF StoreTileRegs
<1>8. CASE Quantize(w)
      BY <1>8, OtherStep DEF Quantize
<1>9. CASE MmaStep(w)
      BY <1>9, OtherStep DEF MmaStep
<1>10. CASE SumGlobal(w)
       BY <1>10, OtherStep DEF SumGlobal
<1>11. CASE StageAcc(w)
       BY <1>11, OtherStep DEF StageAcc
<1>12. CASE CopyBand(w)
       BY <1>12, OtherStep DEF CopyBand
<1>13. CASE StoreAcc(w)
       BY <1>13, OtherStep DEF StoreAcc
<1>14. CASE Finish(w)
       BY <1>14, OtherStep DEF Finish
<1>15. CASE AttendToken(w)
       BY <1>15, OtherStep DEF AttendToken
<1>16. CASE PutState(w)
       BY <1>16, OtherStep DEF PutState
<1>17. CASE MergeStates(w)
       BY <1>17, OtherStep DEF MergeStates
<1>18. CASE NormRow(w)
       BY <1>18, OtherStep DEF NormRow
<1>19. CASE StoreZeros(w)
       BY <1>19, OtherStep DEF StoreZeros
<1>20. CASE CombineSplits(w)
       BY <1>20, OtherStep DEF CombineSplits
<1> QED BY <1>1, <1>2, <1>3, <1>4, <1>5, <1>6, <1>7, <1>8, <1>9, <1>10, <1>11, <1>12,
           <1>13, <1>14, <1>15, <1>16, <1>17, <1>18, <1>19, <1>20 DEF Step

LEMMA NextInv == Inv /\ [Next]_vars => Inv'
<1> SUFFICES ASSUME Inv, [Next]_vars PROVE Inv'
    OBVIOUS
<1>1. CASE \E l \in Shapes : Launch(l)
      BY <1>1, LaunchStep
<1>2. CASE Stream
      BY <1>2, StartBlockStep, EndBlockStep, EndGridStep DEF Stream
<1>3. CASE \E w \in Warps : Step(w)
      BY <1>3, StepInv
<1>4. CASE UNCHANGED vars
      BY <1>4, InvStutter
<1> QED BY <1>1, <1>2, <1>3, <1>4 DEF Next

LEMMA AlwaysInv == Spec => []Inv
BY InitInv, NextInv, PTL DEF Spec

\* Every instruction a warp has left names a slot of the block's shared memory,
\* whatever the number of stages, the depth of the product and the grid: the slots
\* of the emitted pipelines are taken modulo their number.
THEOREM SlotsExist == Spec => []TypeOK
<1>1. Inv => TypeOK
  <2> SUFFICES ASSUME Inv, NEW w \in Warps, NEW i \in DOMAIN code[w],
                      "slot" \in DOMAIN code[w][i]
               PROVE  code[w][i].slot \in Slots
      BY DEF TypeOK, Inv, Types
  <2>1. code[w][i] \in Instrs
        BY DEF Inv, Types
  <2> QED BY <2>1 DEF Instrs
<1> QED BY <1>1, AlwaysInv, PTL

\* A warp that has ended has no copy in flight into shared memory the block no
\* longer owns: the drain of emit_tensor_core_gemm_kernel and the wait of the fp8
\* epilogue come after the last copy and its commit, for every launch.
THEOREM CopiesLand == Spec => []NoCopyOutlives
<1>1. Inv => NoCopyOutlives
  <2> SUFFICES ASSUME Inv, NEW w \in Warps, code[w] = <<>>
               PROVE  open[w] = {} /\ \A x \in flying : x[2] # w
      BY DEF NoCopyOutlives
  <2>1. Settles(<<>>, open[w], InFlight(w))
        BY DEF Inv, Settling
  <2>2. open[w] = {} /\ InFlight(w) = {}
        BY <2>1, SettledAtEnd
  <2> QED BY <2>2 DEF InFlight
<1> QED BY <1>1, AlwaysInv, PTL

----------------------------------------------------------------------------
(* Barriers *)

\* The barriers a sequence of instructions holds, how many, and those without any.
BarAt(c) == {i \in 1 .. Len(c) : c[i].op = "bar"}
Bars(c) == Cardinality(BarAt(c))
BarFree == {c \in Seq(Instrs) : Bars(c) = 0}

\* Warps of a block have the same barriers ahead, and one that waits is not the last.
Meeting ==
    /\ \A u, w \in InBlock : Bars(code[u]) = Bars(code[w])
    /\ arrived \subseteq InBlock
    /\ arrived # {} => arrived # InBlock

\* When a warp waits at bar.sync, every warp of its block has as many barriers ahead
\* as it has, this one among them, and one of them is still on its way to it.
BarriersMatch ==
    \A w \in arrived :
        /\ \A u \in InBlock : code[u] # <<>> /\ Bars(code[u]) = Bars(code[w])
        /\ \E u \in InBlock : u \notin arrived

LEMMA BarsType ==
    ASSUME NEW c \in Seq(Instrs)
    PROVE  /\ IsFiniteSet(BarAt(c)) /\ Bars(c) \in Nat
           /\ Bars(c) = 0 <=> \A i \in 1 .. Len(c) : c[i].op # "bar"
<1>1. IsFiniteSet(1 .. Len(c))
      BY FS_Interval
<1>2. IsFiniteSet(BarAt(c))
      BY <1>1, FS_Subset DEF BarAt
<1>3. Bars(c) \in Nat /\ (Bars(c) = 0 <=> BarAt(c) = {})
      BY <1>2, FS_CardinalityType, FS_EmptySet DEF Bars
<1>4. BarAt(c) = {} <=> \A i \in 1 .. Len(c) : c[i].op # "bar"
      BY DEF BarAt
<1> QED BY <1>2, <1>3, <1>4

LEMMA BarsConcat ==
    ASSUME NEW c \in Seq(Instrs), NEW d \in Seq(Instrs)
    PROVE  Bars(c \o d) = Bars(c) + Bars(d)
<1>1. /\ Len(c) \in Nat /\ Len(d) \in Nat /\ Len(c \o d) = Len(c) + Len(d)
      /\ \A i \in 1 .. Len(c) + Len(d) :
            (c \o d)[i] = IF i <= Len(c) THEN c[i] ELSE d[i - Len(c)]
      BY ConcatProperties
<1> DEFINE late == {i \in Len(c) + 1 .. Len(c) + Len(d) : d[i - Len(c)].op = "bar"}
<1>2. BarAt(c \o d) = BarAt(c) \cup late /\ BarAt(c) \cap late = {}
      BY <1>1 DEF BarAt
<1>3. Cardinality(late) = Bars(d) /\ IsFiniteSet(late)
  <2> DEFINE f == [i \in BarAt(d) |-> i + Len(c)]
  <2>1. \A i \in BarAt(d) : i \in Nat /\ i + Len(c) \in late
        BY <1>1 DEF BarAt
  <2>2. f \in [BarAt(d) -> late]
        BY <2>1
  <2>3. \A i, j \in BarAt(d) : f[i] = f[j] => i = j
        BY <1>1, <2>1
  <2>4. \A y \in late : \E i \in BarAt(d) : f[i] = y
    <3>1. SUFFICES ASSUME NEW y \in late PROVE y - Len(c) \in BarAt(d) /\ f[y - Len(c)] = y
          OBVIOUS
    <3>2. y - Len(c) \in BarAt(d) /\ (y - Len(c)) + Len(c) = y
          BY <1>1 DEF BarAt
    <3> QED BY <3>2
  <2>5. f \in Bijection(BarAt(d), late)
    <3> HIDE DEF f, late
    <3> QED BY <2>2, <2>3, <2>4, Fun_IsBij
  <2>6. ExistsBijection(BarAt(d), late)
        BY <2>5 DEF ExistsBijection
  <2> HIDE DEF late
  <2> QED BY <2>6, BarsType, FS_Bijection DEF Bars
<1> HIDE DEF late
<1>4. Cardinality(BarAt(c) \cup late)
         = Cardinality(BarAt(c)) + Cardinality(late) - Cardinality(BarAt(c) \cap late)
      BY <1>3, BarsType, FS_Union
<1>5. Cardinality(BarAt(c) \cap late) = 0
      BY <1>2, FS_EmptySet
<1>6. Bars(c \o d) = Bars(c) + Bars(d) - 0
      BY <1>2, <1>3, <1>4, <1>5 DEF Bars
<1>7. Bars(c) \in Nat /\ Bars(d) \in Nat
      BY BarsType
<1> HIDE DEF Bars
<1> QED BY <1>6, <1>7

LEMMA BarsOne ==
    ASSUME NEW i \in Instrs
    PROVE  <<i>> \in Seq(Instrs) /\ Bars(<<i>>) = IF i.op = "bar" THEN 1 ELSE 0
<1>1. <<i>> \in Seq(Instrs) /\ Len(<<i>>) = 1 /\ <<i>>[1] = i
      OBVIOUS
<1>2. CASE i.op = "bar"
  <2>1. BarAt(<<i>>) = {1}
        BY <1>1, <1>2 DEF BarAt
  <2> QED BY <1>1, <1>2, <2>1, FS_Singleton DEF Bars
<1>3. CASE i.op # "bar"
  <2>1. BarAt(<<i>>) = {}
        BY <1>1, <1>3 DEF BarAt
  <2> QED BY <1>1, <1>3, <2>1, FS_EmptySet DEF Bars
<1> QED BY <1>2, <1>3

LEMMA BarsEmpty == <<>> \in BarFree /\ Bars(<<>>) = 0
<1>1. BarAt(<<>>) = {}
      BY DEF BarAt
<1> QED BY <1>1, FS_EmptySet DEF Bars, BarFree

LEMMA BarsTail ==
    ASSUME NEW c \in Seq(Instrs), c # <<>>
    PROVE  Bars(c) = Bars(Tail(c)) + (IF c[1].op = "bar" THEN 1 ELSE 0)
<1>1. c[1] \in Instrs /\ Tail(c) \in Seq(Instrs) /\ Head(c) = c[1]
      BY TailOf
<1>2. c = <<c[1]>> \o Tail(c)
      BY <1>1
<1>3. Bars(c) = Bars(<<c[1]>>) + Bars(Tail(c))
      BY <1>1, <1>2, BarsOne, BarsConcat
<1>4. Bars(<<c[1]>>) = IF c[1].op = "bar" THEN 1 ELSE 0
      BY <1>1, BarsOne
<1>5. Bars(Tail(c)) \in Nat
      BY <1>1, BarsType
<1> HIDE DEF Bars
<1> QED BY <1>3, <1>4, <1>5

LEMMA BarFreeClosed == ClosedUnderConcat(BarFree)
<1>1. SUFFICES ASSUME NEW c \in BarFree, NEW d \in BarFree PROVE c \o d \in BarFree
      BY DEF ClosedUnderConcat
<1> QED BY BarsConcat DEF BarFree

\* Loops of the same length, whose bodies hold the same barriers one by one.
LEMMA FlatAlike ==
    ASSUME NEW n \in Int, NEW q \in [1 .. n -> Seq(Instrs)], NEW r \in [1 .. n -> Seq(Instrs)],
           \A i \in 1 .. n : Bars(q[i]) = Bars(r[i])
    PROVE  Bars(FlattenSeq(q)) = Bars(FlattenSeq(r))
<1> DEFINE F == CHOOSE f : Flattens(f, q)
           G == CHOOSE f : Flattens(f, r)
           S == {m \in Nat : m \in 1 .. n => /\ F[m] \in Seq(Instrs) /\ G[m] \in Seq(Instrs)
                                             /\ Bars(F[m]) = Bars(G[m])}
<1>1. CASE ~(n > 0)
  <2>1. q = <<>> /\ r = <<>>
        BY <1>1
  <2> QED BY <2>1
<1>2. CASE n > 0
  <2>1. /\ n \in Nat /\ q \in Seq(Seq(Instrs)) /\ r \in Seq(Seq(Instrs))
        /\ Len(q) = n /\ Len(r) = n /\ q # <<>> /\ r # <<>>
        BY <1>2
  <2>2. ClosedUnderConcat(Seq(Instrs))
        BY DEF ClosedUnderConcat
  <2>3. Flattens(F, q) /\ Flattens(G, r)
        BY <2>1, <2>2, FlatExists
  <2>4. FlattenSeq(q) = F[n] /\ FlattenSeq(r) = G[n]
        BY <1>2, <2>1 DEF FlattenSeq, Flattens
  <2> HIDE DEF F, G
  <2>5. \A i \in 1 .. n : /\ F[i] = IF i = 1 THEN q[i] ELSE F[i - 1] \o q[i]
                          /\ G[i] = IF i = 1 THEN r[i] ELSE G[i - 1] \o r[i]
        BY <2>1, <2>3 DEF Flattens
  <2>6. 0 \in S
        OBVIOUS
  <2>7. ASSUME NEW m \in S PROVE m + 1 \in S
    <3>1. SUFFICES ASSUME m + 1 \in 1 .. n
                   PROVE  /\ F[m + 1] \in Seq(Instrs) /\ G[m + 1] \in Seq(Instrs)
                          /\ Bars(F[m + 1]) = Bars(G[m + 1])
          OBVIOUS
    <3>2. /\ q[m + 1] \in Seq(Instrs) /\ r[m + 1] \in Seq(Instrs)
          /\ Bars(q[m + 1]) = Bars(r[m + 1])
          BY <3>1
    <3>3. CASE m = 0
          BY <3>1, <3>2, <3>3, <2>5
    <3>4. CASE m # 0
      <4>1. F[m] \in Seq(Instrs) /\ G[m] \in Seq(Instrs) /\ Bars(F[m]) = Bars(G[m])
            BY <3>1, <3>4, <2>1
      <4>2. m + 1 # 1 /\ (m + 1) - 1 = m
            BY <3>4
      <4>3. F[m + 1] = F[m] \o q[m + 1] /\ G[m + 1] = G[m] \o r[m + 1]
            BY <3>1, <4>2, <2>5
      <4> QED BY <3>2, <4>1, <4>3, BarsConcat
    <3> QED BY <3>3, <3>4
  <2>8. n \in S
    <3>1. S \subseteq Nat
          OBVIOUS
    <3> HIDE DEF S
    <3> QED BY <2>1, <2>6, <2>7, <3>1, SetInduction
  <2> QED BY <1>2, <2>1, <2>4, <2>8
<1> QED BY <1>1, <1>2

----------------------------------------------------------------------------
(* All warps of a block are given the same barriers *)

LEMMA BandEpilogueAlike ==
    ASSUME NEW l \in Launches, NEW u \in Nat, NEW w \in Nat
    PROVE  Bars(BandEpilogue(l, u)) = Bars(BandEpilogue(l, w))
<1> DEFINE tail(n) == <<Bar, CopyOut(0, n), Bar>>
           body(v, n) == When(WarpN(l, v) = n, <<Stage(0)>>) \o tail(n)
           q(v) == [i \in 1 .. l.wn |-> body(v, i - 1)]
<1>1. ASSUME NEW v \in Nat, NEW n \in Int
      PROVE  body(v, n) \in Seq(Instrs) /\ Bars(body(v, n)) = Bars(tail(n))
  <2>1. /\ Stage(0) \in Instrs /\ CopyOut(0, n) \in Instrs /\ Bar \in Instrs
        /\ Stage(0).op # "bar"
        BY EpilogueInstr, BarQuiet DEF Stage
  <2>2. tail(n) \in Seq(Instrs) /\ <<Stage(0)>> \in Seq(Instrs)
        BY <2>1
  <2>3. Bars(<<Stage(0)>>) = 0 /\ Bars(<<>>) = 0 /\ <<>> \in Seq(Instrs)
        BY <2>1, BarsOne, BarsEmpty
  <2> HIDE DEF tail
  <2>4. /\ When(WarpN(l, v) = n, <<Stage(0)>>) \in Seq(Instrs)
        /\ Bars(When(WarpN(l, v) = n, <<Stage(0)>>)) = 0
        BY <2>2, <2>3 DEF When
  <2>5. Bars(tail(n)) \in Nat
        BY <2>2, BarsType
  <2> QED BY <2>2, <2>4, <2>5, BarsConcat
<1> HIDE DEF body, tail
<1>2. l.wn \in Int
      BY LaunchTypes
<1>3. \A v \in Nat : q(v) \in [1 .. l.wn -> Seq(Instrs)]
      BY <1>1, <1>2
<1>4. \A i \in 1 .. l.wn : Bars(q(u)[i]) = Bars(q(w)[i])
      BY <1>1, <1>2
<1>5. \A v \in Nat : BandEpilogue(l, v) = FlattenSeq(q(v))
      BY DEF BandEpilogue, Loop, body, tail
<1>6. q(u) \in [1 .. l.wn -> Seq(Instrs)] /\ q(w) \in [1 .. l.wn -> Seq(Instrs)]
      BY <1>3
<1> HIDE DEF q
<1>7. Bars(FlattenSeq(q(u))) = Bars(FlattenSeq(q(w)))
      BY <1>2, <1>4, <1>6, FlatAlike
<1> QED BY <1>5, <1>7

LEMMA GemmAlike ==
    ASSUME NEW l \in Launches, NEW u \in Nat, NEW w \in Nat
    PROVE  Bars(GemmCode(l, u)) = Bars(GemmCode(l, w))
<1> DEFINE main == IF Stages(l) < 2 THEN SyncLoop(l) ELSE PipelinedLoop(l)
<1>1. main \in Seq(Instrs)
  <2>1. CASE Stages(l) < 2
        BY <2>1, SyncLoopQuiet DEF Quiet
  <2>2. CASE ~(Stages(l) < 2)
    <3> DEFINE q == [i \in 1 .. KTiles(l) |-> Body(l, i - 1)]
    <3>1. Stages(l) >= 2
          BY <2>2, StageTypes
    <3>2. q \in [1 .. KTiles(l) -> Batches]
          BY <3>1, StageTypes, BodyBatch
    <3> HIDE DEF q
    <3>3. FlattenSeq(q) \in Seq(Instrs)
          BY <3>2, StageTypes, FlatBatches DEF Batches
    <3>4. Prologue(l) \in Seq(Instrs) /\ Drain(l) \in Seq(Instrs)
          BY <3>1, PrologueBatch, WaitQuiet, BarQuiet DEF Batches, Drain
    <3>5. PipelinedLoop(l) \in Seq(Instrs)
      <4>1. PipelinedLoop(l) = Prologue(l) \o FlattenSeq(q) \o Drain(l)
            BY DEF PipelinedLoop, Loop, q
      <4> QED BY <3>3, <3>4, <4>1
    <3> QED BY <2>2, <3>5
  <2> QED BY <2>1, <2>2
<1>2. \A v \in Nat : GemmCode(l, v) = main \o BandEpilogue(l, v)
      BY DEF GemmCode
<1>3. \A v \in Nat : BandEpilogue(l, v) \in Seq(Instrs)
      BY BandEpilogueQuiet DEF Quiet
<1> HIDE DEF main
<1>4. Bars(GemmCode(l, u)) = Bars(main) + Bars(BandEpilogue(l, u))
      BY <1>1, <1>2, <1>3, BarsConcat
<1>5. Bars(GemmCode(l, w)) = Bars(main) + Bars(BandEpilogue(l, w))
      BY <1>1, <1>2, <1>3, BarsConcat
<1> QED BY <1>4, <1>5, BandEpilogueAlike

LEMMA Fp8Alike ==
    ASSUME NEW l \in Launches, NEW u \in Nat, NEW w \in Nat
    PROVE  Bars(Fp8Code(l, u)) = Bars(Fp8Code(l, w))
<1>1. CASE l.fp8stages > 0
  <2> DEFINE q == [i \in 1 .. KTiles(l) |-> Fp8AsyncBody(l, i - 1)]
             out == [i \in 1 .. l.wn |-> <<CopyOut(i - 1, i - 1)>>]
             main == Fp8AsyncPrologue(l) \o FlattenSeq(q)
             first(v) == <<Wait(0), Stage(WarpN(l, v)), Bar>>
  <2>1. main \in Seq(Instrs)
    <3>1. q \in [1 .. KTiles(l) -> Batches]
          BY <1>1, StageTypes, Fp8BodyBatch
    <3> HIDE DEF q
    <3>2. FlattenSeq(q) \in Seq(Instrs)
          BY <3>1, StageTypes, FlatBatches DEF Batches
    <3> QED BY <1>1, <3>2, Fp8PrologueBatch DEF Batches
  <2>2. FlattenSeq(out) \in Seq(Instrs)
    <3>1. l.wn \in Int
          BY LaunchTypes
    <3>2. \A i \in 1 .. l.wn : <<CopyOut(i - 1, i - 1)>> \in Seq(Instrs)
          BY <3>1, EpilogueInstr
    <3>3. out \in [1 .. l.wn -> Seq(Instrs)]
          BY <3>2
    <3> HIDE DEF out
    <3> QED BY <3>1, <3>3, FlatInstrs
  <2>3. ASSUME NEW v \in Nat
        PROVE  first(v) \in Seq(Instrs) /\ Bars(first(v)) = 1
    <3>1. WarpN(l, v) \in Int
      <4>1. l.wm \in Nat \ {0}
            BY LaunchTypes
      <4> QED BY <4>1, DivMod DEF WarpN
    <3>2. /\ Stage(WarpN(l, v)) \in Instrs /\ Stage(WarpN(l, v)).op = "stage"
          /\ Wait(0) \in Instrs /\ Wait(0).op = "wait" /\ Bar \in Instrs /\ Bar.op = "bar"
          BY <3>1, EpilogueInstr, WaitQuiet, BarQuiet DEF Stage, Wait, Bar
    <3>3. BarAt(first(v)) = {3}
      <4>1. Len(first(v)) = 3 /\ first(v)[1] = Wait(0) /\ first(v)[2] = Stage(WarpN(l, v))
            /\ first(v)[3] = Bar
            OBVIOUS
      <4> HIDE DEF first
      <4>2. \A i \in 1 .. 3 : first(v)[i].op = "bar" <=> i = 3
            BY <3>2, <4>1
      <4> QED BY <4>1, <4>2 DEF BarAt
    <3>4. first(v) \in Seq(Instrs)
          BY <3>2
    <3> HIDE DEF first
    <3> QED BY <3>3, <3>4, FS_Singleton DEF Bars
  <2>4. ASSUME NEW v \in Nat
        PROVE  Bars(Fp8Code(l, v)) = Bars(main) + (1 + Bars(FlattenSeq(out)))
    <3>1. StagedEpilogue(l, v) = first(v) \o FlattenSeq(out)
          BY DEF StagedEpilogue, Loop
    <3>2. Fp8Code(l, v) = main \o StagedEpilogue(l, v)
          BY <1>1 DEF Fp8Code, Loop
    <3> HIDE DEF main, first, out
    <3>3. Bars(StagedEpilogue(l, v)) = 1 + Bars(FlattenSeq(out))
          BY <2>2, <2>3, <3>1, BarsConcat
    <3>4. StagedEpilogue(l, v) \in Seq(Instrs)
          BY <2>2, <2>3, <3>1
    <3> QED BY <2>1, <3>2, <3>3, <3>4, BarsConcat
  <2> HIDE DEF main, out
  <2> QED BY <2>4
<1>2. CASE ~(l.fp8stages > 0)
      BY <1>2 DEF Fp8Code
<1> QED BY <1>1, <1>2

LEMMA TokensFree ==
    ASSUME NEW s, NEW n \in Nat, DOMAIN s = 1 .. n, \A i \in 1 .. n : s[i] \in Int,
           NEW heads \in Int
    PROVE  /\ FlattenSeq([i \in DOMAIN s |->
                 FlattenSeq([h \in 1 .. heads |-> <<Token(h - 1, s[i])>>])]) \in BarFree
           /\ FlattenSeq([i \in DOMAIN s |-> <<Token(0, s[i])>>]) \in BarFree
<1>1. ASSUME NEW h \in Int, NEW t \in Int PROVE <<Token(h, t)>> \in BarFree
  <2>1. Token(h, t) \in Instrs /\ Token(h, t).op # "bar"
        BY TokenInstr DEF Token
  <2> QED BY <2>1, BarsOne DEF BarFree
<1>2. ASSUME NEW t \in Int
      PROVE  FlattenSeq([h \in 1 .. heads |-> <<Token(h - 1, t)>>]) \in BarFree
  <2> DEFINE q == [h \in 1 .. heads |-> <<Token(h - 1, t)>>]
  <2>1. \A h \in 1 .. heads : <<Token(h - 1, t)>> \in BarFree
        BY <1>1
  <2>2. q \in [1 .. heads -> BarFree]
        BY <2>1
  <2> HIDE DEF q
  <2>3. FlattenSeq(q) \in BarFree
        BY <2>2, FlatIn, BarsEmpty, BarFreeClosed
  <2> QED BY <2>3 DEF q
<1> DEFINE row(t) == FlattenSeq([h \in 1 .. heads |-> <<Token(h - 1, t)>>])
           q == [i \in DOMAIN s |-> row(s[i])]
           r == [i \in DOMAIN s |-> <<Token(0, s[i])>>]
<1>3. q \in [1 .. n -> BarFree]
  <2>1. \A t \in Int : row(t) \in BarFree
        BY <1>2
  <2> HIDE DEF row
  <2> QED BY <2>1
<1>4. r \in [1 .. n -> BarFree]
      BY <1>1
<1>5. FlattenSeq(q) \in BarFree /\ FlattenSeq(r) \in BarFree
  <2> HIDE DEF q, r
  <2> QED BY <1>3, <1>4, FlatIn, BarsEmpty, BarFreeClosed
<1> QED BY <1>5

LEMMA Int8Free ==
    ASSUME NEW l \in Launches, NEW b \in Int \X Int \X Int, NEW w \in Nat
    PROVE  Int8Code(l, b, w) \in BarFree
<1>1. ASSUME NEW k \in Int, NEW r \in Int, NEW c \in Int
      PROVE  <<Sum(k)>> \in BarFree /\ <<RedC(r, c)>> \in BarFree /\ <<PutC(r, c)>> \in BarFree
  <2>1. /\ Sum(k) \in Instrs /\ Sum(k).op # "bar" /\ RedC(r, c) \in Instrs /\ RedC(r, c).op # "bar"
        /\ PutC(r, c) \in Instrs /\ PutC(r, c).op # "bar"
        BY SumInstr DEF Sum, RedC, PutC
  <2> QED BY <2>1, BarsOne DEF BarFree
<1> QED BY <1>1, Int8In, BarsEmpty, BarFreeClosed

LEMMA AttentionAlike ==
    ASSUME NEW l \in Launches, NEW b \in Int \X Int \X Int, NEW u \in Nat, NEW w \in Nat
    PROVE  Bars(AttentionCode(l, b, u)) = Bars(AttentionCode(l, b, w))
<1> DEFINE chunk == (l.K + l.gz - 1) \div l.gz
           lo == IF l.split THEN b[3] * chunk ELSE 0
           hi == IF l.split THEN imin(lo + chunk, l.K) ELSE l.K
           heads == HeadsPerCta(l)
           ts(v) == Stride(lo + v, NumWarps(l), hi)
           tokens(v) == FlattenSeq([i \in DOMAIN ts(v) |->
                           FlattenSeq([h \in 1 .. heads |-> <<Token(h - 1, ts(v)[i])>>])])
           meet(h) == When(h > 0, <<Bar>>) \o <<PutPartial(h), Bar>>
           head(v, h) == meet(h) \o When(v = 0, <<Merge(h, b[1] * heads + h, b[3])>>)
           q(v) == [i \in 1 .. heads |-> head(v, i - 1)]
           merges(v) == FlattenSeq(q(v))
<1>1. /\ b[1] \in Int /\ b[3] \in Int /\ l.K \in Int /\ l.gz \in Nat \ {0}
      /\ l.wm \in Nat \ {0} /\ l.wn \in Nat \ {0} /\ l.gqa \in Nat \ {0}
      BY LaunchTypes
<1>2. heads \in Nat
      BY <1>1 DEF HeadsPerCta
<1>3. lo \in Int /\ hi \in Int
  <2>1. chunk \in Int
    <3>1. l.K + l.gz - 1 \in Int
          BY <1>1
    <3> QED BY <1>1, <3>1, DivMod
  <2> HIDE DEF chunk
  <2>2. lo \in Int
        BY <1>1, <2>1
  <2> HIDE DEF lo
  <2> QED BY <1>1, <2>1, <2>2 DEF imin
<1>4. NumWarps(l) \in Nat \ {0}
      BY <1>1 DEF NumWarps
<1>5. \A v \in Nat : AttentionCode(l, b, v) =
          IF l.K <= 0 THEN When(~l.split /\ v = 0, <<ZeroC(b[1])>>) ELSE tokens(v) \o merges(v)
      BY DEF AttentionCode, ForEach, Loop
<1> HIDE DEF chunk, lo, hi, heads
<1>6. ASSUME NEW v \in Nat PROVE tokens(v) \in BarFree
  <2>1. lo + v \in Int
        BY <1>3
  <2>2. PICK n \in Nat : DOMAIN ts(v) = 1 .. n /\ \A i \in 1 .. n : ts(v)[i] \in Int
        BY <1>3, <1>4, <2>1, StrideTypes
  <2> DEFINE s == ts(v)
  <2>3. DOMAIN s = 1 .. n /\ (\A i \in 1 .. n : s[i] \in Int) /\ heads \in Int
        BY <1>2, <2>2
  <2> HIDE DEF s
  <2>4. FlattenSeq([i \in DOMAIN s |->
           FlattenSeq([h \in 1 .. heads |-> <<Token(h - 1, s[i])>>])]) \in BarFree
        BY <2>3, TokensFree
  <2> QED BY <2>4 DEF s
<1>7. ASSUME NEW v \in Nat, NEW h \in Int
      PROVE  head(v, h) \in Seq(Instrs) /\ Bars(head(v, h)) = Bars(meet(h))
  <2>1. b[1] * heads + h \in Int
        BY <1>1, <1>2
  <2>2. /\ PutPartial(h) \in Instrs /\ Bar \in Instrs
        /\ Merge(h, b[1] * heads + h, b[3]) \in Instrs
        /\ Merge(h, b[1] * heads + h, b[3]).op # "bar"
        BY <1>1, <2>1, RowInstr, MergeInstr, BarQuiet DEF Merge
  <2>3. meet(h) \in Seq(Instrs)
        BY <2>2 DEF When
  <2> DEFINE last == When(v = 0, <<Merge(h, b[1] * heads + h, b[3])>>)
  <2>4. last \in Seq(Instrs) /\ Bars(last) = 0
        BY <2>2, BarsOne, BarsEmpty DEF When
  <2>5. Bars(meet(h)) \in Nat
        BY <2>3, BarsType
  <2> HIDE DEF meet, last
  <2>6. Bars(meet(h) \o last) = Bars(meet(h)) + 0
        BY <2>3, <2>4, BarsConcat
  <2> QED BY <2>3, <2>4, <2>5, <2>6 DEF last
<1> HIDE DEF head, meet, ts
<1>8. \A v \in Nat : q(v) \in [1 .. heads -> Seq(Instrs)]
      BY <1>2, <1>7
<1>9. \A i \in 1 .. heads : Bars(q(u)[i]) = Bars(q(w)[i])
      BY <1>2, <1>7
<1>10. q(u) \in [1 .. heads -> Seq(Instrs)] /\ q(w) \in [1 .. heads -> Seq(Instrs)] /\ heads \in Int
       BY <1>2, <1>8
<1>11. \A v \in Nat : merges(v) \in Seq(Instrs)
  <2> TAKE v \in Nat
  <2>1. q(v) \in [1 .. heads -> Seq(Instrs)]
        BY <1>8
  <2> HIDE DEF q
  <2> QED BY <1>10, <2>1, FlatInstrs
<1> HIDE DEF q
<1>12. Bars(merges(u)) = Bars(merges(w))
       BY <1>9, <1>10, FlatAlike
<1> HIDE DEF tokens, merges
<1>13. ASSUME NEW v \in Nat PROVE Bars(tokens(v) \o merges(v)) = Bars(merges(v))
  <2>1. tokens(v) \in Seq(Instrs) /\ Bars(tokens(v)) = 0
        BY <1>6 DEF BarFree
  <2>2. merges(v) \in Seq(Instrs) /\ Bars(merges(v)) \in Nat
        BY <1>11, BarsType
  <2>3. Bars(tokens(v) \o merges(v)) = 0 + Bars(merges(v))
        BY <2>1, <2>2, BarsConcat
  <2> QED BY <2>2, <2>3
<1>14. ASSUME NEW v \in Nat PROVE Bars(When(~l.split /\ v = 0, <<ZeroC(b[1])>>)) = 0
  <2>1. ZeroC(b[1]) \in Instrs /\ ZeroC(b[1]).op # "bar"
        BY <1>1, RowInstr DEF ZeroC
  <2> QED BY <2>1, BarsOne, BarsEmpty DEF When
<1> HIDE DEF Bars
<1> QED BY <1>5, <1>12, <1>13, <1>14

LEMMA NormAlike ==
    ASSUME NEW l \in Launches, NEW b \in Int \X Int \X Int, NEW u \in Nat, NEW w \in Nat
    PROVE  Bars(NormCode(l, b, u)) = Bars(NormCode(l, b, w))
<1> DEFINE ks(v) == Stride(v, NumWarps(l), l.K)
           tokens(v) == FlattenSeq([i \in DOMAIN ks(v) |-> <<Token(0, ks(v)[i])>>])
           first == <<PutPartial(0)>>
           meet == When(NumWarps(l) > 1, <<Bar>>)
           last == <<Norm(b[1])>>
           rest == first \o meet \o last
<1>1. /\ b[1] \in Int /\ l.K \in Int /\ NumWarps(l) \in Nat \ {0}
  <2>1. l.K \in Int /\ l.wm \in Nat \ {0} /\ l.wn \in Nat \ {0}
        BY LaunchTypes
  <2> QED BY <2>1 DEF NumWarps
<1>2. ASSUME NEW v \in Nat PROVE tokens(v) \in BarFree
  <2>0. v \in Int
        OBVIOUS
  <2>1. PICK n \in Nat : DOMAIN ks(v) = 1 .. n /\ \A i \in 1 .. n : ks(v)[i] \in Int
        BY <1>1, <2>0, StrideTypes
  <2> DEFINE s == ks(v)
  <2>2. DOMAIN s = 1 .. n /\ (\A i \in 1 .. n : s[i] \in Int) /\ 1 \in Int
        BY <2>1
  <2> HIDE DEF s
  <2>3. FlattenSeq([i \in DOMAIN s |-> <<Token(0, s[i])>>]) \in BarFree
        BY <2>2, TokensFree
  <2> QED BY <2>3 DEF s
<1>3. first \in Seq(Instrs) /\ meet \in Seq(Instrs) /\ last \in Seq(Instrs)
  <2>1. PutPartial(0) \in Instrs /\ Bar \in Instrs /\ Norm(b[1]) \in Instrs
        BY <1>1, RowInstr, BarQuiet
  <2> QED BY <2>1 DEF When
<1>4. \A v \in Nat : NormCode(l, b, v) = tokens(v) \o first \o meet \o last
      BY DEF NormCode, ForEach
<1> HIDE DEF tokens, first, meet, last, ks
<1>5. ASSUME NEW v \in Nat
      PROVE  Bars(NormCode(l, b, v)) = Bars(first) + Bars(meet) + Bars(last)
  <2>1. tokens(v) \in Seq(Instrs) /\ Bars(tokens(v)) = 0
        BY <1>2 DEF BarFree
  <2>2. Bars(first) \in Nat /\ Bars(meet) \in Nat /\ Bars(last) \in Nat
        BY <1>3, BarsType
  <2>3. tokens(v) \o first \in Seq(Instrs) /\ Bars(tokens(v) \o first) = 0 + Bars(first)
        BY <1>3, <2>1, BarsConcat
  <2> DEFINE x == tokens(v) \o first
             y == x \o meet
  <2>4. x \in Seq(Instrs) /\ Bars(x) = Bars(first)
        BY <2>2, <2>3
  <2> HIDE DEF x
  <2>5. y \in Seq(Instrs) /\ Bars(y) = Bars(first) + Bars(meet)
        BY <1>3, <2>4, BarsConcat
  <2>6. NormCode(l, b, v) = y \o last
        BY <1>4 DEF x
  <2> HIDE DEF y
  <2> QED BY <1>3, <2>5, <2>6, BarsConcat
<1> QED BY <1>5

LEMMA CombineFree ==
    ASSUME NEW l \in Launches, NEW b \in Int \X Int \X Int, NEW w \in Nat
    PROVE  Bars(CombineCode(l, b, w)) = 0
<1>1. /\ ZeroC(b[1]) \in Instrs /\ ZeroC(b[1]).op # "bar"
      /\ Combine(b[1]) \in Instrs /\ Combine(b[1]).op # "bar"
      BY RowInstr DEF ZeroC, Combine
<1>2. Bars(<<ZeroC(b[1])>>) = 0 /\ Bars(<<Combine(b[1])>>) = 0
      BY <1>1, BarsOne
<1> QED BY <1>2, BarsEmpty DEF CombineCode, When

\* Whatever the kernel, its warps get the same number of barriers.
LEMMA CodeAlike ==
    ASSUME NEW l \in Launches, NEW e, NEW b \in Int \X Int \X Int, NEW u \in Nat, NEW w \in Nat
    PROVE  Bars(Code(l, e, b, u)) = Bars(Code(l, e, b, w))
<1>1. CASE l.kind = "f16"
      BY <1>1, GemmAlike DEF Code
<1>2. CASE l.kind = "swiglu"
  <2>1. [l EXCEPT !.spread = FALSE] \in Launches
        BY DEF Launches
  <2> QED BY <1>2, <2>1, GemmAlike DEF Code, SwigluCode
<1>3. CASE l.kind = "fp8"
      BY <1>3, Fp8Alike DEF Code
<1>4. CASE l.kind = "int8"
  <2>1. \A v \in Nat : Code(l, e, b, v) = Int8Code(l, b, v)
        BY <1>4 DEF Code
  <2>2. \A v \in Nat : Bars(Int8Code(l, b, v)) = 0
        BY Int8Free DEF BarFree
  <2> QED BY <2>1, <2>2
<1>5. CASE l.kind = "rmsnorm"
  <2>1. \A v \in Nat : Code(l, e, b, v) = NormCode(l, b, v)
        BY <1>5 DEF Code
  <2> QED BY <2>1, NormAlike
<1>6. CASE l.kind = "attention"
  <2>1. \A v \in Nat : Code(l, e, b, v) =
           IF e = "reduce" THEN CombineCode(l, b, v) ELSE AttentionCode(l, b, v)
        BY <1>6 DEF Code
  <2> QED BY <2>1, AttentionAlike, CombineFree
<1> QED BY <1>1, <1>2, <1>3, <1>4, <1>5, <1>6, LaunchTypes

----------------------------------------------------------------------------
(* They have the same ahead of them at every step *)

\* A step that consumes no barrier and lets none in.
LEMMA MeetingKept ==
    ASSUME Inv, Meeting, UNCHANGED <<shape, arrived>>,
           \A w \in InBlock : Bars(code'[w]) = Bars(code[w])
    PROVE  Meeting'
<1>1. InBlock' = InBlock
      BY DEF InBlock
<1> QED BY <1>1 DEF Meeting

\* An instruction that is not a barrier leaves the barriers ahead.
LEMMA OtherMeets ==
    ASSUME Inv, Meeting, NEW w \in Warps, NEW op, AtOp(w, op), op # "bar", Advance(w),
           UNCHANGED <<grid, arrived>>
    PROVE  Meeting'
<1>1. code[w] \in Seq(Instrs) /\ code[w] # <<>> /\ code[w][1].op = op
      BY AtInstr
<1>2. Bars(Tail(code[w])) = Bars(code[w])
  <2>1. Bars(Tail(code[w])) \in Nat
        BY <1>1, TailOf, BarsType
  <2> HIDE DEF Bars
  <2> QED BY <1>1, <2>1, BarsTail
<1>3. ASSUME NEW u \in InBlock PROVE Bars(code'[u]) = Bars(code[u])
  <2>1. u \in Warps /\ code' = [code EXCEPT ![w] = Tail(code[w])]
        BY DEF InBlock, Advance
  <2>2. u = w => code'[u] = Tail(code[w])
        BY <2>1 DEF Inv, Types
  <2>3. u # w => code'[u] = code[u]
        BY <2>1 DEF Inv, Types
  <2> QED BY <1>2, <2>2, <2>3
<1> QED BY <1>3, MeetingKept DEF grid

LEMMA BarMeets ==
    ASSUME Inv, Meeting, NEW w \in Warps, BarSync(w)
    PROVE  Meeting'
<1>1. AtOp(w, "bar") /\ w \notin arrived /\ UNCHANGED grid
      BY DEF BarSync
<1>2. w \in InBlock /\ code[w] # <<>> /\ Head(code[w]).op = "bar"
      BY <1>1, AtInstr DEF AtOp
<1>3. InBlock' = InBlock
      BY <1>1 DEF InBlock, grid
<1>4. CASE arrived \cup {w} # InBlock
  <2>1. arrived' = arrived \cup {w} /\ code' = code
        BY <1>4 DEF BarSync
  <2> QED BY <1>2, <1>3, <1>4, <2>1 DEF Meeting
<1>5. CASE arrived \cup {w} = InBlock
  <2>1. arrived' = {}
        /\ code' = [u \in Warps |-> IF u \in InBlock THEN Tail(code[u]) ELSE <<>>]
        BY <1>5 DEF BarSync
  <2>2. ASSUME NEW u \in InBlock
        PROVE  /\ Bars(code'[u]) = Bars(code[u]) - 1
               /\ Bars(code[u]) \in Nat
    <3>1. u \in Warps /\ code[u] # <<>> /\ Head(code[u]).op = "bar"
          BY <1>2, <1>5 DEF Inv, Scheduled, InBlock
    <3>2. /\ code[u] \in Seq(Instrs) /\ Tail(code[u]) \in Seq(Instrs)
          /\ code[u][1].op = "bar"
      <4>1. code[u] \in Seq(Instrs)
            BY <3>1 DEF Inv, Types
      <4> QED BY <3>1, <4>1, TailOf
    <3>3. Bars(code[u]) = Bars(Tail(code[u])) + 1
          BY <3>1, <3>2, BarsTail
    <3>4. Bars(Tail(code[u])) \in Nat /\ Bars(code[u]) \in Nat
          BY <3>2, BarsType
    <3>5. code'[u] = Tail(code[u])
          BY <2>1, <3>1
    <3> HIDE DEF Bars
    <3> QED BY <3>3, <3>4, <3>5
  <2>3. \A u, v \in InBlock : Bars(code'[u]) = Bars(code'[v])
        BY <2>2 DEF Meeting
  <2> QED BY <1>3, <2>1, <2>3 DEF Meeting
<1> QED BY <1>4, <1>5

LEMMA StartMeets ==
    ASSUME Inv, Meeting, NEW b \in todo, StartBlock(b)
    PROVE  Meeting'
<1>1. shape \in Launches /\ b \in Int \X Int \X Int
      BY LaunchAssumption DEF Inv, Types
<1>2. UNCHANGED <<shape, arrived>> /\ InBlock' = InBlock
      BY DEF StartBlock, InBlock
<1>3. \A u \in InBlock : u \in Nat /\ code'[u] = Code(shape, entry, b, u)
      BY DEF StartBlock, InBlock, Warps
<1>4. ASSUME NEW u \in InBlock, NEW v \in InBlock PROVE Bars(code'[u]) = Bars(code'[v])
      BY <1>1, <1>3, CodeAlike
<1> QED BY <1>2, <1>4 DEF Meeting

LEMMA StepMeets ==
    ASSUME Inv, Meeting, NEW w \in Warps, Step(w)
    PROVE  Meeting'
<1>1. CASE BarSync(w)
      BY <1>1, BarMeets
<1>2. CASE StoreTile(w) \/ CopyAsync(w) \/ CommitGroup(w) \/ WaitGroup(w) \/ LoadTile(w)
           \/ StoreTileRegs(w) \/ Quantize(w) \/ MmaStep(w) \/ SumGlobal(w)
  <2>1. \E op \in {"store", "copy", "commit", "wait", "ldreg", "streg", "convert", "mma", "sum"} :
           AtOp(w, op) /\ Advance(w) /\ UNCHANGED <<grid, arrived>>
        BY <1>2 DEF StoreTile, CopyAsync, CommitGroup, WaitGroup, LoadTile, StoreTileRegs,
                    Quantize, MmaStep, SumGlobal
  <2> QED BY <2>1, OtherMeets
<1>3. CASE StageAcc(w) \/ CopyBand(w) \/ StoreAcc(w) \/ Finish(w) \/ AttendToken(w)
           \/ PutState(w) \/ MergeStates(w) \/ NormRow(w) \/ StoreZeros(w) \/ CombineSplits(w)
  <2>1. \E op \in {"stage", "copyout", "storec", "redc", "putc", "token", "partial", "merge",
                   "norm", "zeroc", "combine"} :
           AtOp(w, op) /\ Advance(w) /\ UNCHANGED <<grid, arrived>>
        BY <1>3 DEF StageAcc, CopyBand, StoreAcc, Finish, AttendToken, PutState, MergeStates,
                    NormRow, StoreZeros, CombineSplits
  <2> QED BY <2>1, OtherMeets
<1> QED BY <1>1, <1>2, <1>3 DEF Step

LEMMA NextMeets == Inv /\ Meeting /\ [Next]_vars => Meeting'
<1> SUFFICES ASSUME Inv, Meeting, [Next]_vars PROVE Meeting'
    OBVIOUS
<1>1. ASSUME NEW l \in Shapes, Launch(l) PROVE Meeting'
  <2>1. /\ code' = code /\ arrived' = arrived
        /\ \A w \in Warps : code[w] = <<>>
        BY <1>1 DEF Launch, Inv, Scheduled
  <2>2. arrived = {} /\ InBlock' \subseteq Warps
        BY <2>1 DEF Inv, Scheduled, Types, InBlock
  <2> QED BY <2>1, <2>2 DEF Meeting
<1>2. CASE Stream
  <2>1. CASE \E b \in todo : StartBlock(b)
        BY <2>1, StartMeets
  <2>2. CASE EndBlock \/ EndGrid
        BY <2>2, MeetingKept DEF EndBlock, EndGrid
  <2> QED BY <1>2, <2>1, <2>2 DEF Stream
<1>3. CASE \E w \in Warps : Step(w)
      BY <1>3, StepMeets
<1>4. CASE UNCHANGED vars
      BY <1>4, MeetingKept DEF vars, grid
<1> QED BY <1>1, <1>2, <1>3, <1>4 DEF Next

\* A warp that waits at a barrier does not wait for ever for one that has gone another
\* way: every bar.sync that one warp of a block executes, all of them execute, since
\* no kernel branches around one, and the last to come never waits.  It is what
\* LaunchesReturn rests on besides fairness.
THEOREM WarpsMeet == Spec => []BarriersMatch
<1>1. Init => Meeting
  <2> SUFFICES ASSUME Init PROVE Meeting
      OBVIOUS
  <2>1. arrived = {} /\ \A w \in Warps : code[w] = <<>>
        BY DEF Init, Idle
  <2> QED BY <2>1 DEF Meeting, InBlock
<1>2. Inv /\ Meeting => BarriersMatch
  <2> SUFFICES ASSUME Inv, Meeting, NEW w \in arrived
               PROVE  /\ \A u \in InBlock : code[u] # <<>> /\ Bars(code[u]) = Bars(code[w])
                      /\ \E u \in InBlock : u \notin arrived
      BY DEF BarriersMatch
  <2>1. w \in InBlock /\ w \in Warps /\ code[w] # <<>> /\ Head(code[w]).op = "bar"
        BY DEF Inv, Scheduled, Meeting, InBlock
  <2>2. code[w] \in Seq(Instrs) /\ code[w][1].op = "bar" /\ 1 \in 1 .. Len(code[w])
    <3>1. code[w] \in Seq(Instrs)
          BY <2>1 DEF Inv, Types
    <3> QED BY <2>1, <3>1, TailOf
  <2>3. Bars(code[w]) # 0
        BY <2>2, BarsType
  <2>4. ASSUME NEW u \in InBlock PROVE code[u] # <<>> /\ Bars(code[u]) = Bars(code[w])
    <3>1. Bars(code[u]) = Bars(code[w])
          BY <2>1 DEF Meeting
    <3> QED BY <2>3, <3>1, BarsEmpty
  <2>5. \E u \in InBlock : u \notin arrived
        BY <2>1 DEF Meeting
  <2> QED BY <2>4, <2>5
<1> QED BY <1>1, <1>2, InitInv, NextInv, NextMeets, PTL DEF Spec
=============================================================================
