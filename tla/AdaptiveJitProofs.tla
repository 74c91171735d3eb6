------------------------- MODULE AdaptiveJitProofs --------------------------
(***************************************************************************)
(* Proofs about the parts of the adaptive runtime that AdaptiveGemm is     *)
(* composed with: the C handles in front of it (AdaptiveHandle), one       *)
(* tuning attempt (GemmTuner) and the decision files (DecisionCache).  The *)
(* three share no state; each has an inductive invariant of its own.       *)
(***************************************************************************)
EXTENDS AdaptiveHandle, GemmTuner, DecisionCache, FiniteSetTheorems, TLAPS

-----------------------------------------------------------------------------
(***************************************************************************)
(* Proofs about AdaptiveHandle, for any number of threads, contexts and    *)
(* handles.  A closed handle stays closed and idle because every call that *)
(* enqueues needs a live one, and closing waits for the context whose work *)
(* the handle's modules run.                                               *)
(***************************************************************************)

HandleTypes ==
    /\ state \in [Handles -> {"free", "live", "closed"}]
    /\ poisoned \in [Handles -> BOOLEAN]
    /\ busy \in [Handles -> BOOLEAN]

HandleInv == HandleTypes /\ ClosedIsIdle

\* What waiting for a context does to the handles: nothing starts to run.
LEMMA SynchronizedLemma ==
    ASSUME NEW c, busy \in [Handles -> BOOLEAN]
    PROVE  /\ Synchronized(c) \in [Handles -> BOOLEAN]
           /\ \A h \in Handles : /\ Synchronized(c)[h] => busy[h]
                                 /\ ctx[h] = c => ~Synchronized(c)[h]
BY DEF Synchronized

LEMMA HandleInitInv == HandleInit => HandleInv
BY DEF HandleInit, HandleInv, HandleTypes, ClosedIsIdle

LEMMA HandleNextInv == HandleInv /\ [HandleNext]_handleVars => HandleInv'
<1> SUFFICES ASSUME HandleInv, [HandleNext]_handleVars PROVE HandleInv'
  OBVIOUS
<1> USE DEF HandleInv, HandleTypes, ClosedIsIdle
<1>1. ASSUME NEW t \in Threads, NEW h \in Handles, Create(t, h) PROVE HandleInv'
  BY <1>1 DEF Create
<1>2. ASSUME NEW t \in Threads, NEW h \in Handles, Call(t, h) PROVE HandleInv'
  <2>1. PICK before \in {busy, Synchronized(ctx[h])} :
           busy' \in {before, [before EXCEPT ![h] = TRUE]}
    BY <1>2 DEF Call
  <2>2. /\ before \in [Handles -> BOOLEAN]
        /\ \A g \in Handles : before[g] => busy[g]
    BY SynchronizedLemma
  <2>3. state[h] = "live" /\ UNCHANGED <<state, poisoned>>
    BY <1>2 DEF Call, Enters
  <2> QED BY <2>1, <2>2, <2>3
<1>3. ASSUME NEW t \in Threads, NEW h \in Handles, PanicCall(t, h) PROVE HandleInv'
  BY <1>3 DEF PanicCall, Enters
<1>4. ASSUME NEW t \in Threads, NEW h \in Handles, Destroy(t, h) PROVE HandleInv'
  <2>1. /\ busy' \in [Handles -> BOOLEAN]
        /\ \A g \in Handles : busy'[g] => busy[g]
        /\ ~busy'[h]
    BY <1>4, SynchronizedLemma DEF Destroy
  <2>2. /\ state' = [state EXCEPT ![h] = "closed"]
        /\ UNCHANGED poisoned
    BY <1>4 DEF Destroy
  <2> QED BY <2>1, <2>2
<1>5. ASSUME NEW t \in Threads, SetCurrent(t) PROVE HandleInv'
  BY <1>5 DEF SetCurrent
<1>6. ASSUME NEW h \in Handles, Complete(h) PROVE HandleInv'
  BY <1>6 DEF Complete
<1>7. CASE UNCHANGED handleVars
  BY <1>7 DEF handleVars
<1> QED BY <1>1, <1>2, <1>3, <1>4, <1>5, <1>6, <1>7 DEF HandleNext

LEMMA HandleInvariance == HandleSpec => []HandleInv
BY HandleInitInv, HandleNextInv, PTL DEF HandleSpec

\* No kernel outlives its module: y_adaptive_jit_destroy releases the modules
\* of an idle handle, and nothing is enqueued in it afterwards.
THEOREM ClosedHandlesIdle == HandleSpec => []ClosedIsIdle
<1>1. HandleInv => ClosedIsIdle
  BY DEF HandleInv
<1> QED BY <1>1, HandleInvariance, PTL

-----------------------------------------------------------------------------
(***************************************************************************)
(* Proofs about GemmTuner, for every set of candidates, every code they    *)
(* generate, all timings a measurement can return and every margin.        *)
(*                                                                         *)
(* The inductive invariant says what the attempt has established when it   *)
(* reaches each phase; a conclusion then follows from the phase it is      *)
(* drawn in.                                                               *)
(***************************************************************************)

\* The caller and its baseline.
CallerOK == \/ mode = "adaptive" /\ baseline \in Candidates
            \/ mode = "full" /\ baseline = NoBaseline

\* No conclusion before the end, and no final pass before the screens.
PhaseOK ==
    /\ pc # "done" => result = Pending
    /\ pc \in {"collect", "compile", "gate", "screen", "warm"} => finalists = {}
    /\ pc = "screen" => mode = "adaptive"

\* Compiled kernels have different code.
CodesDiffer ==
    pc \in {"gate", "screen", "warm", "final", "decide"} =>
        \A c, d \in kernels : Code[c] = Code[d] => c = d

\* What the attempt concludes, given the caller: TuneContract's outcomes.
Concluded == pc = "done" => result \in Contract!Outcomes

TunerInv ==
    /\ TunerTypeOK /\ CallerOK /\ PhaseOK /\ CodesDiffer /\ Concluded
    /\ OnlyVerifiedTimed /\ BaselineRemeasured
    /\ PromotionEarned /\ NoGainDismissed /\ WinnerSound

----------------------------------------------------------------------------
(* Timings *)

LEMMA MaxOfTwo ==
    \A a, b \in Int : \A S : S = {a, b} =>
        MaxOf(S) \in Int /\ MaxOf(S) >= a /\ MaxOf(S) >= b
<1> TAKE a, b \in Int
<1> TAKE S
<1> HAVE S = {a, b}
<1>1. \E x \in S : \A y \in S : y <= x
  OBVIOUS
<1>2. MaxOf(S) \in S /\ \A y \in S : y <= MaxOf(S)
  BY <1>1 DEF MaxOf
<1> QED BY <1>2

LEMMA MaxOfThree ==
    \A a, b, c \in Int : \A S : S = {a, b, c} =>
        /\ MaxOf(S) \in Int /\ MaxOf(S) >= a
        /\ MaxOf(S) >= b /\ MaxOf(S) >= c
<1> TAKE a, b, c \in Int
<1> TAKE S
<1> HAVE S = {a, b, c}
<1>1. \E x \in S : \A y \in S : y <= x
  OBVIOUS
<1>2. MaxOf(S) \in S /\ \A y \in S : y <= MaxOf(S)
  BY <1>1 DEF MaxOf
<1> QED BY <1>2

LEMMA MinOfTwo ==
    ASSUME NEW a \in Nat, NEW b \in Nat PROVE MinOf({a, b}) \in Nat
<1>1. \E x \in {a, b} : \A y \in {a, b} : x <= y
  OBVIOUS
<1> QED BY <1>1 DEF MinOf

LEMMA NoiseLemma ==
    ASSUME NEW t \in Timings, NEW u \in Timings
    PROVE  /\ Noise(t, u) \in Int /\ Noise(t, u) >= 0
           /\ Noise(t, u) >= 10000 * (t.median - t.best)
           /\ Noise(t, u) >= 10000 * (u.median - u.best)
<1> DEFINE a == 10000 * (t.median - t.best)
           b == 10000 * (u.median - u.best)
           c == 25 * MinOf({t.best, u.best})
<1>1. t.best \in Nat /\ t.median \in Nat /\ u.best \in Nat /\ u.median \in Nat
  BY TimingsAssumption
<1>2. a \in Int /\ b \in Int /\ c \in Int /\ c >= 0
  BY <1>1, MinOfTwo
<1>3. Noise(t, u) = MaxOf({a, b, c})
  BY DEF Noise
<1> HIDE DEF a, b, c
<1>4. Noise(t, u) \in Int /\ Noise(t, u) >= a /\ Noise(t, u) >= b /\ Noise(t, u) >= c
  <2> DEFINE S == {a, b, c}
  <2>1. MaxOf(S) \in Int /\ MaxOf(S) >= a /\ MaxOf(S) >= b /\ MaxOf(S) >= c
    <3>1. S = {a, b, c}
      OBVIOUS
    <3> HIDE DEF S
    <3> QED BY <1>2, <3>1, MaxOfThree
  <2> QED BY <1>3, <2>1
<1>5. Noise(t, u) >= 0
  BY <1>2, <1>4
<1> QED BY <1>4, <1>5 DEF a, b

\* clearly_faster: beyond the margin and both dispersions, hence another kernel.
LEMMA FasterLemma ==
    ASSUME NEW t \in Timings, NEW u \in Timings, ClearlyFaster(t, u)
    PROVE  LET gain == 10000 * (t.best - u.best) IN
           /\ gain > t.best * MinImprovement
           /\ gain > 10000 * (t.median - t.best)
           /\ gain > 10000 * (u.median - u.best)
           /\ u.best > 0 /\ u # t
<1> DEFINE gain == 10000 * (t.best - u.best)
           m == t.best * MinImprovement
           n == Noise(t, u)
<1>1. t.best \in Nat /\ u.best \in Nat /\ t.median \in Nat /\ u.median \in Nat
  BY TimingsAssumption
<1>2. m \in Int /\ n \in Int /\ gain \in Int
  BY <1>1, MarginAssumption, NoiseLemma
<1>3. gain > MaxOf({m, n}) /\ u.best > 0
  BY <1>1 DEF ClearlyFaster, Valid
<1>4. MaxOf({m, n}) \in Int /\ MaxOf({m, n}) >= m /\ MaxOf({m, n}) >= n
  <2> DEFINE S == {m, n}
  <2>1. S = {m, n}
    OBVIOUS
  <2>2. MaxOf(S) \in Int /\ MaxOf(S) >= m /\ MaxOf(S) >= n
    <3> HIDE DEF S, m, n, gain
    <3> QED BY <1>2, <2>1, MaxOfTwo
  <2> QED BY <2>2
<1>5. gain > m /\ gain > n
  <2> HIDE DEF m, n, gain
  <2> QED BY <1>2, <1>3, <1>4
<1>6. n >= 0 /\ n >= 10000 * (t.median - t.best) /\ n >= 10000 * (u.median - u.best)
  BY NoiseLemma
<1>7. u # t
  BY <1>1, <1>2, <1>5, <1>6
<1> QED BY <1>1, <1>2, <1>3, <1>5, <1>6, <1>7

\* What the screen keeps the baseline against is not clearly faster: the margin
\* below the slowest round is no less than the margin below the fastest.
LEMMA RetainedNotFaster ==
    ASSUME NEW t \in Timings, NEW u \in Timings, ~Beats(u.best, t.max)
    PROVE  ~ClearlyFaster(t, u)
<1> SUFFICES ASSUME ClearlyFaster(t, u) PROVE FALSE
  OBVIOUS
<1> DEFINE m == 10000 - MinImprovement
<1>1. t.best \in Nat /\ t.max \in Nat /\ u.best \in Nat /\ t.best <= t.max
  BY TimingsAssumption DEF ClearlyFaster, Valid
<1>2. MinImprovement \in Int /\ m \in Nat
  <2>1. \A i \in 0..9999 : i \in Int /\ 10000 - i \in Nat
    OBVIOUS
  <2> QED BY <2>1, MarginAssumption
<1>3. 10000 * (t.best - u.best) > t.best * MinImprovement
  BY FasterLemma
<1>4. 10000 * u.best < t.best * m
  BY <1>1, <1>2, <1>3
<1>5. ~(10000 * u.best < t.max * m)
  BY DEF Beats
<1> HIDE DEF m
<1>6. t.best * m <= t.max * m
  BY <1>1, <1>2
<1>7. t.best * m \in Int /\ t.max * m \in Int
  BY <1>1, <1>2
<1> QED BY <1>1, <1>4, <1>5, <1>6, <1>7

\* A kernel is tied with itself.
LEMMA TiedWithItself ==
    ASSUME NEW t \in Timings PROVE TiedWith(t, t)
<1>1. t.best \in Nat /\ Noise(t, t) \in Int /\ Noise(t, t) >= 0
  BY TimingsAssumption, NoiseLemma
<1>2. 10000 * Abs(t.best - t.best) = 0
  BY <1>1 DEF Abs
<1> QED BY <1>1, <1>2 DEF TiedWith

----------------------------------------------------------------------------
(* Conclusions *)

\* A failed attempt is a conclusion of the contract, for either caller.
LEMMA FailureAllowed ==
    ASSUME CallerOK
    PROVE  [tier |-> "TuningFailed", kernel |-> baseline] \in Contract!Outcomes
BY NoBaselineAssumption
DEF CallerOK, Contract!Outcomes, Contract!Conclusions

\* The end of an attempt that failed: nothing else is claimed of it.
LEMMA FailStep ==
    ASSUME TunerInv, Fail, UNCHANGED <<mode, baseline, retried, finalists>>,
           kernels' \subseteq Candidates, finalists \subseteq kernels'
    PROVE  TunerInv'
<1>1. pc' = "done" /\ result' = [tier |-> "TuningFailed", kernel |-> baseline]
  BY DEF Fail
<1>2. CallerOK
  BY DEF TunerInv
<1>3. result' \in Contract!Outcomes'
  BY <1>1, <1>2, FailureAllowed DEF Contract!Outcomes
<1>4. TunerTypeOK' /\ CallerOK'
  BY <1>1, <1>2 DEF TunerInv, TunerTypeOK, Tiers, CallerOK
<1>5. PhaseOK' /\ CodesDiffer' /\ OnlyVerifiedTimed' /\ BaselineRemeasured'
  BY <1>1 DEF PhaseOK, CodesDiffer, OnlyVerifiedTimed, BaselineRemeasured
<1>6. PromotionEarned' /\ NoGainDismissed' /\ WinnerSound'
  BY <1>1 DEF PromotionEarned, NoGainDismissed, WinnerSound
<1>7. Concluded'
  BY <1>3 DEF Concluded
<1> QED BY <1>4, <1>5, <1>6, <1>7 DEF TunerInv

LEMMA TunerInitInv == TunerInit => TunerInv
<1> SUFFICES ASSUME TunerInit PROVE TunerInv
  OBVIOUS
<1>1. TunerTypeOK /\ CallerOK
  BY ModesAssumption DEF TunerInit, TunerTypeOK, CallerOK
<1>2. pc = "collect" /\ result = Pending /\ finalists = {}
  BY DEF TunerInit
<1> QED
  BY <1>1, <1>2
  DEF TunerInv, PhaseOK, CodesDiffer, Concluded, OnlyVerifiedTimed, BaselineRemeasured,
      PromotionEarned, NoGainDismissed, WinnerSound

----------------------------------------------------------------------------
(* The phases *)

\* A step from phase to phase, before any conclusion: it has to re-establish
\* what its new phase claims of the kernels.
LEMMA PhaseStep ==
    ASSUME TunerInv, pc # "done", UNCHANGED <<mode, baseline, result>>, TunerTypeOK',
           pc' # "done", PhaseOK', CodesDiffer', OnlyVerifiedTimed',
           BaselineRemeasured'
    PROVE  TunerInv'
BY DEF TunerInv, CallerOK, Concluded, PromotionEarned, NoGainDismissed, WinnerSound

LEMMA CollectInv == ASSUME TunerInv, Collect PROVE TunerInv'
<1>1. /\ pc = "collect" /\ result = Pending /\ finalists = {}
      /\ UNCHANGED <<mode, baseline, timing, retried, finalists>>
  BY DEF TunerInv, PhaseOK, Collect
<1>2. CASE Fail /\ UNCHANGED kernels
  BY <1>1, <1>2, FailStep DEF TunerInv, TunerTypeOK
<1>3. CASE pc' = "compile" /\ UNCHANGED result /\ kernels' \subseteq Candidates
  <2>1. TunerTypeOK'
    BY <1>1, <1>3 DEF TunerInv, TunerTypeOK
  <2>2. PhaseOK' /\ CodesDiffer' /\ OnlyVerifiedTimed' /\ BaselineRemeasured'
    BY <1>1, <1>3 DEF PhaseOK, CodesDiffer, OnlyVerifiedTimed, BaselineRemeasured
  <2> QED BY <1>1, <1>3, <2>1, <2>2, PhaseStep
<1> QED BY <1>2, <1>3 DEF Collect, Distinct, TunerInv, TunerTypeOK

LEMMA CompileInv == ASSUME TunerInv, Compile PROVE TunerInv'
<1>1. /\ pc = "compile" /\ result = Pending /\ finalists = {}
      /\ UNCHANGED <<mode, baseline, timing, retried, finalists>>
  BY DEF TunerInv, PhaseOK, Compile
<1>2. PICK loads \in SUBSET kernels : kernels' \in Deduplicated(loads)
  BY DEF Compile
<1>3. /\ kernels' \subseteq kernels /\ kernels' \subseteq Candidates
      /\ \A c, d \in kernels' : Code[c] = Code[d] => c = d
  BY <1>2 DEF Deduplicated, TunerInv, TunerTypeOK
<1>4. CASE Fail
  BY <1>1, <1>3, <1>4, FailStep
<1>5. CASE pc' = "gate" /\ UNCHANGED result
  <2>1. TunerTypeOK'
    BY <1>1, <1>3, <1>5 DEF TunerInv, TunerTypeOK
  <2>2. PhaseOK' /\ CodesDiffer' /\ OnlyVerifiedTimed' /\ BaselineRemeasured'
    BY <1>1, <1>3, <1>5
    DEF PhaseOK, CodesDiffer, OnlyVerifiedTimed, BaselineRemeasured
  <2> QED BY <1>1, <1>5, <2>1, <2>2, PhaseStep
<1> QED BY <1>4, <1>5 DEF Compile

LEMMA GateInv == ASSUME TunerInv, Gate PROVE TunerInv'
<1>1. /\ pc = "gate" /\ result = Pending /\ finalists = {} /\ CallerOK
      /\ UNCHANGED <<mode, baseline, timing, retried, finalists>>
      /\ kernels \subseteq Candidates
  BY DEF TunerInv, TunerTypeOK, PhaseOK, Gate
<1>2. PICK answered \in SUBSET kernels :
         /\ kernels' = answered \ Wrong
         /\ IF baseline \in answered \cap Wrong
            THEN /\ pc' = "done"
                 /\ result' = [tier |-> "RejectedBaseline", kernel |-> baseline]
            ELSE IF kernels' = {} \/ (mode = "adaptive" /\ baseline \notin kernels')
            THEN Fail
            ELSE /\ pc' = (IF mode = "adaptive" THEN "screen" ELSE "warm")
                 /\ UNCHANGED result
  BY DEF Gate
<1>3. kernels' \subseteq kernels /\ kernels' \cap Wrong = {}
  BY <1>2
<1>4. CASE baseline \in answered \cap Wrong
  <2>1. pc' = "done" /\ result' = [tier |-> "RejectedBaseline", kernel |-> baseline]
    BY <1>2, <1>4
  <2>2. baseline \in Candidates /\ baseline \in Wrong
    BY <1>1, <1>4
  <2>3. result' \in Contract!Outcomes'
    BY <1>1, <2>1, <2>2, NoBaselineAssumption
    DEF Contract!Outcomes, Contract!Conclusions
  <2>4. TunerTypeOK' /\ CallerOK' /\ Concluded'
    BY <1>1, <1>3, <2>1, <2>3 DEF TunerInv, TunerTypeOK, Tiers, CallerOK, Concluded
  <2>5. PhaseOK' /\ CodesDiffer' /\ OnlyVerifiedTimed' /\ BaselineRemeasured'
    BY <2>1 DEF PhaseOK, CodesDiffer, OnlyVerifiedTimed, BaselineRemeasured
  <2>6. PromotionEarned' /\ NoGainDismissed' /\ WinnerSound'
    BY <2>1 DEF PromotionEarned, NoGainDismissed, WinnerSound
  <2> QED BY <2>4, <2>5, <2>6 DEF TunerInv
<1>5. CASE Fail
  BY <1>1, <1>3, <1>5, FailStep
<1>6. CASE /\ kernels' # {} /\ (mode = "adaptive" => baseline \in kernels')
           /\ pc' = (IF mode = "adaptive" THEN "screen" ELSE "warm")
           /\ UNCHANGED result
  <2>1. TunerTypeOK'
    BY <1>1, <1>3, <1>6 DEF TunerInv, TunerTypeOK
  <2>2. CodesDiffer'
    BY <1>1, <1>3 DEF TunerInv, CodesDiffer
  <2>3. OnlyVerifiedTimed'
    BY <1>1, <1>3, <1>6 DEF TunerInv, OnlyVerifiedTimed, CodesDiffer
  <2>4. PhaseOK' /\ BaselineRemeasured'
    BY <1>1, <1>6 DEF PhaseOK, BaselineRemeasured
  <2>5. pc' # "done" /\ pc # "done"
    BY <1>1, <1>6
  <2> QED BY <1>1, <1>6, <2>1, <2>2, <2>3, <2>4, <2>5, PhaseStep
<1> QED BY <1>2, <1>4, <1>5, <1>6

\* An adaptive attempt may keep a baseline that passed the gate.
LEMMA RetentionAllowed ==
    ASSUME baseline \in Candidates, baseline \notin Wrong
    PROVE  [tier |-> "RetainedBaseline", kernel |-> baseline] \in Contract!Outcomes
BY NoBaselineAssumption DEF Contract!Outcomes, Contract!Conclusions

LEMMA ScreenInv == ASSUME TunerInv, Screen PROVE TunerInv'
<1>1. /\ pc = "screen" /\ mode = "adaptive" /\ result = Pending /\ finalists = {}
      /\ UNCHANGED <<mode, baseline, kernels, finalists>>
      /\ timing' \in [kernels -> Timings]
  BY DEF TunerInv, PhaseOK, Screen
<1>2. /\ kernels # {} /\ kernels \cap Wrong = {} /\ baseline \in kernels
      /\ kernels \subseteq Candidates /\ CallerOK
      /\ \A c, d \in kernels : Code[c] = Code[d] => c = d
  BY <1>1 DEF TunerInv, TunerTypeOK, OnlyVerifiedTimed
<1>3. CASE Fail /\ UNCHANGED retried
  BY <1>1, <1>2, <1>3, FailStep
<1>4. CASE /\ ScreenRetains(timing') /\ pc' = "done" /\ UNCHANGED retried
           /\ result' = [tier |-> "RetainedBaseline", kernel |-> baseline]
  <2>1. result' \in Contract!Outcomes'
    BY <1>1, <1>2, <1>4, RetentionAllowed DEF Contract!Outcomes
  <2>2. NoGainDismissed'
    <3> SUFFICES ASSUME NEW c \in kernels \ {baseline}
                 PROVE  ~ClearlyFaster(timing'[baseline], timing'[c])
      BY <1>1 DEF NoGainDismissed
    <3>1. ~Beats(timing'[c].best, timing'[baseline].max)
      BY <1>4 DEF ScreenRetains, Challengers
    <3>2. timing'[c] \in Timings /\ timing'[baseline] \in Timings
      BY <1>1, <1>2
    <3> QED BY <3>1, <3>2, RetainedNotFaster
  <2>3. TunerTypeOK' /\ CallerOK' /\ Concluded'
    BY <1>1, <1>4, <2>1 DEF TunerInv, TunerTypeOK, Tiers, CallerOK, Concluded
  <2>4. PhaseOK' /\ CodesDiffer' /\ OnlyVerifiedTimed' /\ BaselineRemeasured'
    BY <1>4 DEF PhaseOK, CodesDiffer, OnlyVerifiedTimed, BaselineRemeasured
  <2>5. PromotionEarned' /\ WinnerSound'
    BY <1>4 DEF PromotionEarned, WinnerSound
  <2> QED BY <2>2, <2>3, <2>4, <2>5 DEF TunerInv
<1>5. CASE pc' \in {"screen", "warm"} /\ retried' \in BOOLEAN /\ UNCHANGED result
  <2>1. TunerTypeOK'
    BY <1>1, <1>5 DEF TunerInv, TunerTypeOK
  <2>2. PhaseOK' /\ CodesDiffer' /\ OnlyVerifiedTimed' /\ BaselineRemeasured'
    BY <1>1, <1>2, <1>5
    DEF PhaseOK, CodesDiffer, OnlyVerifiedTimed, BaselineRemeasured
  <2>3. pc # "done" /\ pc' # "done"
    BY <1>1, <1>5
  <2> QED BY <1>1, <1>5, <2>1, <2>2, <2>3, PhaseStep
<1>6. retried \in BOOLEAN
  BY DEF TunerInv, TunerTypeOK
<1> QED BY <1>1, <1>3, <1>4, <1>5, <1>6 DEF Screen

LEMMA WarmInv == ASSUME TunerInv, Warm PROVE TunerInv'
<1>1. /\ pc = "warm" /\ pc' = "final" /\ timing' \in [kernels -> Timings]
      /\ UNCHANGED <<mode, baseline, kernels, retried, result>>
      /\ finalists' \in FinalPass(timing')
  BY DEF Warm
<1>2. finalists' \subseteq kernels /\ (baseline \in kernels => baseline \in finalists')
  BY <1>1 DEF FinalPass
<1>3. TunerTypeOK'
  BY <1>1, <1>2 DEF TunerInv, TunerTypeOK
<1>4. PhaseOK' /\ CodesDiffer' /\ OnlyVerifiedTimed'
  BY <1>1 DEF TunerInv, PhaseOK, CodesDiffer, OnlyVerifiedTimed
<1>5. BaselineRemeasured'
  BY <1>1, <1>2 DEF TunerInv, BaselineRemeasured, OnlyVerifiedTimed
<1> QED BY <1>1, <1>3, <1>4, <1>5, PhaseStep

LEMMA FinalInv == ASSUME TunerInv, Final PROVE TunerInv'
<1>1. /\ pc = "final" /\ pc' = "decide"
      /\ UNCHANGED <<mode, baseline, kernels, retried, finalists, result>>
  BY DEF Final
<1>2. PICK t \in [finalists -> Timings] :
         timing' = [c \in kernels |-> IF c \in finalists THEN t[c] ELSE timing[c]]
  BY DEF Final
<1>3. timing' \in [kernels -> Timings]
  BY <1>1, <1>2 DEF TunerInv, TunerTypeOK
<1>4. TunerTypeOK'
  BY <1>1, <1>3 DEF TunerInv, TunerTypeOK
<1>5. PhaseOK' /\ CodesDiffer' /\ OnlyVerifiedTimed' /\ BaselineRemeasured'
  BY <1>1 DEF TunerInv, PhaseOK, CodesDiffer, OnlyVerifiedTimed, BaselineRemeasured
<1> QED BY <1>1, <1>4, <1>5, PhaseStep

\* select_winner: the choice is tied with the fastest kernel, and beats it by
\* structure where it is not as fast.
\* Times of which the later is not in a later nanosecond differ by less than one.
LEMMA SameNanosecond ==
    ASSUME NEW a \in Nat, NEW b \in Nat, a <= b, b \div Grain <= a \div Grain
    PROVE  b < a + Grain
<1>1. Grain \in Nat /\ Grain > 0
  BY GrainAssumption
<1> DEFINE p == a \div Grain
           q == b \div Grain
<1>2. p \in Int /\ Grain * p <= a
  BY <1>1
<1>3. q \in Int /\ b < Grain * q + Grain
  BY <1>1
<1>4. q <= p
  OBVIOUS
<1> HIDE DEF p, q
<1>5. Grain * q <= Grain * p
  BY <1>1, <1>2, <1>3, <1>4
<1> QED BY <1>1, <1>2, <1>3, <1>5

\* An earlier key has a first component in which it differs.
LEMMA KeyBeforeLemma ==
    ASSUME NEW k, NEW l,
           \/ k[1] < l[1]
           \/ k[1] = l[1] /\ k[2] < l[2]
           \/ k[1] = l[1] /\ k[2] = l[2] /\ k[3] < l[3]
           \/ k[1] = l[1] /\ k[2] = l[2] /\ k[3] = l[3] /\ k[4] < l[4]
           \/ k[1] = l[1] /\ k[2] = l[2] /\ k[3] = l[3] /\ k[4] = l[4] /\ k[5] < l[5]
    PROVE  KeyBefore(k, l)
<1>1. CASE k[1] < l[1]
  BY <1>1 DEF KeyBefore
<1>2. CASE k[1] = l[1] /\ k[2] < l[2]
  <2>1. \A j \in 1..(2 - 1) : j = 1
    OBVIOUS
  <2> QED BY <1>2, <2>1 DEF KeyBefore
<1>3. CASE k[1] = l[1] /\ k[2] = l[2] /\ k[3] < l[3]
  <2>1. \A j \in 1..(3 - 1) : j \in {1, 2}
    OBVIOUS
  <2> QED BY <1>3, <2>1 DEF KeyBefore
<1>4. CASE k[1] = l[1] /\ k[2] = l[2] /\ k[3] = l[3] /\ k[4] < l[4]
  <2>1. \A j \in 1..(4 - 1) : j \in {1, 2, 3}
    OBVIOUS
  <2> QED BY <1>4, <2>1 DEF KeyBefore
<1>5. CASE k[1] = l[1] /\ k[2] = l[2] /\ k[3] = l[3] /\ k[4] = l[4] /\ k[5] < l[5]
  <2>1. \A j \in 1..(5 - 1) : j \in {1, 2, 3, 4}
    OBVIOUS
  <2> QED BY <1>5, <2>1 DEF KeyBefore
<1> QED BY <1>1, <1>2, <1>3, <1>4, <1>5

LEMMA WinnerLemma ==
    ASSUME timing \in [kernels -> Timings], kernels \subseteq Candidates,
           NEW w \in Winners
    PROVE  \E c \in Fastest :
              /\ TiedWith(timing[w], timing[c])
              /\ timing[w].best = timing[c].best \/ ByStructure(w, c)
<1>1. PICK first \in Fastest :
         LET tied == {c \in kernels : TiedWith(timing[c], timing[first])} IN
         w \in tied /\ \A c \in tied : ~Precedes(c, w)
  BY DEF Winners
<1>2. first \in kernels /\ w \in kernels /\ TiedWith(timing[w], timing[first])
  BY <1>1 DEF Fastest
<1>3. ~Precedes(first, w)
  BY <1>1, <1>2, TiedWithItself
<1> DEFINE k == WinnerKey(first)
           l == WinnerKey(w)
<1>4. /\ timing[first].best \in Nat /\ timing[w].best \in Nat
      /\ timing[first].best <= timing[w].best
  BY <1>2, TimingsAssumption DEF Fastest
<1>5. \A c \in {first, w} : /\ Distance(c) \in Int /\ Depth[c] \in Nat
                           /\ Rows[c] \in Nat /\ Columns[c] \in Nat
  BY <1>2, StructureAssumption DEF Distance, Abs
<1>6. Nanoseconds(first) \in Int /\ Nanoseconds(w) \in Int
  BY <1>4, GrainAssumption DEF Nanoseconds
<1>7. /\ k[1] = Distance(first) /\ k[2] = -Depth[first] /\ k[3] = Nanoseconds(first)
      /\ k[4] = -Rows[first] /\ k[5] = -Columns[first]
      /\ l[1] = Distance(w) /\ l[2] = -Depth[w] /\ l[3] = Nanoseconds(w)
      /\ l[4] = -Rows[w] /\ l[5] = -Columns[w]
  BY DEF WinnerKey
<1>8. ~KeyBefore(k, l)
  BY <1>3 DEF Precedes
<1>9. ASSUME Distance(w) = Distance(first), Depth[w] = Depth[first],
             timing[w].best # timing[first].best
      PROVE  ByStructure(w, first)
  <2>1. Nanoseconds(w) <= Nanoseconds(first)
    <3> HIDE DEF k, l
    <3> QED BY <1>6, <1>7, <1>8, <1>9, KeyBeforeLemma
  <2>2. timing[w].best < timing[first].best + Grain
    BY <1>4, <2>1, SameNanosecond DEF Nanoseconds
  <2>3. Nanoseconds(first) <= Nanoseconds(w)
    BY <1>4, GrainAssumption DEF Nanoseconds
  <2>4. k # l
    BY <1>3, <1>4, <1>9 DEF Precedes
  <2>5. Nanoseconds(w) = Nanoseconds(first)
    BY <1>6, <2>1, <2>3
  <2>6. Rows[w] # Rows[first] \/ Columns[w] # Columns[first]
    BY <1>9, <2>4, <2>5 DEF WinnerKey
  <2>7. Rows[w] > Rows[first] \/ (Rows[w] = Rows[first] /\ Columns[w] >= Columns[first])
    <3> HIDE DEF k, l
    <3> QED BY <1>5, <1>7, <1>8, <1>9, <2>5, KeyBeforeLemma
  <2> QED BY <1>5, <2>2, <2>6, <2>7 DEF ByStructure
<1>10. \/ timing[w].best = timing[first].best
       \/ ByStructure(w, first)
  <2>1. \/ Distance(w) < Distance(first)
        \/ Distance(w) = Distance(first) /\ Depth[w] > Depth[first]
        \/ Distance(w) = Distance(first) /\ Depth[w] = Depth[first]
    <3> HIDE DEF k, l
    <3> QED BY <1>5, <1>7, <1>8, KeyBeforeLemma
  <2> QED BY <1>9, <2>1 DEF ByStructure
<1> QED BY <1>1, <1>2, <1>10

LEMMA TakeWinnerInv == ASSUME TunerInv, TakeWinner PROVE TunerInv'
<1>1. /\ pc = "decide" /\ mode = "full" /\ pc' = "done" /\ baseline = NoBaseline
      /\ UNCHANGED <<mode, baseline, kernels, timing, retried, finalists>>
      /\ timing \in [kernels -> Timings] /\ kernels \subseteq Candidates
      /\ kernels \cap Wrong = {}
  BY DEF TakeWinner, TunerInv, TunerTypeOK, OnlyVerifiedTimed, CallerOK
<1>2. PICK w \in Winners : result' = [tier |-> "Tuned", kernel |-> w]
  BY DEF TakeWinner
<1>3. w \in Candidates \ Wrong
  BY <1>1 DEF Winners
<1>4. result' \in Contract!Outcomes'
  BY <1>1, <1>2, <1>3 DEF Contract!Outcomes
<1>5. TunerTypeOK' /\ CallerOK' /\ Concluded'
  BY <1>1, <1>2, <1>4 DEF TunerInv, TunerTypeOK, Tiers, CallerOK, Concluded
<1>6. WinnerSound'
  <2>1. result'.kernel = w /\ result'.tier = "Tuned"
    BY <1>2
  <2>2. \E c \in Fastest :
           /\ TiedWith(timing[w], timing[c])
           /\ timing[w].best = timing[c].best \/ ByStructure(w, c)
    BY <1>1, WinnerLemma
  <2>3. Fastest' = Fastest
    BY <1>1 DEF Fastest
  <2> QED BY <1>1, <1>3, <2>1, <2>2, <2>3 DEF WinnerSound, ByStructure, Distance
<1>7. PhaseOK' /\ CodesDiffer' /\ OnlyVerifiedTimed' /\ BaselineRemeasured'
  BY <1>1 DEF PhaseOK, CodesDiffer, OnlyVerifiedTimed, BaselineRemeasured
<1>8. PromotionEarned' /\ NoGainDismissed'
  BY <1>1, <1>2 DEF PromotionEarned, NoGainDismissed
<1> QED BY <1>5, <1>6, <1>7, <1>8 DEF TunerInv

LEMMA DecideInv == ASSUME TunerInv, Decide PROVE TunerInv'
<1>1. /\ pc = "decide" /\ mode = "adaptive" /\ pc' = "done"
      /\ UNCHANGED <<mode, baseline, kernels, timing, retried, finalists>>
      /\ timing \in [kernels -> Timings] /\ kernels \subseteq Candidates
      /\ kernels \cap Wrong = {} /\ baseline \in finalists /\ finalists \subseteq kernels
  BY DEF Decide, TunerInv, TunerTypeOK, OnlyVerifiedTimed, BaselineRemeasured
<1>2. CASE result' = [tier |-> "TuningFailed", kernel |-> baseline]
  BY <1>1, <1>2, FailStep DEF Fail
<1>3. CASE /\ Promotable = {}
           /\ result' = [tier |-> "RetainedBaseline", kernel |-> baseline]
  <2>1. result' \in Contract!Outcomes'
    BY <1>1, <1>3, RetentionAllowed DEF Contract!Outcomes
  <2>2. TunerTypeOK' /\ CallerOK' /\ Concluded'
    BY <1>1, <1>3, <2>1 DEF TunerInv, TunerTypeOK, Tiers, CallerOK, Concluded
  <2>3. PhaseOK' /\ CodesDiffer' /\ OnlyVerifiedTimed' /\ BaselineRemeasured'
    BY <1>1 DEF PhaseOK, CodesDiffer, OnlyVerifiedTimed, BaselineRemeasured
  <2>4. PromotionEarned' /\ NoGainDismissed' /\ WinnerSound'
    <3>1. Promotable = {}
      BY <1>3
    <3> QED BY <1>1, <1>3, <3>1
            DEF Promotable, PromotionEarned, NoGainDismissed, WinnerSound
  <2> QED BY <2>2, <2>3, <2>4 DEF TunerInv
<1>4. ASSUME NEW w \in Promotable, result' = [tier |-> "Tuned", kernel |-> w]
      PROVE  TunerInv'
  <2>1. w \in finalists /\ ClearlyFaster(timing[baseline], timing[w])
    BY <1>4 DEF Promotable
  <2>2. timing[w] \in Timings /\ timing[baseline] \in Timings
    BY <1>1, <2>1
  <2>3. /\ 10000 * (timing[baseline].best - timing[w].best) >
              timing[baseline].best * MinImprovement
        /\ 10000 * (timing[baseline].best - timing[w].best) >
              10000 * (timing[baseline].median - timing[baseline].best)
        /\ 10000 * (timing[baseline].best - timing[w].best) >
              10000 * (timing[w].median - timing[w].best)
        /\ timing[w].best > 0 /\ timing[w] # timing[baseline]
    BY <2>1, <2>2, FasterLemma
  <2>4. w # baseline /\ w \in Candidates \ Wrong /\ baseline \in Candidates \ Wrong
    BY <1>1, <2>1, <2>3
  <2>5. result' \in Contract!Outcomes'
    BY <1>1, <1>4, <2>4, NoBaselineAssumption
    DEF Contract!Outcomes, Contract!Conclusions
  <2>6. TunerTypeOK' /\ CallerOK' /\ Concluded'
    BY <1>1, <1>4, <2>5 DEF TunerInv, TunerTypeOK, Tiers, CallerOK, Concluded
  <2>7. PromotionEarned'
    BY <1>1, <1>4, <2>1, <2>3, <2>4 DEF PromotionEarned
  <2>8. PhaseOK' /\ CodesDiffer' /\ OnlyVerifiedTimed' /\ BaselineRemeasured'
    BY <1>1 DEF PhaseOK, CodesDiffer, OnlyVerifiedTimed, BaselineRemeasured
  <2>9. NoGainDismissed' /\ WinnerSound'
    BY <1>1, <1>4 DEF NoGainDismissed, WinnerSound
  <2> QED BY <2>6, <2>7, <2>8, <2>9 DEF TunerInv
<1> QED BY <1>2, <1>3, <1>4 DEF Decide

LEMMA TunerNextInv == TunerInv /\ [TunerNext]_tunerVars => TunerInv'
<1> SUFFICES ASSUME TunerInv, [TunerNext]_tunerVars PROVE TunerInv'
  OBVIOUS
<1>1. CASE CudaError
  BY <1>1, FailStep DEF CudaError, TunerInv, TunerTypeOK
<1>2. CASE UNCHANGED tunerVars
  <2>1. TunerTypeOK' /\ CallerOK' /\ PhaseOK' /\ CodesDiffer'
    BY <1>2 DEF tunerVars, TunerInv, TunerTypeOK, CallerOK, PhaseOK, CodesDiffer
  <2>2. Concluded'
    BY <1>2 DEF tunerVars, TunerInv, Concluded, Contract!Outcomes
  <2>3. OnlyVerifiedTimed' /\ BaselineRemeasured'
    BY <1>2 DEF tunerVars, TunerInv, OnlyVerifiedTimed, BaselineRemeasured
  <2>4. PromotionEarned' /\ NoGainDismissed'
    BY <1>2 DEF tunerVars, TunerInv, PromotionEarned, NoGainDismissed
  <2>5. WinnerSound'
    BY <1>2 DEF tunerVars, TunerInv, WinnerSound, Fastest, ByStructure
  <2> QED BY <2>1, <2>2, <2>3, <2>4, <2>5 DEF TunerInv
<1> QED
  BY <1>1, <1>2, CollectInv, CompileInv, GateInv, ScreenInv, WarmInv, FinalInv,
     TakeWinnerInv, DecideInv
  DEF TunerNext

LEMMA TunerInvariance == TunerSpec => []TunerInv
BY TunerInitInv, TunerNextInv, PTL DEF TunerSpec

----------------------------------------------------------------------------
(* The results *)

\* The state of a tuning attempt stays well formed through every phase.
THEOREM TunerTypes == TunerSpec => []TunerTypeOK
<1>1. TunerInv => TunerTypeOK
  BY DEF TunerInv
<1> QED BY <1>1, TunerInvariance, PTL

\* Only kernels that passed the numerical gate are timed, and the adaptive
\* caller's baseline is among them and among the finalists.
THEOREM GateHolds == TunerSpec => [](OnlyVerifiedTimed /\ BaselineRemeasured)
<1>1. TunerInv => OnlyVerifiedTimed /\ BaselineRemeasured
  BY DEF TunerInv
<1> QED BY <1>1, TunerInvariance, PTL

\* tune replaces a kernel only by a finalist that beat it beyond the margin and
\* the dispersion of both in the same pass, whatever times come back.
THEOREM PromotionsEarned == TunerSpec => []PromotionEarned
<1>1. TunerInv => PromotionEarned
  BY DEF TunerInv
<1> QED BY <1>1, TunerInvariance, PTL

\* Neither a short screen, the first or the second, nor the final pass keeps a
\* baseline against a kernel that promotion_candidate would take on those times.
THEOREM NoGainsDismissed == TunerSpec => []NoGainDismissed
<1>1. TunerInv => NoGainDismissed
  BY DEF TunerInv
<1> QED BY <1>1, TunerInvariance, PTL

\* A challenger beyond the margin in the first short screen, on its best round
\* against the baseline's best, is always given the full validation.
THEOREM ClearGainsValidated == TunerSpec => ClearGainValidated
<1> DEFINE Validated ==
       pc = "screen" /\ timing' # timing /\ ~retried
       /\ (\A c \in kernels : Valid(timing'[c]))
       /\ (\E c \in kernels \ {baseline} :
             10000 * timing'[c].best <
                timing'[baseline].best * (10000 - MinImprovement))
       => pc' = "warm"
<1>1. TunerInv /\ [TunerNext]_tunerVars => Validated
  <2> SUFFICES ASSUME TunerInv, [TunerNext]_tunerVars, pc = "screen", timing' # timing,
                      \A k \in kernels : Valid(timing'[k]), NEW c \in kernels \ {baseline},
                      10000 * timing'[c].best <
                         timing'[baseline].best * (10000 - MinImprovement)
               PROVE  pc' = "warm"
    OBVIOUS
  <2>1. Screen
    BY DEF TunerNext, Collect, Compile, Gate, Warm, Final, TakeWinner, Decide, CudaError, tunerVars
  <2>2. baseline \in kernels /\ timing' \in [kernels -> Timings]
    BY <2>1 DEF TunerInv, PhaseOK, OnlyVerifiedTimed, Screen
  <2>3. /\ timing'[c].best \in Nat /\ timing'[baseline].best \in Nat
        /\ timing'[baseline].max \in Nat
        /\ timing'[baseline].best <= timing'[baseline].max
    <3>1. timing'[baseline] \in Timings /\ timing'[c] \in Timings /\ Valid(timing'[baseline])
      BY <2>2
    <3> QED BY <3>1, TimingsAssumption DEF Valid
  <2>4. Beats(timing'[c].best, timing'[baseline].best)
    BY DEF Beats
  <2>5. Beats(timing'[c].best, timing'[baseline].max)
    <3> DEFINE m == 10000 - MinImprovement
    <3>1. m \in Nat
      <4>1. MinImprovement \in 0 .. 9999
        BY MarginAssumption
      <4>2. \A i \in 0 .. 9999 : 10000 - i \in Nat
        OBVIOUS
      <4> QED BY <4>1, <4>2
    <3> HIDE DEF m
    <3>2. timing'[baseline].best * m <= timing'[baseline].max * m
      BY <2>3, <3>1
    <3>3. timing'[baseline].best * m \in Nat /\ timing'[baseline].max * m \in Nat
      BY <2>3, <3>1
    <3>4. 10000 * timing'[c].best < timing'[baseline].best * m
      BY DEF m
    <3>5. 10000 * timing'[c].best < timing'[baseline].max * m
      BY <2>3, <3>2, <3>3, <3>4
    <3> QED BY <3>5 DEF Beats, m
  <2>6. ~ScreenRetains(timing') /\ ~ScreenNeedsRetry(timing')
    BY <2>4, <2>5 DEF ScreenRetains, ScreenNeedsRetry, Challengers
  <2> QED BY <2>1, <2>6 DEF Screen
<1>2. TunerInv /\ [TunerNext]_tunerVars => [Validated]_tunerVars
  BY <1>1
<1>3. []TunerInv /\ [][TunerNext]_tunerVars => [][Validated]_tunerVars
  BY <1>2, PTL
<1> QED BY <1>3, TunerInvariance DEF TunerSpec, ClearGainValidated

\* The full autotuner's choice passed the gate and is tied with the fastest.
THEOREM WinnersSound == TunerSpec => []WinnerSound
<1>1. TunerInv => WinnerSound
  BY DEF TunerInv
<1> QED BY <1>1, TunerInvariance, PTL

\* The attempt implements the safety part of the contract AdaptiveGemm assumes:
\* one conclusion, drawn once, and one of those the contract lists.
THEOREM RefinesContract ==
    TunerSpec => Contract!Init /\ [][Contract!Conclude]_<<baseline, result>>
<1>1. TunerInit => Contract!Init
  BY ModesAssumption DEF TunerInit, Contract!Init
<1>2. TunerInv /\ TunerInv' /\ [TunerNext]_tunerVars => [Contract!Conclude]_<<baseline, result>>
  <2> SUFFICES ASSUME TunerInv, TunerInv', [TunerNext]_tunerVars, result' # result
               PROVE  Contract!Conclude
    <3>1. TunerNext \/ UNCHANGED tunerVars => UNCHANGED baseline
      BY DEF TunerNext, Collect, Compile, Gate, Screen, Warm, Final, TakeWinner, Decide,
             CudaError, tunerVars
    <3> QED BY <3>1
  <2>1. pc # "done" /\ UNCHANGED baseline
    BY DEF TunerNext, Collect, Compile, Gate, Screen, Warm, Final, TakeWinner, Decide,
           CudaError, tunerVars
  <2>2. result = Pending
    BY <2>1 DEF TunerInv, PhaseOK
  <2>3. pc' = "done"
    BY <2>2 DEF TunerInv, PhaseOK
  <2>4. result' \in Contract!Outcomes
    BY <2>1, <2>3 DEF TunerInv, Concluded, Contract!Outcomes
  <2> QED BY <2>1, <2>2, <2>4 DEF Contract!Conclude
<1> QED BY <1>1, <1>2, TunerInvariance, PTL DEF TunerSpec

-----------------------------------------------------------------------------
(***************************************************************************)
(* Proofs about DecisionCache, for any keys, threads, processes, faults    *)
(* and bounds.  A temporary exists as long as a store owns it, so   *)
(* create_new never hands it to another; it is whole and synced before it  *)
(* is renamed; so every record, and every one that a power loss can bring  *)
(* back, is whole and is its key's.  The cap holds at rest because the     *)
(* store that listed last has every record above the cap in its hands.     *)
(***************************************************************************)

MaybeFiles == Files \cup {NoFile}
Owning == {"write", "sync", "rename", "cleanup"}
Steps == {"idle", "create", "list", "stat", "remove"} \cup Owning

WriterStates ==
    [pc : Steps, key : Keys \cup {0}, serial : Nat, names : SUBSET Keys,
     found : SUBSET ((0 .. MaxTime) \X Keys)]

Types ==
    /\ setting \in Settings
    /\ records \in [Keys -> MaybeFiles]
    /\ earlier \in [Keys -> SUBSET MaybeFiles]
    /\ temps \in [TempNames -> MaybeFiles]
    /\ serial \in [Processes -> Nat]
    /\ now \in 0 .. MaxTime
    /\ writer \in [Writers -> WriterStates]

\* A store has a key, and from create_new to rename or removal a temporary, which
\* is whole after the write and synced after the sync.
WriterOwns(w) ==
    /\ writer[w].pc # "idle" => writer[w].key \in Keys
    /\ writer[w].pc \in Owning =>
          TempOf(w) \in TempNames /\ temps[TempOf(w)] # NoFile
    /\ writer[w].pc \in {"write", "sync", "rename"} =>
          /\ temps[TempOf(w)].key = writer[w].key
          /\ temps[TempOf(w)].content = IF writer[w].pc = "write" THEN "partial" ELSE "whole"
    /\ writer[w].pc = "rename" => temps[TempOf(w)].synced

\* No two stores own one temporary.
OwnersApart ==
    \A v, w \in Writers :
        v # w /\ writer[v].pc \in Owning /\ writer[w].pc \in Owning => TempOf(v) # TempOf(w)

\* A record of k that can be published and can come back.
Good(f, k) == f = NoFile \/ (f.content = "whole" /\ f.key = k /\ f.synced)
RecordsGood ==
    \A k \in Keys : Good(records[k], k) /\ \A f \in earlier[k] : Good(f, k)

Inv ==
    /\ Types
    /\ \A w \in Writers : WriterOwns(w)
    /\ OwnersApart
    /\ RecordsGood

LEMMA FilesLemma == NoFile \notin Files /\ \A f \in MaybeFiles : f # NoFile => f \in Files
BY DEF NoFile, Files, MaybeFiles

LEMMA ProcessLemma ==
    ASSUME setting \in Settings, NEW w \in Writers PROVE ProcessOf(w) \in Processes
BY DEF ProcessOf, Processes

LEMMA InitInv == Init => Inv
<1> SUFFICES ASSUME Init PROVE Inv
  OBVIOUS
<1>1. IdleWriter \in WriterStates
  BY DEF IdleWriter, WriterStates, Steps, Owning
<1>2. Types
  BY <1>1, BoundAssumption DEF Init, Types, MaybeFiles
<1>3. \A w \in Writers : writer[w].pc = "idle"
  BY DEF Init, IdleWriter
<1>4. RecordsGood
  BY DEF Init, RecordsGood, Good
<1> QED BY <1>2, <1>3, <1>4 DEF Inv, WriterOwns, OwnersApart, Owning

\* A step of one store that owns nothing before or after, or goes on with its own.
LEMMA OwnTempStep ==
    ASSUME Inv, NEW w \in Writers, NEW s \in WriterStates, writer' = [writer EXCEPT ![w] = s],
           UNCHANGED <<setting, now>>,
           records' \in [Keys -> MaybeFiles], earlier' \in [Keys -> SUBSET MaybeFiles], RecordsGood',
           serial' \in [Processes -> Nat], temps' \in [TempNames -> MaybeFiles],
           \A n \in TempNames : temps'[n] # temps[n] =>
               temps[n] = NoFile \/ (writer[w].pc \in Owning /\ n = TempOf(w)),
           WriterOwns(w)',
           s.pc \in Owning => \/ writer[w].pc \in Owning /\ TempOf(w)' = TempOf(w)
                              \/ temps[TempOf(w)'] = NoFile
    PROVE  Inv'
<1> USE DEF Inv, Types
<1>1. Types'
  OBVIOUS
<1>2. ASSUME NEW v \in Writers \ {w}
      PROVE  /\ WriterOwns(v)'
             /\ writer[v].pc \in Owning /\ s.pc \in Owning => TempOf(v)' # TempOf(w)'
  <2>1. writer'[v] = writer[v] /\ TempOf(v)' = TempOf(v)
    BY DEF TempOf, ProcessOf
  <2>2. WriterOwns(v)
    OBVIOUS
  <2>3. writer[v].pc \in Owning => temps'[TempOf(v)] = temps[TempOf(v)]
    BY <2>2 DEF WriterOwns, OwnersApart
  <2>4. WriterOwns(v)'
    BY <2>1, <2>2, <2>3 DEF WriterOwns, Owning
  <2>5. writer[v].pc \in Owning /\ s.pc \in Owning => TempOf(v) # TempOf(w)'
    BY <2>2 DEF WriterOwns, OwnersApart
  <2> QED BY <2>1, <2>4, <2>5
<1>3. writer'[w] = s /\ \A v \in Writers \ {w} : writer'[v] = writer[v]
  OBVIOUS
<1>4. OwnersApart'
  <2> SUFFICES ASSUME NEW u \in Writers, NEW v \in Writers, u # v,
                      writer'[u].pc \in Owning, writer'[v].pc \in Owning
               PROVE  TempOf(u)' # TempOf(v)'
    BY DEF OwnersApart
  <2>1. CASE u = w
    BY <1>2, <1>3, <2>1
  <2>2. CASE v = w
    BY <1>2, <1>3, <2>2
  <2>3. CASE u # w /\ v # w
    BY <1>3, <2>3 DEF OwnersApart, TempOf, ProcessOf
  <2> QED BY <2>1, <2>2, <2>3
<1> QED BY <1>1, <1>2, <1>4

\* A step of a store outside of its temporary: it has none, or keeps it as it is.
LEMMA PlainStep ==
    ASSUME Inv, NEW w \in Writers, NEW s \in WriterStates, writer' = [writer EXCEPT ![w] = s],
           UNCHANGED <<setting, now, temps>>, serial' \in [Processes -> Nat],
           records' \in [Keys -> MaybeFiles], earlier' \in [Keys -> SUBSET MaybeFiles], RecordsGood',
           s.pc # "idle" => s.key \in Keys,
           s.pc \in Owning => /\ s.pc = "cleanup" /\ writer[w].pc \in Owning
                              /\ s.key = writer[w].key /\ s.serial = writer[w].serial
    PROVE  Inv'
<1> USE DEF Inv, Types
<1>1. writer'[w] = s
  OBVIOUS
<1>2. s.pc \in Owning => TempOf(w)' = TempOf(w)
  BY <1>1 DEF TempOf, ProcessOf
<1>3. WriterOwns(w)'
  BY <1>1, <1>2 DEF WriterOwns, Owning
<1> QED BY <1>2, <1>3, OwnTempStep

\* Steps of a store in which neither files nor temporaries change.
LEMMA QuietInv ==
    ASSUME Inv, NEW w \in Writers,
           \/ \E k \in Keys : Store(w, k)
           \/ WriteFails(w) \/ List(w) \/ Stat(w) \/ Plan(w) \/ EvictFails(w)
    PROVE  Inv'
<1> USE DEF Inv, Types
<1>1. /\ UNCHANGED <<setting, records, earlier, temps, serial, now>>
      /\ RecordsGood'
  BY DEF Store, WriteFails, List, Stat, Plan, EvictFails, RecordsGood
<1>2. writer[w] \in WriterStates /\ WriterOwns(w)
  OBVIOUS
<1>3. ASSUME NEW k \in Keys, Store(w, k) PROVE Inv'
  <2> DEFINE s == [writer[w] EXCEPT !.pc = "create", !.key = k]
  <2>1. writer' = [writer EXCEPT ![w] = s] /\ s \in WriterStates /\ s.pc = "create" /\ s.key = k
    BY <1>2, <1>3 DEF Store, WriterStates, Steps
  <2> HIDE DEF s
  <2> QED BY <1>1, <2>1, PlainStep DEF Owning
<1>4. ASSUME NEW step \in {"cleanup", "stat", "remove"}, writer[w].pc # "idle",
             NEW names \in SUBSET Keys, NEW found \in SUBSET ((0 .. MaxTime) \X Keys),
             writer' = [writer EXCEPT ![w] = [writer[w] EXCEPT !.pc = step, !.names = names, !.found = found]],
             step = "cleanup" => writer[w].pc \in Owning
      PROVE  Inv'
  <2> DEFINE s == [writer[w] EXCEPT !.pc = step, !.names = names, !.found = found]
  <2>1. /\ s \in WriterStates /\ s.pc = step /\ s.key = writer[w].key
        /\ s.serial = writer[w].serial
    BY <1>2 DEF WriterStates, Steps, Owning
  <2>2. writer' = [writer EXCEPT ![w] = s] /\ (s.pc \in Owning => s.pc = "cleanup")
    BY <1>4, <2>1 DEF Owning
  <2>3. writer[w].key \in Keys
    BY <1>2, <1>4 DEF WriterOwns
  <2> HIDE DEF s
  <2> QED BY <1>1, <1>4, <2>1, <2>2, <2>3, PlainStep
<1>5. CASE Return(w)
  <2>1. IdleWriter \in WriterStates /\ IdleWriter.pc = "idle"
    BY DEF IdleWriter, WriterStates, Steps
  <2> QED BY <1>1, <1>5, <2>1, PlainStep DEF Return, Owning
<1>6. CASE WriteFails(w)
  <2>1. writer' = [writer EXCEPT ![w] = [writer[w] EXCEPT !.pc = "cleanup", !.names = writer[w].names,
                                                         !.found = writer[w].found]]
    BY <1>2, <1>6 DEF WriteFails, Goto, WriterStates
  <2>2. writer[w].pc \in Owning
    BY <1>6 DEF WriteFails, Owning
  <2>3. writer[w].pc # "idle" /\ writer[w].names \in SUBSET Keys
        /\ writer[w].found \in SUBSET ((0 .. MaxTime) \X Keys)
    BY <1>2, <2>2 DEF WriterStates, Owning
  <2> QED BY <1>4, <2>1, <2>2, <2>3
<1>7. CASE List(w)
  <2>1. writer' = [writer EXCEPT ![w] = [writer[w] EXCEPT !.pc = "stat", !.names = Present,
                                                         !.found = writer[w].found]]
    BY <1>2, <1>7 DEF List, WriterStates
  <2>2. Present \in SUBSET Keys /\ writer[w].found \in SUBSET ((0 .. MaxTime) \X Keys)
        /\ writer[w].pc # "idle"
    BY <1>2, <1>7 DEF List, Present, WriterStates
  <2> QED BY <1>4, <2>1, <2>2
<1>8. CASE Stat(w)
  <2>1. PICK k \in writer[w].names :
           writer' = [writer EXCEPT
             ![w].names = @ \ {k},
             ![w].found = IF k \in Present THEN @ \cup {<<records[k].time, k>>} ELSE @]
    BY <1>8 DEF Stat
  <2> DEFINE found == IF k \in Present THEN writer[w].found \cup {<<records[k].time, k>>}
                      ELSE writer[w].found
  <2>2. writer[w].pc = "stat"
    BY <1>8 DEF Stat
  <2>3. writer[w].names \in SUBSET Keys /\ writer[w].found \in SUBSET ((0 .. MaxTime) \X Keys)
    BY <1>2 DEF WriterStates
  <2>4. found \in SUBSET ((0 .. MaxTime) \X Keys)
    <3>1. k \in Present => records[k] \in Files
      BY FilesLemma DEF Present
    <3>2. k \in Present => records[k].time \in 0 .. MaxTime
      BY <3>1 DEF Files
    <3>3. k \in Keys
      BY <2>3
    <3> QED BY <2>3, <3>2, <3>3
  <2>5. writer' = [writer EXCEPT ![w] = [writer[w] EXCEPT !.pc = "stat",
                       !.names = writer[w].names \ {k}, !.found = found]]
    BY <1>2, <2>1, <2>2 DEF WriterStates
  <2> HIDE DEF found
  <2> QED BY <1>4, <2>2, <2>3, <2>4, <2>5
<1>9. CASE Plan(w) /\ ~Return(w)
  <2>1. /\ writer' = [writer EXCEPT ![w].pc = "remove", ![w].found = Excess(@)]
        /\ writer[w].pc = "stat"
    BY <1>9 DEF Plan
  <2>2. writer[w].names \in SUBSET Keys /\ writer[w].found \in SUBSET ((0 .. MaxTime) \X Keys)
    BY <1>2 DEF WriterStates
  <2> DEFINE excess == Excess(writer[w].found)
  <2>3. excess \in SUBSET ((0 .. MaxTime) \X Keys)
    BY <2>2 DEF Excess
  <2>4. writer' = [writer EXCEPT ![w] = [writer[w] EXCEPT !.pc = "remove",
                       !.names = writer[w].names, !.found = excess]]
    BY <1>2, <2>1 DEF WriterStates
  <2> HIDE DEF excess
  <2> QED BY <1>4, <2>1, <2>2, <2>3, <2>4
<1> QED BY <1>3, <1>5, <1>6, <1>7, <1>8, <1>9 DEF EvictFails

\* create_new, past a stale name or to a file of its own.
LEMMA CreateInv == ASSUME Inv, NEW w \in Writers, CreateTemp(w) PROVE Inv'
<1> USE DEF Inv, Types
<1> DEFINE p == ProcessOf(w)
           name == <<p, serial[p], writer[w].key>>
           s == [writer[w] EXCEPT !.pc = "write", !.serial = serial[p]]
<1>1. /\ writer[w] \in WriterStates /\ WriterOwns(w) /\ p \in Processes
      /\ writer[w].pc = "create" /\ writer[w].key \in Keys /\ serial[p] \in 0 .. MaxSerial
  BY ProcessLemma, BoundAssumption DEF CreateTemp, WriterOwns
<1>2. /\ UNCHANGED <<setting, records, earlier, now>>
      /\ serial' = [serial EXCEPT ![p] = serial[p] + 1]
      /\ serial' \in [Processes -> Nat]
      /\ RecordsGood'
  BY <1>1 DEF CreateTemp, FetchAdd, RecordsGood
<1>3. CASE UNCHANGED <<temps, writer>>
  <2>1. writer' = [writer EXCEPT ![w] = writer[w]]
    BY <1>3
  <2> QED BY <1>1, <1>2, <1>3, <2>1, PlainStep DEF Owning
<1>4. CASE ~UNCHANGED <<temps, writer>>
  <2>1. /\ temps[name] = NoFile /\ name \in TempNames
        /\ temps' = [temps EXCEPT ![name] = NewFile(writer[w].key)]
        /\ writer' = [writer EXCEPT ![w].pc = "write", ![w].serial = serial[p]]
    BY <1>1, <1>4 DEF CreateTemp, AlreadyExists, TempNames
  <2>2. /\ writer' = [writer EXCEPT ![w] = s] /\ s \in WriterStates
        /\ s.pc = "write" /\ s.serial = serial[p] /\ s.key = writer[w].key
    BY <1>1, <2>1 DEF WriterStates, Steps, Owning
  <2>3. writer'[w] = s
    BY <2>2
  <2>4. TempOf(w)' = name
    BY <1>2, <2>2, <2>3 DEF TempOf, ProcessOf
  <2>5. /\ NewFile(writer[w].key) \in Files
        /\ NewFile(writer[w].key).key = writer[w].key
        /\ NewFile(writer[w].key).content = "partial"
    BY <1>1 DEF NewFile, Files
  <2>6. temps' \in [TempNames -> MaybeFiles] /\ temps'[name] = NewFile(writer[w].key)
    BY <2>1, <2>5 DEF MaybeFiles
  <2> HIDE DEF s, name, p
  <2>7. WriterOwns(w)'
    BY <1>1, <2>1, <2>2, <2>3, <2>4, <2>5, <2>6, FilesLemma DEF WriterOwns, Owning
  <2> QED BY <1>2, <2>1, <2>2, <2>4, <2>6, <2>7, OwnTempStep
<1> QED BY <1>3, <1>4
\* A store works on its own temporary: writes it, syncs it, renames or removes it.
LEMMA TempInv ==
    ASSUME Inv, NEW w \in Writers, Write(w) \/ Sync(w) \/ Rename(w) \/ Cleanup(w) PROVE Inv'
<1> USE DEF Inv, Types
<1> DEFINE name == TempOf(w)
<1>1. /\ writer[w] \in WriterStates /\ WriterOwns(w)
      /\ writer[w].pc \in Owning /\ writer[w].key \in Keys
  BY DEF Write, Sync, Rename, Cleanup, Owning, WriterOwns
<1>2. name \in TempNames /\ temps[name] \in Files
  BY <1>1, FilesLemma DEF WriterOwns
<1>3. UNCHANGED <<setting, now>> /\ serial' \in [Processes -> Nat]
  BY DEF Write, Sync, Rename, Cleanup
<1>4. ASSUME NEW s \in WriterStates, writer' = [writer EXCEPT ![w] = s],
             s.key = writer[w].key, s.serial = writer[w].serial,
             NEW file \in MaybeFiles, temps' = [temps EXCEPT ![name] = file],
             records' \in [Keys -> MaybeFiles], earlier' \in [Keys -> SUBSET MaybeFiles], RecordsGood',
             s.pc \in Owning => /\ s.pc \in {"sync", "rename"} /\ file # NoFile
                                /\ file.key = writer[w].key /\ file.content = "whole"
                                /\ s.pc = "rename" => file.synced
      PROVE  Inv'
  <2>1. writer'[w] = s /\ TempOf(w)' = name /\ temps'[name] = file
    BY <1>2, <1>3, <1>4 DEF TempOf, ProcessOf
  <2>3. temps' \in [TempNames -> MaybeFiles]
    BY <1>2, <1>4
  <2> HIDE DEF name
  <2>2. WriterOwns(w)'
    <3>1. (TempOf(w) \in TempNames /\ temps[TempOf(w)] # NoFile)' \/ s.pc \notin Owning
      BY <1>2, <1>4, <2>1
    <3>2. s.pc \in {"write", "sync", "rename"} => s.pc \in Owning /\ s.pc # "write"
      BY <1>4 DEF Owning
    <3>3. s.pc \in Owning => /\ (temps[TempOf(w)])'.key = s.key
                             /\ (temps[TempOf(w)])'.content = "whole"
                             /\ s.pc = "rename" => (temps[TempOf(w)])'.synced
      BY <1>4, <2>1
    <3> QED BY <1>1, <1>4, <2>1, <3>1, <3>2, <3>3 DEF WriterOwns
  <2> QED BY <1>1, <1>3, <1>4, <2>1, <2>2, <2>3, OwnTempStep DEF name
<1>5. CASE Write(w)
  <2> DEFINE file == [temps[name] EXCEPT !.content = "whole", !.time = now]
             s == [writer[w] EXCEPT !.pc = "sync"]
  <2>1. /\ temps' = [temps EXCEPT ![name] = file] /\ writer' = [writer EXCEPT ![w] = s]
        /\ UNCHANGED <<records, earlier>> /\ writer[w].pc = "write"
    BY <1>2, <1>5 DEF Write, Goto, Files
  <2>2. /\ s \in WriterStates /\ s.pc = "sync" /\ s.key = writer[w].key
        /\ s.serial = writer[w].serial
    BY <1>1 DEF WriterStates, Steps, Owning
  <2>3. file \in Files /\ file.key = temps[name].key /\ file.content = "whole"
    BY <1>2 DEF Files
  <2>4. temps[name].key = writer[w].key
    BY <1>1, <2>1 DEF WriterOwns
  <2>5. RecordsGood'
    BY <1>3, <2>1 DEF RecordsGood
  <2> HIDE DEF file, s, name
  <2> QED BY <1>4, <2>1, <2>2, <2>3, <2>4, <2>5, FilesLemma DEF MaybeFiles
<1>6. CASE Sync(w)
  <2> DEFINE file == [temps[name] EXCEPT !.synced = TRUE]
             s == [writer[w] EXCEPT !.pc = "rename"]
  <2>1. /\ temps' = [temps EXCEPT ![name] = file] /\ writer' = [writer EXCEPT ![w] = s]
        /\ UNCHANGED <<records, earlier>> /\ writer[w].pc = "sync"
    BY <1>2, <1>6 DEF Sync, Goto, Files
  <2>2. /\ s \in WriterStates /\ s.pc = "rename" /\ s.key = writer[w].key
        /\ s.serial = writer[w].serial
    BY <1>1 DEF WriterStates, Steps, Owning
  <2>3. /\ file \in Files /\ file.key = temps[name].key
        /\ file.content = temps[name].content /\ file.synced
    BY <1>2 DEF Files
  <2>4. temps[name].key = writer[w].key /\ temps[name].content = "whole"
    BY <1>1, <2>1 DEF WriterOwns
  <2>5. RecordsGood'
    BY <1>3, <2>1 DEF RecordsGood
  <2> HIDE DEF file, s, name
  <2> QED BY <1>4, <2>1, <2>2, <2>3, <2>4, <2>5, FilesLemma DEF MaybeFiles
<1>7. CASE Rename(w)
  <2> DEFINE k == writer[w].key
             s == [writer[w] EXCEPT !.pc = "list"]
  <2>1. /\ temps' = [temps EXCEPT ![name] = NoFile] /\ writer' = [writer EXCEPT ![w] = s]
        /\ Replace(k, temps[name]) /\ writer[w].pc = "rename"
    BY <1>7 DEF Rename, Goto
  <2>2. /\ s \in WriterStates /\ s.pc = "list" /\ s.key = writer[w].key
        /\ s.serial = writer[w].serial
    BY <1>1 DEF WriterStates, Steps, Owning
  <2>3. Good(temps[name], k)
    BY <1>1, <2>1 DEF WriterOwns, Good
  <2>4. records' \in [Keys -> MaybeFiles] /\ earlier' \in [Keys -> SUBSET MaybeFiles]
    BY <1>1, <1>2, <2>1 DEF Replace, MaybeFiles
  <2>5. RecordsGood'
    BY <1>1, <1>3, <2>1, <2>3 DEF RecordsGood, Replace
  <2> HIDE DEF s, name, k
  <2> QED BY <1>4, <2>1, <2>2, <2>4, <2>5 DEF MaybeFiles, Owning
<1>8. CASE Cleanup(w)
  <2>1. PICK file \in {temps[name], NoFile} : temps' = [temps EXCEPT ![name] = file]
    BY <1>2, <1>8 DEF Cleanup
  <2>2. writer' = [writer EXCEPT ![w] = IdleWriter] /\ UNCHANGED <<records, earlier>>
    BY <1>8 DEF Cleanup, Return
  <2>3. IdleWriter \in WriterStates /\ IdleWriter.pc = "idle" /\ IdleWriter.key = 0
    BY DEF IdleWriter, WriterStates, Steps
  <2>4. RecordsGood'
    BY <1>3, <2>2 DEF RecordsGood
  <2>5. WriterOwns(w)'
    BY <2>2, <2>3 DEF WriterOwns, Owning
  <2>6. temps' \in [TempNames -> MaybeFiles]
    BY <1>2, <2>1 DEF MaybeFiles
  <2> HIDE DEF name
  <2> QED BY <1>1, <1>2, <1>3, <2>1, <2>2, <2>3, <2>4, <2>5, <2>6, OwnTempStep DEF name, Owning
<1> QED BY <1>5, <1>6, <1>7, <1>8

\* Pruning takes a whole record away; nothing but whole ones can come back.
LEMMA RemoveInv == ASSUME Inv, NEW w \in Writers, Remove(w) PROVE Inv'
<1> USE DEF Inv, Types
<1>1. PICK e \in writer[w].found :
         /\ Replace(e[2], NoFile)
         /\ IF writer[w].found = {e} THEN Return(w)
            ELSE writer' = [writer EXCEPT ![w].found = @ \ {e}]
  BY DEF Remove
<1>2. /\ writer[w] \in WriterStates /\ WriterOwns(w)
      /\ writer[w].pc = "remove" /\ writer[w].key \in Keys
      /\ UNCHANGED <<setting, now, temps>> /\ serial' \in [Processes -> Nat]
  BY DEF Remove, WriterOwns
<1>3. e[2] \in Keys
  BY <1>2 DEF WriterStates
<1>4. records' \in [Keys -> MaybeFiles] /\ earlier' \in [Keys -> SUBSET MaybeFiles]
  BY <1>1, <1>3 DEF Replace, MaybeFiles
<1>5. RecordsGood'
  BY <1>1, <1>2, <1>3 DEF RecordsGood, Replace, Good
<1>6. CASE Return(w)
  <2>1. IdleWriter \in WriterStates /\ IdleWriter.pc = "idle"
    BY DEF IdleWriter, WriterStates, Steps
  <2> QED BY <1>2, <1>4, <1>5, <1>6, <2>1, PlainStep DEF Return, Owning
<1>7. CASE ~Return(w)
  <2> DEFINE s == [writer[w] EXCEPT !.found = writer[w].found \ {e}]
  <2>1. writer' = [writer EXCEPT ![w] = s]
    BY <1>1, <1>2, <1>7 DEF WriterStates
  <2>2. s \in WriterStates /\ s.pc = "remove" /\ s.key = writer[w].key
    BY <1>2 DEF WriterStates
  <2> HIDE DEF s
  <2> QED BY <1>2, <1>4, <1>5, <2>1, <2>2, PlainStep DEF Owning
<1> QED BY <1>6, <1>7

\* Time, the disk and the ends of processes.
LEMMA EnvironmentInv ==
    ASSUME Inv, Tick \/ (\E p \in Processes : Exit(p)) \/ \E k \in Keys : Flush(k)
    PROVE  Inv'
<1> USE DEF Inv, Types
<1>1. IdleWriter \in WriterStates /\ IdleWriter.pc = "idle"
  BY DEF IdleWriter, WriterStates, Steps
<1>2. CASE Tick
  <2>1. UNCHANGED <<setting, records, earlier, temps, serial, writer>>
    BY <1>2 DEF Tick
  <2>2. setting.maxTime \in 0 .. MaxTime
    BY SettingsAssumption
  <2>3. Types'
    BY <1>2, <2>1, <2>2, BoundAssumption DEF Tick
  <2>4. OwnersApart' /\ RecordsGood'
    BY <2>1 DEF OwnersApart, RecordsGood, TempOf, ProcessOf
  <2>5. ASSUME NEW w \in Writers PROVE WriterOwns(w)'
    BY <2>1 DEF WriterOwns, TempOf, ProcessOf
  <2> QED BY <2>3, <2>4, <2>5
<1>3. ASSUME NEW p \in Processes, Exit(p) PROVE Inv'
  <2>1. /\ UNCHANGED <<setting, records, earlier, temps, now>>
        /\ \A w \in Writers : writer'[w] = IF ProcessOf(w) = p THEN IdleWriter ELSE writer[w]
    BY <1>3 DEF Exit
  <2>2. Types'
    BY <1>1, <1>3, <2>1 DEF Exit
  <2>3. RecordsGood'
    BY <2>1 DEF RecordsGood
  <2>4. ASSUME NEW w \in Writers, writer'[w].pc # "idle"
        PROVE  writer'[w] = writer[w] /\ TempOf(w)' = TempOf(w)
    BY <1>1, <2>1, <2>4 DEF TempOf, ProcessOf
  <2>5. OwnersApart'
    BY <2>4 DEF OwnersApart, Owning
  <2>6. ASSUME NEW w \in Writers PROVE WriterOwns(w)'
    <3>1. CASE writer'[w].pc = "idle"
      BY <3>1 DEF WriterOwns, Owning
    <3>2. CASE writer'[w].pc # "idle"
      BY <2>1, <2>4, <3>2 DEF WriterOwns
    <3> QED BY <3>1, <3>2
  <2> QED BY <2>2, <2>3, <2>5, <2>6
<1>4. ASSUME NEW k \in Keys, Flush(k) PROVE Inv'
  <2>1. /\ UNCHANGED <<setting, records, temps, serial, now, writer>>
        /\ earlier' \in [Keys -> SUBSET MaybeFiles]
    BY <1>4 DEF Flush
  <2>2. RecordsGood'
    BY <1>4, <2>1 DEF Flush, RecordsGood
  <2>3. Types' /\ OwnersApart'
    BY <2>1 DEF OwnersApart, TempOf, ProcessOf
  <2>4. ASSUME NEW w \in Writers PROVE WriterOwns(w)'
    BY <2>1 DEF WriterOwns, TempOf, ProcessOf
  <2> QED BY <2>2, <2>3, <2>4
<1> QED BY <1>2, <1>3, <1>4

\* What a power loss brings back was synced before it was published, so it is whole.
LEMMA PowerLossInv == ASSUME Inv, PowerLoss PROVE Inv'
<1> USE DEF Inv, Types
<1>1. PICK kept \in [Keys -> UNION {{records[k]} \cup earlier[k] : k \in Keys}] :
         /\ \A k \in Keys : kept[k] \in {records[k]} \cup earlier[k]
         /\ records' = [k \in Keys |-> AfterLoss(kept[k])]
  BY DEF PowerLoss
<1>2. /\ earlier' = [k \in Keys |-> {}]
      /\ temps' \in {[n \in TempNames |-> AfterLoss(temps[n])], [n \in TempNames |-> NoFile]}
      /\ serial' = [p \in Processes |-> 0]
      /\ writer' = [w \in Writers |-> IdleWriter]
      /\ UNCHANGED <<setting, now>>
  BY DEF PowerLoss
<1>3. ASSUME NEW f \in MaybeFiles PROVE AfterLoss(f) \in MaybeFiles
  <2>1. CASE f = NoFile
    BY <2>1 DEF AfterLoss, MaybeFiles, NoFile
  <2>2. CASE f \in Files
    BY <2>2 DEF AfterLoss, MaybeFiles, Files
  <2> QED BY <2>1, <2>2 DEF MaybeFiles
<1>4. IdleWriter \in WriterStates /\ IdleWriter.pc = "idle"
  BY DEF IdleWriter, WriterStates, Steps
<1>5. ASSUME NEW k \in Keys PROVE kept[k] \in MaybeFiles
  BY <1>1
<1>6. Types'
  BY <1>1, <1>2, <1>3, <1>4, <1>5 DEF MaybeFiles
<1>7. RecordsGood'
  <2> SUFFICES ASSUME NEW k \in Keys
               PROVE  Good(records'[k], k) /\ earlier'[k] = {}
    BY <1>2 DEF RecordsGood
  <2>1. Good(kept[k], k)
    BY <1>1 DEF RecordsGood
  <2>2. AfterLoss(kept[k]) = kept[k]
    BY <2>1 DEF AfterLoss, Good, NoFile
  <2> QED BY <1>1, <1>2, <2>1, <2>2
<1>8. OwnersApart' /\ \A w \in Writers : WriterOwns(w)'
  BY <1>2, <1>4 DEF OwnersApart, WriterOwns, Owning
<1> QED BY <1>6, <1>7, <1>8

LEMMA NextInv == ASSUME Inv, [Next]_vars PROVE Inv'
<1>1. CASE UNCHANGED vars
  <2> USE <1>1 DEF vars, storeVars
  <2>1. Types' /\ OwnersApart' /\ RecordsGood'
    BY DEF Inv, Types, OwnersApart, RecordsGood, TempOf, ProcessOf
  <2>2. ASSUME NEW w \in Writers PROVE WriterOwns(w)'
    BY DEF Inv, WriterOwns, TempOf, ProcessOf
  <2> QED BY <2>1, <2>2 DEF Inv
<1>2. CASE Next
  BY <1>2, QuietInv, CreateInv, TempInv, RemoveInv, EnvironmentInv, PowerLossInv DEF Next, Step
<1> QED BY <1>1, <1>2

THEOREM InvHolds == Spec => []Inv
<1> QED BY InitInv, NextInv, PTL DEF Spec

\* RecordsWhole: whatever stores, prunings, errors, exits and power losses meet,
\* the file of a key is a whole record of that key: what rename publishes was
\* written and synced, in a file no other store could have touched.
THEOREM RecordsAlwaysWhole == Spec => []RecordsWhole
<1>1. Inv => RecordsWhole
  BY DEF Inv, RecordsGood, Good, RecordsWhole, Present
<1> QED BY <1>1, InvHolds, PTL

\* TempsPrivate: between create_new and rename a store's temporary is its own.
THEOREM TempsNeverShared == Spec => []TempsPrivate
<1>1. Inv => TempsPrivate
  BY DEF Inv, WriterOwns, OwnersApart, Owning, TempsPrivate
<1> QED BY <1>1, InvHolds, PTL

\* StaleTempsUntouched: a file that a dead process left stays as it is.
THEOREM StaleTempsStay == Spec => StaleTempsUntouched
<1> DEFINE Kept ==
       \A n \in TempNames :
          /\ \E w \in Writers : StoreStep(w)
          /\ temps[n] # NoFile
          /\ \A w \in Writers : writer[w].pc \in {"write", "sync", "rename",
                                                  "cleanup"} => TempOf(w) # n
          => temps'[n] = temps[n]
<1>1. Inv /\ [Next]_vars => Kept
  <2> SUFFICES ASSUME Inv, NEW n \in TempNames, NEW w \in Writers, StoreStep(w), temps[n] # NoFile,
                      \A v \in Writers : writer[v].pc \in Owning => TempOf(v) # n
               PROVE  temps'[n] = temps[n]
    BY DEF Owning
  <2> USE DEF Inv, Types
  <2>1. CASE CreateTemp(w)
    BY <2>1 DEF CreateTemp, AlreadyExists
  <2>2. CASE Write(w) \/ Sync(w) \/ Rename(w) \/ Cleanup(w)
    <3>1. TempOf(w) # n
      BY <2>2 DEF Write, Sync, Rename, Cleanup, Owning
    <3> QED BY <2>2, <3>1 DEF Write, Sync, Rename, Cleanup
  <2>3. CASE List(w) \/ Stat(w) \/ Plan(w) \/ Remove(w)
    BY <2>3 DEF List, Stat, Plan, Remove
  <2> QED BY <2>1, <2>2, <2>3 DEF StoreStep
<1>2. Inv /\ [Next]_vars => [Kept]_vars
  BY <1>1
<1>3. []Inv /\ [][Next]_vars => [][Kept]_vars
  BY <1>2, PTL
<1> QED BY <1>3, InvHolds DEF Spec, StaleTempsUntouched

----------------------------------------------------------------------------
(* The cap.  Whichever store lists last sees every record there will be: the
   ones above the cap are in its hands until it has removed them. *)

KeysOf(entries) == {e[2] : e \in entries}

\* Store w has what is above the cap, or will see it when it lists.
Covers(w) ==
    \/ writer[w].pc = "list"
    \/ writer[w].pc = "stat" /\ Present \subseteq writer[w].names \cup KeysOf(writer[w].found)
    \/ writer[w].pc = "remove"
          /\ Cardinality(Present \ KeysOf(writer[w].found)) <= MaxEntries

Capped ==
    setting.faults = {} =>
        Cardinality(Present) <= MaxEntries \/ \E w \in Writers : Covers(w)

\* Fewer entries of a list are newer than the newer of two.
LEMMA NewerLemma ==
    ASSUME NEW found \in SUBSET ((0 .. MaxTime) \X Keys),
           NEW d \in found, NEW e \in found, Before(d, e)
    PROVE  Cardinality({f \in found : Before(e, f)}) < Cardinality({f \in found : Before(d, f)})
<1> DEFINE Newer(c) == {f \in found : Before(c, f)}
<1>1. IsFiniteSet(found)
  <2>1. IsFiniteSet(0 .. MaxTime) /\ IsFiniteSet(Keys)
    BY FS_Interval, BoundAssumption, KeysAssumption
  <2>2. IsFiniteSet((0 .. MaxTime) \X Keys)
    BY <2>1, FS_Product
  <2> QED BY <2>2, FS_Subset
<1>2. ASSUME NEW c \in found
      PROVE  IsFiniteSet(Newer(c)) /\ Cardinality(Newer(c)) \in Nat
  BY <1>1, FS_Subset, FS_CardinalityType
<1>3. found \subseteq Nat \X Nat
  <2>1. (0 .. MaxTime) \subseteq Nat /\ Keys \subseteq Nat
    BY KeysAssumption, BoundAssumption
  <2>2. (0 .. MaxTime) \X Keys \subseteq Nat \X Nat
    BY <2>1
  <2> QED BY <2>2
<1>4. Newer(e) \subseteq Newer(d) /\ e \in Newer(d) /\ e \notin Newer(e)
  BY <1>3 DEF Before
<1>5. Newer(e) # Newer(d)
  BY <1>4
<1> HIDE DEF Newer
<1>6. Cardinality(Newer(e)) <= Cardinality(Newer(d))
      /\ Cardinality(Newer(d)) # Cardinality(Newer(e))
  BY <1>2, <1>4, <1>5, FS_Subset
<1>7. Cardinality(Newer(e)) < Cardinality(Newer(d))
  BY <1>2, <1>6
<1> QED BY <1>7 DEF Newer

\* What Excess leaves of an entry list has at most MaxEntries keys: the number of
\* entries written after it tells any two of them apart, and is below the cap.
LEMMA ExcessLemma ==
    ASSUME NEW found \in SUBSET ((0 .. MaxTime) \X Keys), NEW S \in SUBSET Keys,
           S \subseteq KeysOf(found)
    PROVE  Cardinality(S \ KeysOf(Excess(found))) <= MaxEntries
<1> DEFINE Kept == S \ KeysOf(Excess(found))
           Newer(e) == {f \in found : Before(e, f)}
           entry == [k \in Kept |-> CHOOSE e \in found : e[2] = k]
           rank == [k \in Kept |-> Cardinality(Newer(entry[k]))]
<1>1. IsFiniteSet(found)
  <2>1. IsFiniteSet(0 .. MaxTime) /\ IsFiniteSet(Keys)
    BY FS_Interval, BoundAssumption, KeysAssumption
  <2>2. IsFiniteSet((0 .. MaxTime) \X Keys)
    BY <2>1, FS_Product
  <2> QED BY <2>2, FS_Subset
<1>2. ASSUME NEW e \in found
      PROVE  IsFiniteSet(Newer(e)) /\ Cardinality(Newer(e)) \in Nat
  BY <1>1, FS_Subset, FS_CardinalityType
<1>3. ASSUME NEW k \in Kept
      PROVE  entry[k] \in found /\ entry[k][2] = k /\ entry[k] \notin Excess(found)
  <2>1. \E e \in found : e[2] = k
    BY DEF KeysOf
  <2>2. entry[k] \in found /\ entry[k][2] = k
    BY <2>1
  <2> QED BY <2>2 DEF KeysOf
<1>4. ASSUME NEW k \in Kept PROVE rank[k] \in 0 .. MaxEntries - 1
  <2>1. ~(Cardinality(Newer(entry[k])) >= MaxEntries)
    BY <1>3 DEF Excess
  <2>2. rank[k] = Cardinality(Newer(entry[k])) /\ Cardinality(Newer(entry[k])) \in Nat
    BY <1>2, <1>3
  <2> HIDE DEF rank, Newer, entry
  <2> QED BY <2>1, <2>2, CapAssumption
<1>5. ASSUME NEW d \in found, NEW e \in found, Before(d, e)
      PROVE  Cardinality(Newer(e)) < Cardinality(Newer(d))
  BY <1>5, NewerLemma
<1>6. ASSUME NEW j \in Kept, NEW k \in Kept, j # k PROVE rank[j] # rank[k]
  <2>1. /\ entry[j] \in found /\ entry[j][2] = j
        /\ entry[k] \in found /\ entry[k][2] = k
    BY <1>3
  <2> HIDE DEF entry
  <2>2. Before(entry[j], entry[k]) \/ Before(entry[k], entry[j])
    <3>1. entry[j][1] \in Nat /\ entry[k][1] \in Nat /\ j \in Nat /\ k \in Nat
      BY <2>1, KeysAssumption, BoundAssumption
    <3> QED BY <1>6, <2>1, <3>1 DEF Before
  <2>3. rank[j] = Cardinality(Newer(entry[j])) /\ rank[k] = Cardinality(Newer(entry[k]))
    OBVIOUS
  <2>4. rank[j] < rank[k] \/ rank[k] < rank[j]
    BY <1>5, <2>1, <2>2, <2>3
  <2> QED BY <1>4, <2>4, CapAssumption
<1> HIDE DEF entry, Newer
<1>7. rank \in Injection(Kept, 0 .. MaxEntries - 1)
  <2> HIDE DEF Kept
  <2>1. rank \in [Kept -> 0 .. MaxEntries - 1]
    BY <1>4
  <2> HIDE DEF rank
  <2> QED BY <1>6, <2>1 DEF Injection, IsInjective
<1>8. IsFiniteSet(0 .. MaxEntries - 1) /\ Cardinality(0 .. MaxEntries - 1) = MaxEntries
  BY FS_Interval, CapAssumption
<1> HIDE DEF rank
<1>9. Cardinality(Kept) <= Cardinality(0 .. MaxEntries - 1)
  BY <1>7, <1>8, FS_Injection
<1> QED BY <1>8, <1>9

\* Fewer records are not above the cap.
LEMMA FewerLemma ==
    ASSUME NEW S \in SUBSET Keys, NEW T \in SUBSET S, Cardinality(S) <= MaxEntries
    PROVE  Cardinality(T) <= MaxEntries
<1>1. IsFiniteSet(S) /\ IsFiniteSet(T) /\ Cardinality(T) <= Cardinality(S)
  BY KeysAssumption, FS_Subset
<1>2. Cardinality(S) \in Nat /\ Cardinality(T) \in Nat
  BY <1>1, FS_CardinalityType
<1> QED BY <1>1, <1>2, CapAssumption

\* A step that publishes nothing and leaves the stores after List alone.
LEMMA CapKept ==
    ASSUME Capped, setting' = setting, Present' \subseteq Present, Present \subseteq Keys,
           \A w \in Writers : writer[w].pc \in {"list", "stat", "remove"} =>
               writer'[w] = writer[w]
    PROVE  Capped'
<1>1. ASSUME NEW w \in Writers, Covers(w) PROVE Covers(w)'
  <2>1. writer'[w] = writer[w]
    BY <1>1 DEF Covers
  <2>2. Cardinality(Present \ KeysOf(writer[w].found)) <= MaxEntries =>
        Cardinality(Present' \ KeysOf(writer[w].found)) <= MaxEntries
    <3> DEFINE S == Present \ KeysOf(writer[w].found)
               T == Present' \ KeysOf(writer[w].found)
    <3>1. S \in SUBSET Keys /\ T \in SUBSET S
      OBVIOUS
    <3> HIDE DEF S, T
    <3>2. Cardinality(S) <= MaxEntries => Cardinality(T) <= MaxEntries
      BY <3>1, FewerLemma
    <3> QED BY <3>2 DEF S, T
  <2> QED BY <1>1, <2>1, <2>2 DEF Covers
<1>2. Cardinality(Present) <= MaxEntries => Cardinality(Present') <= MaxEntries
  BY FewerLemma
<1> QED BY <1>1, <1>2 DEF Capped

\* One store after List: it keeps what it covers, or nothing is above the cap.
LEMMA CapPassed ==
    ASSUME Capped, setting' = setting, Present' \subseteq Present, Present \subseteq Keys,
           NEW w \in Writers, \A v \in Writers \ {w} : writer'[v] = writer[v],
           setting.faults = {} /\ Covers(w) =>
               Covers(w)' \/ Cardinality(Present') <= MaxEntries
    PROVE  Capped'
<1>1. ASSUME NEW v \in Writers \ {w}, Covers(v) PROVE Covers(v)'
  <2>1. writer'[v] = writer[v]
    OBVIOUS
  <2>2. Cardinality(Present \ KeysOf(writer[v].found)) <= MaxEntries =>
        Cardinality(Present' \ KeysOf(writer[v].found)) <= MaxEntries
    <3> DEFINE S == Present \ KeysOf(writer[v].found)
               T == Present' \ KeysOf(writer[v].found)
    <3>1. S \in SUBSET Keys /\ T \in SUBSET S
      OBVIOUS
    <3> HIDE DEF S, T
    <3>2. Cardinality(S) <= MaxEntries => Cardinality(T) <= MaxEntries
      BY <3>1, FewerLemma
    <3> QED BY <3>2 DEF S, T
  <2> QED BY <1>1, <2>1, <2>2 DEF Covers
<1>2. Cardinality(Present) <= MaxEntries => Cardinality(Present') <= MaxEntries
  BY FewerLemma
<1> QED BY <1>1, <1>2 DEF Capped

LEMMA NextCapped == ASSUME Inv, Capped, [Next]_vars PROVE Capped'
<1> USE DEF Inv, Types
<1>0. Present \subseteq Keys
  BY DEF Present
<1>1. CASE UNCHANGED vars
  BY <1>0, <1>1, CapKept DEF vars, storeVars, Present
<1>2. ASSUME NEW w \in Writers,
             \/ \E k \in Keys : Store(w, k)
             \/ CreateTemp(w) \/ Write(w) \/ Sync(w) \/ Cleanup(w) \/ WriteFails(w)
      PROVE  Capped'
  <2>1. setting' = setting /\ Present' = Present
    BY <1>2 DEF Store, CreateTemp, Write, Sync, Cleanup, WriteFails, Present
  <2>2. writer[w].pc \notin {"list", "stat", "remove"}
        /\ \A v \in Writers \ {w} : writer'[v] = writer[v]
    BY <1>2 DEF Store, CreateTemp, Write, Sync, Cleanup, WriteFails, Goto, Return
  <2> QED BY <1>0, <2>1, <2>2, CapKept
<1>3. ASSUME NEW w \in Writers, Rename(w) PROVE Capped'
  <2>1. writer'[w].pc = "list"
    BY <1>3 DEF Rename, Goto, WriterStates
  <2> QED BY <2>1 DEF Capped, Covers
<1>4. ASSUME NEW w \in Writers, List(w) PROVE Capped'
  <2>1. writer' = [writer EXCEPT ![w].pc = "stat", ![w].names = Present] /\ Present' = Present
    BY <1>4 DEF List, Present
  <2>2. writer'[w].pc = "stat" /\ writer'[w].names = Present'
    BY <2>1 DEF WriterStates
  <2> QED BY <2>2 DEF Capped, Covers
<1>5. ASSUME NEW w \in Writers, Stat(w) PROVE Capped'
  <2>1. PICK k \in writer[w].names :
           writer' = [writer EXCEPT
             ![w].names = @ \ {k},
             ![w].found = IF k \in Present THEN @ \cup {<<records[k].time, k>>} ELSE @]
    BY <1>5 DEF Stat
  <2>2. /\ setting' = setting /\ Present' = Present /\ writer[w].pc = "stat"
        /\ \A v \in Writers \ {w} : writer'[v] = writer[v]
    BY <1>5, <2>1 DEF Stat, Present
  <2>3. /\ writer'[w].pc = "stat" /\ writer'[w].names = writer[w].names \ {k}
        /\ writer'[w].found = IF k \in Present THEN writer[w].found \cup {<<records[k].time, k>>}
                              ELSE writer[w].found
    BY <2>1, <2>2 DEF WriterStates
  <2>4. KeysOf(writer[w].found) \subseteq KeysOf(writer'[w].found)
        /\ (k \in Present => k \in KeysOf(writer'[w].found))
    <3>1. writer[w].found \subseteq writer'[w].found
      BY <2>3
    <3>2. k \in Present => <<records[k].time, k>> \in writer'[w].found
      BY <2>3
    <3>3. <<records[k].time, k>>[2] = k
      OBVIOUS
    <3> QED BY <3>1, <3>2, <3>3 DEF KeysOf
  <2>5. Covers(w) => Covers(w)'
    BY <2>2, <2>3, <2>4 DEF Covers
  <2> QED BY <1>0, <2>2, <2>5, CapPassed
<1>6. ASSUME NEW w \in Writers, Plan(w) PROVE Capped'
  <2>1. /\ setting' = setting /\ Present' = Present
        /\ writer[w].pc = "stat" /\ writer[w].names = {}
        /\ \A v \in Writers \ {w} : writer'[v] = writer[v]
    BY <1>6 DEF Plan, Present, Return
  <2>2. writer[w].found \in SUBSET ((0 .. MaxTime) \X Keys)
    BY DEF WriterStates
  <2>3. Covers(w) => Cardinality(Present \ KeysOf(Excess(writer[w].found))) <= MaxEntries
    BY <1>0, <2>1, <2>2, ExcessLemma DEF Covers
  <2>4. CASE Excess(writer[w].found) = {}
    <3>1. Present \ KeysOf(Excess(writer[w].found)) = Present'
      BY <2>1, <2>4 DEF KeysOf
    <3> QED BY <1>0, <2>1, <2>3, <3>1, CapPassed
  <2>5. CASE Excess(writer[w].found) # {}
    <3>1. writer'[w].pc = "remove" /\ writer'[w].found = Excess(writer[w].found)
      BY <1>6, <2>5 DEF Plan, WriterStates
    <3>2. Covers(w) => Covers(w)'
      BY <2>1, <2>3, <3>1 DEF Covers
    <3> QED BY <1>0, <2>1, <3>2, CapPassed
  <2> QED BY <2>4, <2>5
<1>7. ASSUME NEW w \in Writers, Remove(w) PROVE Capped'
  <2>1. PICK e \in writer[w].found :
           /\ Replace(e[2], NoFile)
           /\ IF writer[w].found = {e} THEN Return(w)
              ELSE writer' = [writer EXCEPT ![w].found = @ \ {e}]
    BY <1>7 DEF Remove
  <2>2. writer[w].pc = "remove" /\ setting' = setting
    BY <1>7 DEF Remove
  <2>3. Present' = Present \ {e[2]}
    BY <2>1 DEF Replace, Present
  <2>4. \A v \in Writers \ {w} : writer'[v] = writer[v]
    BY <2>1 DEF Return
  <2>5. CASE writer[w].found = {e}
    <3>1. Present' = Present \ KeysOf(writer[w].found)
      BY <2>3, <2>5 DEF KeysOf
    <3>2. Covers(w) => Cardinality(Present') <= MaxEntries
      BY <2>2, <3>1 DEF Covers
    <3> QED BY <1>0, <2>2, <2>3, <2>4, <3>2, CapPassed
  <2>6. CASE writer[w].found # {e}
    <3>1. writer'[w].found = writer[w].found \ {e} /\ writer'[w].pc = "remove"
      BY <2>1, <2>2, <2>6 DEF WriterStates
    <3> DEFINE S == Present \ KeysOf(writer[w].found)
               T == Present' \ KeysOf(writer'[w].found)
    <3>2. S \in SUBSET Keys /\ T \in SUBSET S
      BY <1>0, <2>3, <3>1 DEF KeysOf
    <3> HIDE DEF S, T
    <3>3. Cardinality(S) <= MaxEntries => Cardinality(T) <= MaxEntries
      BY <3>2, FewerLemma
    <3>4. Covers(w) => Covers(w)'
      BY <2>2, <3>1, <3>3 DEF Covers, S, T
    <3> QED BY <1>0, <2>2, <2>3, <2>4, <3>4, CapPassed
  <2> QED BY <2>5, <2>6
<1>8. ASSUME Tick PROVE Capped'
  <2>1. setting' = setting /\ Present' = Present /\ writer' = writer
    BY <1>8 DEF Tick, Present
  <2> QED BY <1>0, <2>1, CapKept
<1>9. ASSUME \/ \E w \in Writers : EvictFails(w)
             \/ \E p \in Processes : Exit(p)
             \/ \E k \in Keys : Flush(k)
             \/ PowerLoss
      PROVE  Capped'
  BY <1>9 DEF EvictFails, Exit, Flush, PowerLoss, Capped
<1> QED BY <1>1, <1>2, <1>3, <1>4, <1>5, <1>6, <1>7, <1>8, <1>9 DEF Next, Step

\* CapAtRest: however concurrent stores and prunings interleave, the directory is
\* within max_disk_cache_entries when all of them have returned.
THEOREM CapHolds == Spec => []CapAtRest
<1>1. Init => Capped
  <2> SUFFICES ASSUME Init PROVE Cardinality(Present) <= MaxEntries
    BY DEF Capped
  <2>1. Present = {}
    BY DEF Init, Present
  <2> QED BY <2>1, FS_EmptySet, CapAssumption
<1>2. Inv /\ Capped /\ [Next]_vars => Capped'
  BY NextCapped
<1>3. Inv /\ Capped => CapAtRest
  BY DEF Capped, Covers, CapAtRest
<1> QED BY <1>1, <1>2, <1>3, InvHolds, PTL DEF Spec

----------------------------------------------------------------------------
(* The order of eviction.  What an eviction does not know of, changed keeps:
   of the other records it has the times, or will read them. *)

Unchanged(w) == Present \ changed[w]
EntryOf(j) == <<records[j].time, j>>

\* What store w knows of the records that did not change since it listed them.
Knows(w) ==
    /\ writer[w].pc \notin {"stat", "remove"} => writer[w].found = {}
    /\ \A e \in writer[w].found : e[2] \in Unchanged(w) => e = EntryOf(e[2])
    /\ writer[w].pc = "stat" =>
          \A j \in Unchanged(w) : j \in writer[w].names \/ EntryOf(j) \in writer[w].found
    /\ writer[w].pc = "remove" =>
          \A j \in Unchanged(w), e \in writer[w].found :
             EntryOf(j) \in writer[w].found \/ Before(e, EntryOf(j))

Known == \A w \in Writers : Knows(w)

\* The entries that Excess takes are before those that it leaves.
LEMMA OldestLemma ==
    ASSUME NEW found \in SUBSET ((0 .. MaxTime) \X Keys),
           NEW e \in Excess(found), NEW f \in found \ Excess(found)
    PROVE  Before(e, f)
<1>1. e \in found /\ e # f
  BY DEF Excess
<1>2. CASE Before(f, e)
  <2>1. Cardinality({g \in found : Before(e, g)}) < Cardinality({g \in found : Before(f, g)})
    BY <1>1, <1>2, NewerLemma
  <2>2. Cardinality({g \in found : Before(e, g)}) >= MaxEntries
        /\ ~(Cardinality({g \in found : Before(f, g)}) >= MaxEntries)
    BY DEF Excess
  <2>3. ASSUME NEW c PROVE Cardinality({g \in found : Before(c, g)}) \in Nat
    <3>1. IsFiniteSet(0 .. MaxTime) /\ IsFiniteSet(Keys)
      BY FS_Interval, BoundAssumption, KeysAssumption
    <3>2. IsFiniteSet((0 .. MaxTime) \X Keys)
      BY <3>1, FS_Product
    <3> DEFINE S == {g \in found : Before(c, g)}
    <3>3. IsFiniteSet(S)
      BY <3>2, FS_Subset
    <3> HIDE DEF S
    <3>4. Cardinality(S) \in Nat
      BY <3>3, FS_CardinalityType
    <3> QED BY <3>4 DEF S
  <2> DEFINE m == Cardinality({g \in found : Before(e, g)})
             n == Cardinality({g \in found : Before(f, g)})
  <2>4. m < n /\ m >= MaxEntries /\ ~(n >= MaxEntries) /\ m \in Nat /\ n \in Nat
    BY <2>1, <2>2, <2>3
  <2> HIDE DEF m, n
  <2> QED BY <2>4, CapAssumption
<1>3. Before(e, f) \/ Before(f, e)
  <2>1. e \in (0 .. MaxTime) \X Keys /\ f \in (0 .. MaxTime) \X Keys
    BY <1>1
  <2>2. e[1] \in Nat /\ f[1] \in Nat /\ e[2] \in Nat /\ f[2] \in Nat
    <3>1. \A c \in 0 .. MaxTime : c \in Nat
      BY BoundAssumption
    <3>2. \A k \in Keys : k \in Nat
      BY KeysAssumption
    <3> QED BY <2>1, <3>1, <3>2
  <2>3. e[1] # f[1] \/ e[2] # f[2]
    BY <1>1, <2>1
  <2> QED BY <2>2, <2>3 DEF Before
<1> QED BY <1>2, <1>3

\* While an eviction goes on, the records it need not know of only become more.
LEMMA UnchangedLemma ==
    ASSUME NEW w \in Writers, Record,
           writer[w].pc \in {"stat", "remove"}, writer'[w].pc \in {"stat", "remove"}
    PROVE  \A j \in Unchanged(w)' : j \in Unchanged(w) /\ EntryOf(j)' = EntryOf(j)
<1>1. changed'[w] = changed[w] \cup {k \in Keys : records'[k] \notin {records[k], NoFile}}
  BY DEF Record
<1> SUFFICES ASSUME NEW j \in Unchanged(w)' PROVE j \in Unchanged(w) /\ EntryOf(j)' = EntryOf(j)
  OBVIOUS
<1>2. j \in Keys /\ records'[j] # NoFile /\ j \notin changed'[w]
  BY DEF Unchanged, Present
<1>3. records'[j] = records[j] /\ j \notin changed[w]
  BY <1>1, <1>2
<1> QED BY <1>2, <1>3 DEF Unchanged, Present, EntryOf

\* What a step does to a store: nothing, its end, a step before its eviction, or
\* a step of its eviction.
LEMMA WriterMoves ==
    ASSUME Inv, Step, NEW w \in Writers
    PROVE  \/ writer'[w] = writer[w]
           \/ writer'[w] = IdleWriter
           \/ /\ {writer[w].pc, writer'[w].pc} \cap {"stat", "remove"} = {}
              /\ writer'[w].found = writer[w].found
           \/ List(w) \/ Stat(w) \/ Plan(w) \/ Remove(w)
<1> USE DEF Inv, Types
<1>1. writer[w] \in WriterStates
  OBVIOUS
<1>2. ASSUME NEW v \in Writers,
             \/ \E k \in Keys : Store(v, k)
             \/ CreateTemp(v) \/ Write(v) \/ Sync(v) \/ Rename(v) \/ Cleanup(v)
             \/ WriteFails(v) \/ EvictFails(v)
      PROVE  \/ writer'[w] = writer[w]
             \/ writer'[w] = IdleWriter
             \/ /\ {writer[w].pc, writer'[w].pc} \cap {"stat", "remove"} = {}
                /\ writer'[w].found = writer[w].found
  <2>1. CASE v # w
    BY <1>2, <2>1 DEF Store, CreateTemp, Write, Sync, Rename, Cleanup, WriteFails, EvictFails,
                      Goto, Return
  <2>2. CASE v = w
    <3>1. CASE Cleanup(w) \/ EvictFails(w)
      BY <3>1 DEF Cleanup, EvictFails, Return
    <3>2. CASE \/ \E k \in Keys : Store(w, k)
               \/ Write(w) \/ Sync(w) \/ Rename(w) \/ WriteFails(w)
      BY <1>1, <3>2 DEF Store, Write, Sync, Rename, WriteFails, Goto, WriterStates
    <3>3. CASE CreateTemp(w)
      BY <1>1, <3>3 DEF CreateTemp, WriterStates
    <3> QED BY <1>2, <2>2, <3>1, <3>2, <3>3
  <2> QED BY <2>1, <2>2
<1>3. ASSUME NEW v \in Writers \ {w}, List(v) \/ Stat(v) \/ Plan(v) \/ Remove(v)
      PROVE  writer'[w] = writer[w]
  BY <1>3 DEF List, Stat, Plan, Remove, Return
<1>4. CASE Tick \/ PowerLoss \/ (\E p \in Processes : Exit(p)) \/ \E k \in Keys : Flush(k)
  BY <1>4 DEF Tick, PowerLoss, Exit, Flush
<1> QED BY <1>2, <1>3, <1>4 DEF Step

LEMMA KnowsKept ==
    ASSUME NEW w \in Writers, Knows(w), Record, writer'[w] = writer[w]
    PROVE  Knows(w)'
<1>1. CASE writer[w].pc \in {"stat", "remove"}
  <2>1. \A j \in Unchanged(w)' : j \in Unchanged(w) /\ EntryOf(j)' = EntryOf(j)
    BY <1>1, UnchangedLemma
  <2> QED BY <1>1, <2>1 DEF Knows
<1>2. CASE writer[w].pc \notin {"stat", "remove"}
  BY <1>2 DEF Knows
<1> QED BY <1>1, <1>2

LEMMA NextKnown == ASSUME Inv, Known, [Next]_vars PROVE Known'
<1> USE DEF Inv, Types
<1>1. CASE UNCHANGED vars
  BY <1>1 DEF vars, storeVars, Known, Knows, Unchanged, Present, EntryOf
<1>2. CASE Next
  <2> SUFFICES ASSUME NEW w \in Writers PROVE Knows(w)'
    BY DEF Known
  <2>1. Step /\ Record /\ Knows(w) /\ writer[w] \in WriterStates
    BY <1>2 DEF Next, Known
  <2>2. CASE writer'[w] = writer[w]
    BY <2>1, <2>2, KnowsKept
  <2>3. CASE \/ writer'[w] = IdleWriter
             \/ /\ {writer[w].pc, writer'[w].pc} \cap {"stat", "remove"} = {}
                /\ writer'[w].found = writer[w].found
    <3>1. CASE writer'[w] = IdleWriter
      BY <3>1 DEF IdleWriter, Knows
    <3>2. CASE writer'[w] # IdleWriter
      <4>1. writer[w].pc \notin {"stat", "remove"} /\ writer'[w].pc \notin {"stat", "remove"}
            /\ writer'[w].found = writer[w].found
        BY <2>3, <3>2
      <4> QED BY <2>1, <4>1 DEF Knows
    <3> QED BY <3>1, <3>2
  <2>4. CASE List(w)
    <3>1. /\ writer[w].pc = "list" /\ Present' = Present
          /\ writer' = [writer EXCEPT ![w].pc = "stat", ![w].names = Present]
      BY <2>4 DEF List, Present
    <3>2. writer'[w].pc = "stat" /\ writer'[w].names = Present' /\ writer'[w].found = {}
      BY <2>1, <3>1 DEF WriterStates, Knows
    <3> QED BY <3>2 DEF Knows, Unchanged
  <2>5. CASE Stat(w)
    <3>1. PICK k \in writer[w].names :
             writer' = [writer EXCEPT
               ![w].names = @ \ {k},
               ![w].found = IF k \in Present THEN @ \cup {<<records[k].time, k>>} ELSE @]
      BY <2>5 DEF Stat
    <3>2. writer[w].pc = "stat" /\ records' = records
      BY <2>5 DEF Stat
    <3>3. /\ writer'[w].pc = "stat" /\ writer'[w].names = writer[w].names \ {k}
          /\ writer'[w].found = IF k \in Present THEN writer[w].found \cup {EntryOf(k)}
                                ELSE writer[w].found
      BY <2>1, <3>1, <3>2 DEF WriterStates, EntryOf
    <3>4. \A j \in Unchanged(w)' : j \in Unchanged(w) /\ EntryOf(j)' = EntryOf(j)
      BY <2>1, <3>2, <3>3, UnchangedLemma
    <3>5. \A j : EntryOf(j)' = EntryOf(j) /\ EntryOf(j)[2] = j
      BY <3>2 DEF EntryOf
    <3>6. ASSUME NEW e \in writer'[w].found, e[2] \in Unchanged(w)' PROVE e = EntryOf(e[2])'
      BY <2>1, <3>3, <3>4, <3>5, <3>6 DEF Knows
    <3>7. ASSUME NEW j \in Unchanged(w)'
          PROVE  j \in writer'[w].names \/ EntryOf(j)' \in writer'[w].found
      <4>1. j \in Present
        BY <3>4 DEF Unchanged
      <4> QED BY <2>1, <3>2, <3>3, <3>4, <4>1 DEF Knows
    <3> QED BY <3>3, <3>6, <3>7 DEF Knows
  <2>6. CASE Plan(w) /\ writer'[w] # IdleWriter
    <3>1. /\ writer[w].pc = "stat" /\ writer[w].names = {} /\ records' = records
          /\ writer' = [writer EXCEPT ![w].pc = "remove", ![w].found = Excess(@)]
      BY <2>6 DEF Plan, Return
    <3>2. writer'[w].pc = "remove" /\ writer'[w].found = Excess(writer[w].found)
      BY <2>1, <3>1 DEF WriterStates
    <3>3. \A j \in Unchanged(w)' : j \in Unchanged(w) /\ EntryOf(j)' = EntryOf(j)
      BY <2>1, <3>1, <3>2, UnchangedLemma
    <3>4. writer[w].found \in SUBSET ((0 .. MaxTime) \X Keys) /\ writer'[w].found \subseteq writer[w].found
      BY <2>1, <3>2 DEF WriterStates, Excess
    <3>5. ASSUME NEW e \in writer'[w].found, e[2] \in Unchanged(w)' PROVE e = EntryOf(e[2])'
      BY <2>1, <3>3, <3>4, <3>5 DEF Knows
    <3>6. ASSUME NEW j \in Unchanged(w)', NEW e \in writer'[w].found
          PROVE  EntryOf(j)' \in writer'[w].found \/ Before(e, EntryOf(j)')
      <4>1. EntryOf(j) \in writer[w].found /\ EntryOf(j)' = EntryOf(j)
        BY <2>1, <3>1, <3>3 DEF Knows
      <4> QED BY <3>2, <3>4, <4>1, OldestLemma
    <3> QED BY <3>2, <3>5, <3>6 DEF Knows
  <2>7. CASE Remove(w) /\ writer'[w] # IdleWriter
    <3>1. PICK d \in writer[w].found :
             /\ Replace(d[2], NoFile)
             /\ writer' = [writer EXCEPT ![w].found = @ \ {d}]
      BY <2>7 DEF Remove, Return
    <3>2. writer[w].pc = "remove" /\ d[2] \in Keys
      BY <2>1, <2>7 DEF Remove, WriterStates
    <3>3. writer'[w].pc = "remove" /\ writer'[w].found = writer[w].found \ {d}
      BY <2>1, <3>1, <3>2 DEF WriterStates
    <3>4. \A j \in Unchanged(w)' : j \in Unchanged(w) /\ EntryOf(j)' = EntryOf(j)
      BY <2>1, <3>2, <3>3, UnchangedLemma
    <3>5. ASSUME NEW e \in writer'[w].found, e[2] \in Unchanged(w)' PROVE e = EntryOf(e[2])'
      BY <2>1, <3>3, <3>4, <3>5 DEF Knows
    <3>6. ASSUME NEW j \in Unchanged(w)', NEW e \in writer'[w].found
          PROVE  EntryOf(j)' \in writer'[w].found \/ Before(e, EntryOf(j)')
      <4>1. EntryOf(j) \in writer[w].found \/ Before(e, EntryOf(j))
        BY <2>1, <3>2, <3>3, <3>4 DEF Knows
      <4>2. j # d[2]
        <5>1. records'[d[2]] = NoFile
          BY <3>1, <3>2 DEF Replace
        <5> QED BY <5>1 DEF Unchanged, Present
      <4>3. EntryOf(j) # d
        BY <4>2 DEF EntryOf
      <4> QED BY <3>3, <3>4, <4>1, <4>3
    <3> QED BY <3>3, <3>5, <3>6 DEF Knows
  <2> QED BY <2>1, <2>2, <2>3, <2>4, <2>5, <2>6, <2>7, WriterMoves
<1> QED BY <1>1, <1>2

\* EvictsOldestListed: of the records that stayed as an eviction listed them, what
\* it removes is no newer than what it leaves, however stores, other evictions,
\* errors, exits and power losses interleave with its directory calls.
THEOREM EvictionsInOrder == Spec => EvictsOldestListed
<1> DEFINE InOrder ==
       \A w \in Writers, k \in Present :
          Remove(w) /\ records'[k] = NoFile /\ k \notin changed[w] =>
             \A j \in Present \ changed[w] : records[k].time <= records[j].time
<1>1. Init => Known
  <2> SUFFICES ASSUME Init, NEW w \in Writers PROVE Knows(w)
    BY DEF Known
  <2>1. writer[w].pc = "idle" /\ writer[w].found = {}
    BY DEF Init, IdleWriter
  <2> QED BY <2>1 DEF Knows
<1>2. Inv /\ Known /\ [Next]_vars => Known'
  BY NextKnown
<1>3. Inv /\ Known => InOrder
  <2> SUFFICES ASSUME Inv, Known, NEW w \in Writers, NEW k \in Present, Remove(w), records'[k] = NoFile,
                      k \notin changed[w], NEW j \in Present \ changed[w]
               PROVE  records[k].time <= records[j].time
    OBVIOUS
  <2>1. PICK e \in writer[w].found :
           (\A f \in writer[w].found : ~Before(f, e)) /\ Replace(e[2], NoFile)
    BY DEF Remove
  <2>2. e[2] = k
    BY <2>1 DEF Replace, Present
  <2>3. e = EntryOf(k) /\ (EntryOf(j) \in writer[w].found \/ Before(e, EntryOf(j)))
    BY <2>2 DEF Known, Knows, Unchanged, Remove
  <2>4. ~Before(EntryOf(j), EntryOf(k)) \/ Before(EntryOf(k), EntryOf(j))
    BY <2>1, <2>3
  <2>5. records[k] \in Files /\ records[j] \in Files
    BY FilesLemma DEF Inv, Types, Present
  <2>6. records[k].time \in Nat /\ records[j].time \in Nat
    BY <2>5, BoundAssumption DEF Files
  <2> QED BY <2>4, <2>6 DEF Before, EntryOf
<1>4. Inv /\ Known /\ [Next]_vars => [InOrder]_vars
  BY <1>3
<1>5. []Inv /\ []Known /\ [][Next]_vars => [][InOrder]_vars
  BY <1>4, PTL
<1> QED BY <1>1, <1>2, <1>5, InvHolds, PTL DEF Spec, EvictsOldestListed
=============================================================================
