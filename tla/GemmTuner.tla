----------------------------- MODULE GemmTuner ------------------------------
(***************************************************************************)
(* One tuning attempt: tune_gemm_f16_impl of src/empirical_autotune.rs and *)
(* the decision AdaptiveGemm::tune of src/adaptive_jit.rs takes from it.   *)
(* The adaptive caller names a baseline; the full autotuner does not.      *)
(*                                                                         *)
(* A kernel is its candidate.  Lists whose order only settles ties are     *)
(* sets, and a tie is settled either way.  A measurement returns any of    *)
(* Timings for every kernel (RoundRobin shows what a timing is); each CUDA *)
(* call can fail instead.  Fractions are basis points, and times multiples *)
(* of a unit of which a nanosecond, where the code truncates, has Grain.   *)
(***************************************************************************)
EXTENDS Integers, FiniteSets, JitTier

CONSTANTS
    Candidates,      \* emittable tile candidates of the shape
    Code,            \* the kernel code a candidate generates
    Wrong,           \* candidates whose kernel fails the numerical gate
    Warps, Depth,    \* num_warps and cta_k of a candidate
    Rows, Columns,   \* its cta_m and cta_n
    Grain,           \* units of time in a nanosecond
    Timings,         \* timings a measurement may return
    Finalists,       \* FINALISTS
    MaxCandidates,   \* config.max_candidates, bounds the distinct kernels
    MinImprovement,  \* config.min_improvement, in basis points
    Modes,           \* "adaptive" and "full" callers
    NoBaseline, Pending

ASSUME TimingsAssumption == Timings \subseteq [best: Nat, median: Nat, max: Nat]
ASSUME CodeAssumption ==
    \A c, d \in Candidates : Code[c] = Code[d] => (c \in Wrong <=> d \in Wrong)
ASSUME BudgetAssumption == Finalists \in Nat \ {0} /\ MaxCandidates \in Nat \ {0}
ASSUME MarginAssumption == MinImprovement \in 0..9999
ASSUME ModesAssumption == Modes \subseteq {"adaptive", "full"}
ASSUME StructureAssumption ==
    \A F \in {Warps, Depth, Rows, Columns} : F \in [Candidates -> Nat]
ASSUME GrainAssumption == Grain \in Nat \ {0}
ASSUME NoBaselineAssumption == NoBaseline \notin Candidates

VARIABLES
    pc,         \* the next phase of the attempt
    mode,       \* the caller
    baseline,   \* the incumbent, or NoBaseline for the full autotuner
    kernels,    \* the kernels still in the attempt: pool, compiled, verified
    timing,     \* the timing each of them carries
    retried,    \* the second short screen has been spent
    finalists,  \* kernels measured in the final pass
    result      \* the conclusion

tunerVars == <<pc, mode, baseline, kernels, timing, retried, finalists, result>>

----------------------------------------------------------------------------
(* Timings *)

MaxOf(S) == CHOOSE x \in S : \A y \in S : y <= x
MinOf(S) == CHOOSE x \in S : \A y \in S : x <= y
Abs(n) == IF n < 0 THEN -n ELSE n

Valid(t) == 0 < t.best /\ t.best <= t.median /\ t.median <= t.max

\* The tie band of tied_with and clearly_faster, times 10000: this run's own
\* dispersion, and at least 0.25% of the faster time.
Noise(t, u) == MaxOf({10000 * (t.median - t.best), 10000 * (u.median - u.best),
                      25 * MinOf({t.best, u.best})})

\* Timing::tied_with.
TiedWith(t, u) == 10000 * Abs(t.best - u.best) <= Noise(t, u)

\* clearly_faster: beyond the margin and beyond the noise.
ClearlyFaster(base, t) ==
    /\ Valid(base) /\ Valid(t)
    /\ 10000 * (base.best - t.best) >
          MaxOf({base.best * MinImprovement, Noise(base, t)})

\* time < limit * (1 - min_improvement).
Beats(time, limit) == 10000 * time < limit * (10000 - MinImprovement)

Challengers == kernels \ {baseline}

RetainsOnWorst(t) == \A c \in Challengers : ~Beats(t[c].max, t[baseline].best)
\* screen_retains_baseline: no challenger beats the slowest baseline round.
ScreenRetains(t) == \A c \in Challengers : ~Beats(t[c].best, t[baseline].max)

RetryAnyway(t) == ~ScreenRetains(t)
\* screen_needs_retry: only the baseline's dispersion makes one plausible.
ScreenNeedsRetry(t) ==
    /\ ~ScreenRetains(t)
    /\ \A c \in Challengers : ~Beats(t[c].best, t[baseline].best)

----------------------------------------------------------------------------
(* The phases *)

Fail == /\ pc' = "done"
        /\ result' = [tier |-> "TuningFailed", kernel |-> baseline]

\* Sets of candidates that a first-come deduplication by code can keep.
Deduplicated(S) ==
    {K \in SUBSET S :
        /\ \A c, d \in K : Code[c] = Code[d] => c = d
        /\ \A c \in S : \E d \in K : Code[c] = Code[d]
        /\ baseline \in S => baseline \in K}

\* distinct_gemm_candidates: the first MaxCandidates distinct kernels, the
\* baseline among them.
Distinct ==
    {K \in SUBSET Candidates :
        \E D \in Deduplicated(Candidates) :
            /\ K \subseteq D /\ baseline \in K
            /\ Cardinality(K) <= MaxCandidates
            /\ Cardinality(K) < MaxCandidates => K = D}

\* The full autotuner measures every candidate (None, None at the call).
TunerInit ==
    /\ mode \in Modes
    /\ baseline \in IF mode = "adaptive" THEN Candidates ELSE {NoBaseline}
    /\ kernels = Candidates
    /\ pc = "collect"
    /\ timing = [c \in {} |-> 0]
    /\ retried = FALSE
    /\ finalists = {}
    /\ result = Pending

\* The adaptive caller bounds the search; emission can fail.
Collect ==
    /\ pc = "collect"
    /\ \/ /\ mode = "full"
          /\ pc' = "compile"
          /\ UNCHANGED <<kernels, result>>
       \/ /\ mode = "adaptive"
          /\ kernels' \in Distinct
          /\ pc' = "compile"
          /\ UNCHANGED result
       \/ /\ mode = "adaptive"
          /\ Fail
          /\ UNCHANGED kernels
    /\ UNCHANGED <<mode, baseline, timing, retried, finalists>>

\* Compile every candidate, the baseline first, and drop repeated code.  Those
\* the emitter or the driver refuses are not seen at all.
Compile ==
    /\ pc = "compile"
    /\ \E loads \in SUBSET kernels : kernels' \in Deduplicated(loads)
    /\ IF kernels' = {} THEN Fail ELSE pc' = "gate" /\ UNCHANGED result
    /\ UNCHANGED <<mode, baseline, timing, retried, finalists>>

GateWithoutReject ==
    /\ pc = "gate"
    /\ \E answered \in SUBSET kernels : kernels' = answered
    /\ IF kernels' = {} \/ (mode = "adaptive" /\ baseline \notin kernels')
       THEN Fail
       ELSE pc' = (IF mode = "adaptive" THEN "screen" ELSE "warm")
            /\ UNCHANGED result
    /\ UNCHANGED <<mode, baseline, timing, retried, finalists>>
\* The numerical gate: a check can fail to answer, which drops the candidate; a
\* wrong baseline ends the attempt with BaselineIncorrect.
Gate ==
    /\ pc = "gate"
    /\ \E answered \in SUBSET kernels :
          /\ kernels' = answered \ Wrong
          /\ IF baseline \in answered \cap Wrong
             THEN /\ pc' = "done"
                  /\ result' = [tier |-> "RejectedBaseline", kernel |-> baseline]
             ELSE IF kernels' = {} \/ (mode = "adaptive" /\ baseline \notin kernels')
             THEN Fail
             ELSE /\ pc' = (IF mode = "adaptive" THEN "screen" ELSE "warm")
                  /\ UNCHANGED result
    /\ UNCHANGED <<mode, baseline, timing, retried, finalists>>

\* The preliminary screen of the adaptive caller, measured at most twice.
Screen ==
    /\ pc = "screen"
    /\ timing' \in [kernels -> Timings]
    /\ \/ /\ \E c \in kernels : ~Valid(timing'[c])
          /\ Fail
          /\ UNCHANGED retried
       \/ /\ \A c \in kernels : Valid(timing'[c])
          /\ ScreenRetains(timing')
          /\ pc' = "done"
          /\ result' = [tier |-> "RetainedBaseline", kernel |-> baseline]
          /\ UNCHANGED retried
       \/ /\ \A c \in kernels : Valid(timing'[c])
          /\ ~retried /\ ScreenNeedsRetry(timing')
          /\ retried' = TRUE
          /\ UNCHANGED <<pc, result>>
       \/ /\ \A c \in kernels : Valid(timing'[c])
          /\ ~ScreenRetains(timing')
          /\ retried \/ ~ScreenNeedsRetry(timing')
          /\ pc' = "warm"
          /\ UNCHANGED <<retried, result>>
    /\ UNCHANGED <<mode, baseline, kernels, finalists>>

\* final_pass_indices: the FINALISTS fastest, and the baseline in any case.
FinalPass(t) ==
    {F \cup ({baseline} \cap kernels) : F \in
        {F \in SUBSET kernels :
            /\ Cardinality(F) = MinOf({Finalists, Cardinality(kernels)})
            /\ \A c \in F, d \in kernels \ F : t[c].best <= t[d].best}}

\* Clock ramp and the screening pass over every verified kernel.
Warm ==
    /\ pc = "warm"
    /\ timing' \in [kernels -> Timings]
    /\ finalists' \in FinalPass(timing')
    /\ pc' = "final"
    /\ UNCHANGED <<mode, baseline, kernels, retried, result>>

\* The final pass re-measures the finalists; the others keep their time.
Final ==
    /\ pc = "final"
    /\ \E t \in [finalists -> Timings] :
          timing' = [c \in kernels |-> IF c \in finalists THEN t[c] ELSE timing[c]]
    /\ pc' = "decide"
    /\ UNCHANGED <<mode, baseline, kernels, retried, finalists, result>>

Distance(c) == Abs(Warps[c] - 4)

\* (us * 1000.0) as i64 truncates to whole nanoseconds.
Nanoseconds(c) == timing[c].best \div Grain

\* The key of select_winner, least first: four warps, a deep K tile, whole
\* nanoseconds, a tall and then a wide tile.
WinnerKey(c) == <<Distance(c), -Depth[c], Nanoseconds(c), -Rows[c], -Columns[c]>>

KeyBefore(k, l) ==
    \E i \in 1..5 : k[i] < l[i] /\ \A j \in 1..(i - 1) : k[j] = l[j]

\* Among equal keys the first of the ranking by exact times stays.
Precedes(c, d) ==
    \/ KeyBefore(WinnerKey(c), WinnerKey(d))
    \/ WinnerKey(c) = WinnerKey(d) /\ timing[c].best < timing[d].best

Fastest == {c \in kernels : \A d \in kernels : timing[c].best <= timing[d].best}

WinnersByStructure == {w \in kernels : \A c \in kernels : ~Precedes(c, w)}
\* select_winner over the ranking of every kernel, finalist or not.
Winners ==
    {w \in kernels : \E first \in Fastest :
        LET tied == {c \in kernels : TiedWith(timing[c], timing[first])} IN
        w \in tied /\ \A c \in tied : ~Precedes(c, w)}

\* The full autotuner takes the head of the ranking.
TakeWinner ==
    /\ pc = "decide" /\ mode = "full"
    /\ \E w \in Winners : result' = [tier |-> "Tuned", kernel |-> w]
    /\ pc' = "done"
    /\ UNCHANGED <<mode, baseline, kernels, timing, retried, finalists>>

PromotableScreened ==
    {c \in kernels : ClearlyFaster(timing[baseline], timing[c])}
\* The finalists promotion_candidate chooses from.
Promotable == {c \in finalists : ClearlyFaster(timing[baseline], timing[c])}

\* tune: promote the fastest finalist that is clearly faster, or keep the
\* baseline.  Compiling the winner again and the synchronization can fail.
Decide ==
    /\ pc = "decide" /\ mode = "adaptive"
    /\ pc' = "done"
    /\ \/ result' = [tier |-> "TuningFailed", kernel |-> baseline]
       \/ /\ Promotable = {}
          /\ result' = [tier |-> "RetainedBaseline", kernel |-> baseline]
       \/ \E w \in Promotable :
             /\ \A c \in Promotable : timing[w].best <= timing[c].best
             /\ result' = [tier |-> "Tuned", kernel |-> w]
    /\ UNCHANGED <<mode, baseline, kernels, timing, retried, finalists>>

\* A CUDA call of a measurement or of the ramp fails.
CudaError ==
    /\ pc \in {"screen", "warm", "final"}
    /\ Fail
    /\ UNCHANGED <<mode, baseline, kernels, timing, retried, finalists>>

TunerNext == Collect \/ Compile \/ Gate \/ Screen \/ Warm \/ Final \/ TakeWinner
        \/ Decide \/ CudaError

TunerSpec == TunerInit /\ [][TunerNext]_tunerVars
\* The attempt is a loop-free call on the caller's thread.
TunerFairSpec == TunerSpec /\ WF_tunerVars(TunerNext)

----------------------------------------------------------------------------
(* Properties *)

TunerTypeOK ==
    /\ pc \in {"collect", "compile", "gate", "screen", "warm", "final",
              "decide", "done"}
    /\ mode \in Modes
    /\ baseline \in Candidates \cup {NoBaseline}
    /\ kernels \subseteq Candidates
    /\ pc \in {"final", "decide"} => timing \in [kernels -> Timings]
    /\ retried \in BOOLEAN
    /\ finalists \subseteq kernels
    /\ result = Pending \/ result.tier \in Tiers

\* Nothing wrong is ever timed: every kernel past the gate is right, no two
\* have the same code, and the adaptive caller's baseline is one of them.
OnlyVerifiedTimed ==
    pc \in {"screen", "warm", "final", "decide"} =>
        /\ kernels # {} /\ kernels \cap Wrong = {}
        /\ \A c, d \in kernels : Code[c] = Code[d] => c = d
        /\ mode = "adaptive" => baseline \in kernels

\* The baseline takes part in every final pass of the adaptive caller, so the
\* lookup of its finalist result in tune cannot fail.
BaselineRemeasured ==
    pc \in {"final", "decide"} /\ mode = "adaptive" => baseline \in finalists

\* A kernel replaces the baseline only on times of the same final pass that
\* put it outside both kernels' own dispersion and the configured margin.
PromotionEarned ==
    pc = "done" /\ mode = "adaptive" /\ result.tier = "Tuned" =>
        LET w == result.kernel
            gain == 10000 * (timing[baseline].best - timing[w].best) IN
        /\ {w, baseline} \subseteq finalists /\ w # baseline
        /\ gain > timing[baseline].best * MinImprovement
        /\ gain > 10000 * (timing[baseline].median - timing[baseline].best)
        /\ gain > 10000 * (timing[w].median - timing[w].best)
        /\ timing[w].best > 0

\* No resolved gain is dismissed: when an attempt keeps its baseline, no kernel
\* of the pass that decided so, a short screen (the first or the second) or the
\* final pass, is one that promotion_candidate would take on the same times.
\* The screen has a rule of its own, which never overrules that of promotion.
NoGainDismissed ==
    pc = "done" /\ result.tier = "RetainedBaseline" =>
        \A c \in (IF finalists = {} THEN kernels ELSE finalists) \ {baseline} :
            ~ClearlyFaster(timing[baseline], timing[c])

\* A challenger that beats the baseline's best round by the margin in the first
\* short screen always gets the full validation: no second short screen may
\* undo that evidence.
ClearGainValidated ==
    [][pc = "screen" /\ timing' # timing /\ ~retried
       /\ (\A c \in kernels : Valid(timing'[c]))
       /\ (\E c \in kernels \ {baseline} :
             10000 * timing'[c].best <
                timing'[baseline].best * (10000 - MinImprovement))
       => pc' = "warm"]_tunerVars

\* A place over c gained by structure: by warps or depth, or by the tile's
\* dimensions within the same nanosecond.
ByStructure(w, c) ==
    \/ Distance(w) < Distance(c)
    \/ Distance(w) = Distance(c) /\ Depth[w] > Depth[c]
    \/ /\ timing[w].best < timing[c].best + Grain
       /\ Rows[w] > Rows[c] \/ (Rows[w] = Rows[c] /\ Columns[w] > Columns[c])

\* The kernel the full autotuner takes passed the numerical gate, cannot be told
\* from a fastest one by this run, and gains its place over it only by structure.
WinnerSound ==
    pc = "done" /\ mode = "full" /\ result.tier = "Tuned" =>
        LET w == result.kernel IN
        /\ w \notin Wrong
        /\ \E c \in Fastest :
              /\ TiedWith(timing[w], timing[c])
              /\ timing[w].best = timing[c].best \/ ByStructure(w, c)

\* "anything screened out keeps its (coarser) screening time, which is only
\* ever used for reporting": the selected kernel is one that was re-measured.
WinnerIsFinalist ==
    pc = "done" /\ result.tier = "Tuned" => result.kernel \in finalists

\* The attempt implements the contract the runtime builds on.
Contract == INSTANCE TuneContract
ImplementsContract == Contract!Spec
=============================================================================
