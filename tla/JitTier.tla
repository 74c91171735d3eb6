------------------------------ MODULE JitTier ------------------------------
(* The tiers of a resident GEMM shape (src/adaptive_jit.rs) and what one    *)
(* tuning attempt may conclude about it: the contract between the runtime   *)
(* (AdaptiveGemm) and the measurement that it calls (GemmTuner).            *)

Tiers == {"Baseline", "Tuned", "RetainedBaseline", "TuningFailed",
          "RejectedBaseline"}

\* The decisions persist_decision writes to disk.
Measured == {"Tuned", "RetainedBaseline"}

\* An attempt on baseline c, when the candidates in wrong fail the numerical
\* gate: any step can fail; a wrong baseline is rejected and never kept by a
\* measurement; a promoted kernel is another one, and right.
Conclusions(c, candidates, wrong) ==
    [tier: {"TuningFailed"}, kernel: {c}]
    \cup (IF c \in wrong
          THEN [tier: {"RejectedBaseline"}, kernel: {c}]
          ELSE [tier: {"RetainedBaseline"}, kernel: {c}]
               \cup [tier: {"Tuned"}, kernel: candidates \ (wrong \cup {c})])
=============================================================================
