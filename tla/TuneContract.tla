---------------------------- MODULE TuneContract ----------------------------
(* What a tuning attempt promises its caller: one conclusion, in the end.   *)
(* AdaptiveGemm::tune names a baseline and gets one of Conclusions; the     *)
(* full autotuner names none and gets a right kernel or a failure.          *)
EXTENDS JitTier

CONSTANTS Candidates, Wrong, NoBaseline, Pending

VARIABLES baseline, result

Init == baseline \in Candidates \cup {NoBaseline} /\ result = Pending

Outcomes ==
    IF baseline = NoBaseline
    THEN [tier: {"TuningFailed"}, kernel: {NoBaseline}]
         \cup [tier: {"Tuned"}, kernel: Candidates \ Wrong]
    ELSE Conclusions(baseline, Candidates, Wrong)

Conclude ==
    /\ result = Pending
    /\ result' \in Outcomes
    /\ UNCHANGED baseline

Spec == /\ Init /\ [][Conclude]_<<baseline, result>>
        /\ WF_<<baseline, result>>(Conclude)
=============================================================================
