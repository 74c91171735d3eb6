--------------------------- MODULE MCAdaptiveGemm ---------------------------
(* The instance of AdaptiveGemm for TLC. *)
EXTENDS AdaptiveGemm

CONSTANTS s1, s2, s3, c1, c2, i1, i2

\* The baseline c1 of s2 is wrong under both identities (two driver versions, say);
\* under i2 the promoted kernel of s1 is wrong as well.
WrongKernels == {<<i1, s2, c1>>, <<i2, s2, c1>>, <<i2, s1, c2>>}

\* A runtime without a disk cache has three shapes for its two entries, one identity
\* and nothing on disk.  One with a disk cache has two shapes, both identities (the
\* second of them tuning on launch), and what it and other processes store: every
\* genuine record of s1 but one of two that another baseline made, and under i1
\* those of s2.
InScope ==
    IF cfg.cache = "off"
    THEN cfg.id = i1 /\ disk = [k \in Keys |-> NoRecord]
    ELSE /\ cfg.id = i2 => cfg.policy = "OnLaunch"
         /\ resident \cup call.busy \subseteq {s1, s2}
         /\ \A id \in Identities : disk[<<id, s3>>] = NoRecord
         /\ disk[<<i2, s2>>] = NoRecord
         /\ disk[<<i1, s1>>] # [base |-> c2, sel |-> c1, promoted |-> TRUE]

MCInit == Init /\ InScope
MCNext == Next /\ InScope'
\* No step of a call in progress leaves the scope.
MCSpec == MCInit /\ [][MCNext]_vars /\ Fairness
=============================================================================
