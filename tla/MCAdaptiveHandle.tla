-------------------------- MODULE MCAdaptiveHandle --------------------------
(* Instances of AdaptiveHandle for TLC. *)
EXTENDS AdaptiveHandle

CONSTANTS t1, t2, g1, g2, h1, h2
=============================================================================
