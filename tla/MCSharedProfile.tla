-------------------------- MODULE MCSharedProfile ---------------------------
(* Instances of SharedProfile for TLC. *)
EXTENDS SharedProfile, TLC

CONSTANTS t1, t2

\* Two shapes within 2x of each other.  The tile measured at 2 has a K step that
\* does not divide the K of 1.
MCDistance == [s \in Shapes |-> [r \in Shapes |-> IF r = s THEN 100 ELSE 150]]
MCTilesAt == (1 :> {"shallow"}) @@ (2 :> {"deep"})
MCEmittable == {<<"shallow", 1>>, <<"shallow", 2>>, <<"deep", 2>>}

Setting(same, mode1, mode2, calls1, calls2, precisions, requests, faults) ==
    [process |-> (t1 :> 1) @@ (t2 :> IF same THEN 1 ELSE 2),
     mode |-> (1 :> mode1) @@ (2 :> mode2),
     calls |-> (t1 :> calls1) @@ (t2 :> calls2),
     precisions |-> precisions, requests |-> requests, faults |-> faults]

\* Three kernels in two rounds, two in two, one in three, and a single batch.
MCRequests == {<<3, 2>>, <<2, 2>>, <<1, 3>>, <<1, 1>>}

MCSettings ==
    LET one == {<<1, 1>>}
        f16 == {"F16"} IN
    {Setting(FALSE, "measure", "cached", 1, 0, f16,
             {<<3, 2>>, <<2, 2>>, <<1, 3>>}, {}),
     Setting(FALSE, "measure", "cached", 1, 1, f16, one, {"io", "crash"}),
     Setting(TRUE, "measure", "measure", 2, 1, f16, one, {}),
     Setting(FALSE, "measure", "measure", 2, 0, Precisions, one, {"io"}),
     Setting(FALSE, "remeasure", "measure", 1, 2, f16, one, {}),
     Setting(FALSE, "remeasure", "analytic", 1, 1, Precisions, one, {})}
=============================================================================
