-------------------------- MODULE MCDecisionCache --------------------------
(* Instances of DecisionCache for TLC. *)
EXTENDS DecisionCache, TLC

CONSTANTS w1, w2, p1, p2

\* Two runtimes of one process, and two processes.
OneProcess == (w1 :> p1) @@ (w2 :> p1)
TwoProcesses == (w1 :> p1) @@ (w2 :> p2)

Setting(process, faults, maxTime) ==
    [process |-> process, faults |-> faults, maxTime |-> maxTime]

\* Threads of a process whose calls fail and which dies or loses power, its id
\* used again; and processes that prune while the file-system clock runs.
Storing == {Setting(OneProcess, {"io", "exit", "power"}, 0),
            Setting(TwoProcesses, {}, MaxTime)}
=============================================================================
