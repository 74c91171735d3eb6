------------------------------ MODULE GemmCall ------------------------------
(***************************************************************************)
(* What a call of a CPU matrix product promises its caller, whichever      *)
(* kernel runs it: the caller gives a shape, waits, and gets back an       *)
(* output buffer that holds the product and is otherwise as it was.  The   *)
(* buffer is then left alone until the next call.                          *)
(***************************************************************************)
CONSTANTS
    Shapes,       \* the shapes a caller may ask for
    Pending,      \* the caller's view of a buffer that is being written
    Product(_)    \* the buffer a call of a shape has to leave

VARIABLES busy, shape, out

vars == <<busy, shape, out>>

Init == ~busy /\ shape \in Shapes /\ out = Pending

Call ==
    /\ ~busy
    /\ busy' = TRUE
    /\ shape' \in Shapes
    /\ out' = Pending

Return ==
    /\ busy
    /\ busy' = FALSE
    /\ out' = Product(shape)
    /\ UNCHANGED shape

Next == Call \/ Return

Spec == Init /\ [][Next]_vars /\ WF_vars(Return)
=============================================================================
