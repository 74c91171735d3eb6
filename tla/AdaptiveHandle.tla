--------------------------- MODULE AdaptiveHandle ---------------------------
(***************************************************************************)
(* The C handles of src/adaptive_jit_ffi.rs: which calls reach the runtime *)
(* behind a handle, what a panic leaves behind, and when a handle and its  *)
(* modules go away.  Host threads switch CUDA contexts between calls and   *)
(* the device completes work later.  A call is one step: it stays on its   *)
(* thread, and the host never calls two functions on one handle at a time. *)
(* A call that is refused changes nothing and is a stuttering step.        *)
(***************************************************************************)
EXTENDS Integers

CONSTANTS Threads, Contexts, Handles, NoContext, NoThread

ASSUME NamesAssumption == NoContext \notin Contexts /\ NoThread \notin Threads

VARIABLES
    current,    \* the CUDA context current on every thread
    state,      \* "free", "live" or "closed", per handle
    owner,      \* YAdaptiveJit::owner
    ctx,        \* the context the runtime borrowed
    poisoned,   \* YAdaptiveJit::poisoned
    busy        \* kernels of the handle's modules are enqueued or running

handleVars == <<current, state, owner, ctx, poisoned, busy>>

HandleInit ==
    /\ current \in [Threads -> Contexts \cup {NoContext}]
    /\ state = [h \in Handles |-> "free"]
    /\ owner = [h \in Handles |-> NoThread]
    /\ ctx = [h \in Handles |-> NoContext]
    /\ poisoned = [h \in Handles |-> FALSE]
    /\ busy = [h \in Handles |-> FALSE]

\* AdaptiveGemm::synchronize waits for the context, whoever uses it.
Synchronized(c) == [h \in Handles |-> busy[h] /\ ctx[h] # c]

\* y_adaptive_jit_create_current.
Create(t, h) ==
    /\ state[h] = "free"
    /\ current[t] # NoContext
    /\ state' = [state EXCEPT ![h] = "live"]
    /\ owner' = [owner EXCEPT ![h] = t]
    /\ ctx' = [ctx EXCEPT ![h] = current[t]]
    /\ UNCHANGED <<current, poisoned, busy>>

\* with_handle lets the call of thread t through to the runtime.
Enters(t, h) ==
    /\ state[h] = "live"
    /\ owner[h] = t
    /\ ~poisoned[h]
    /\ current[t] = ctx[h]

\* launch enqueues; prepare, launch and tune_hot may wait for the device first,
\* to evict, to promote or to measure.
Call(t, h) ==
    /\ Enters(t, h)
    /\ \E before \in {busy, Synchronized(ctx[h])} :
          busy' \in {before, [before EXCEPT ![h] = TRUE]}
    /\ UNCHANGED <<current, state, owner, ctx, poisoned>>

\* The closure panics, before or after it enqueued its kernel.
PanicCall(t, h) ==
    /\ Enters(t, h)
    /\ busy' \in {busy, [busy EXCEPT ![h] = TRUE]}
    /\ poisoned' = [poisoned EXCEPT ![h] = TRUE]
    /\ UNCHANGED <<current, state, owner, ctx>>

DestroyUnlessPoisoned(t, h) ==
    /\ Enters(t, h)
    /\ busy' = Synchronized(ctx[h])
    /\ state' = [state EXCEPT ![h] = "closed"]
    /\ UNCHANGED <<current, owner, ctx, poisoned>>
DestroyWithoutWaiting(t, h) ==
    /\ state[h] = "live"
    /\ owner[h] = t
    /\ current[t] = ctx[h]
    /\ state' = [state EXCEPT ![h] = "closed"]
    /\ UNCHANGED <<current, owner, ctx, poisoned, busy>>
\* y_adaptive_jit_destroy: the runtime's own context check and wait, then the
\* modules are released.  A failure leaves the handle live.
Destroy(t, h) ==
    /\ state[h] = "live"
    /\ owner[h] = t
    /\ current[t] = ctx[h]
    /\ busy' = Synchronized(ctx[h])
    /\ state' = [state EXCEPT ![h] = "closed"]
    /\ UNCHANGED <<current, owner, ctx, poisoned>>

\* The host makes another context current.
SetCurrent(t) ==
    /\ \E c \in Contexts \cup {NoContext} : current' = [current EXCEPT ![t] = c]
    /\ UNCHANGED <<state, owner, ctx, poisoned, busy>>

\* The device finishes the work of a handle.
Complete(h) ==
    /\ busy[h]
    /\ busy' = [busy EXCEPT ![h] = FALSE]
    /\ UNCHANGED <<current, state, owner, ctx, poisoned>>

HandleNext ==
    \/ \E t \in Threads, h \in Handles :
          Create(t, h) \/ Call(t, h) \/ PanicCall(t, h) \/ Destroy(t, h)
    \/ \E t \in Threads : SetCurrent(t)
    \/ \E h \in Handles : Complete(h)

HandleSpec == HandleInit /\ [][HandleNext]_handleVars

----------------------------------------------------------------------------
(* Properties *)

\* No kernel outlives its module: a closed handle has nothing on the device,
\* even if its last call panicked after it had enqueued.
ClosedIsIdle == \A h \in Handles : state[h] = "closed" => ~busy[h]

\* The host closes a handle as soon as it may, again and again.
HostCloses == \A h \in Handles : SF_handleVars(\E t \in Threads : Destroy(t, h))
HandleFairSpec == HandleSpec /\ HostCloses

\* "A poisoned handle can be closed": if the owner's context keeps coming back,
\* every handle is closed in the end, whatever panics and switches happen.
EveryHandleCloses ==
    \A h \in Handles :
        (state[h] = "live" /\ []<>(\E t \in Threads : owner[h] = t /\ current[t] = ctx[h]))
            ~> state[h] = "closed"
=============================================================================
