--------------------------- MODULE GemmPoolProofs ---------------------------
(***************************************************************************)
(* Proofs about GemmPool, for any number of threads, tile and threshold    *)
(* constants and shapes.  The first part is about generations: the task    *)
(* records and the caller's buffer change hands only while no worker has   *)
(* anything to do with a call, since a worker has published the current    *)
(* generation only if it has run it and rests.  The second is about the    *)
(* team of a call: its barrier counts exactly the threads that come to it, *)
(* and the shared panel holds the block that is multiplied.  The third is  *)
(* about the product: the slices of a call share it out, every cell of a   *)
(* slice holds exactly the terms that its thread has got to, and so a call *)
(* keeps the contract of GemmCall.                                         *)
(***************************************************************************)
EXTENDS GemmPool, FiniteSetTheorems, WellFoundedInduction, TLAPS

Types ==
    /\ ceiling \in 1 .. MAX_THREADS
    /\ at \in [Threads -> Places]
    /\ poolN \in 0 .. MAX_THREADS
    /\ gen \in Nat
    /\ done \in [Threads -> Nat]
    /\ last \in [Threads -> Nat]
    /\ wgen \in [Threads -> Nat]
    /\ arrived \subseteq Threads

\* Worker w and the generation.
WorkerState(w) ==
    /\ w \notin Interval(1, poolN) => at[w] = "absent"
    /\ done[w] <= gen
    /\ done[w] = gen => at[w] \in Resting /\ last[w] = gen
    /\ at[w] \notin Resting => wgen[w] = gen
    /\ at[w] \notin Resting \cup {"load"} => last[w] = gen

AllDone == \A w \in Interval(1, poolN) : done[w] = gen

\* Where thread 0 is outside of the parallel part of a call.
Serial == {"idle", "guard", "entry", "publish"}

CallerState ==
    /\ at[0] \notin Resting \cup {"load"}
    /\ at[0] \in Serial => AllDone
    /\ at[0] \notin Serial \cup {"join"} /\ task[0].solo => AllDone
    /\ at[0] = "publish" => poolN > 0 /\ ~slot[0].solo
    /\ poolN = 0 => gen = 0

Inv ==
    /\ Types
    /\ \A w \in Workers : WorkerState(w)
    /\ CallerState
    /\ task = [t \in Threads |-> task[t]]
    /\ \A t \in arrived : at[t] \in Meets

LEMMA ThreadsLemma ==
    /\ 0 \in Threads /\ Workers = Threads \ {0}
    /\ \A n \in 0 .. MAX_THREADS : Interval(1, n) \subseteq Workers
BY ThreadsAssumption DEF Threads, Workers, Interval

LEMMA InitInv == Init => Inv
<1> SUFFICES ASSUME Init PROVE Inv
  OBVIOUS
<1>1. Types
  BY ThreadsAssumption DEF Init, Types, Places
<1>2. \A w \in Workers : WorkerState(w)
  BY ThreadsLemma DEF Init, WorkerState, Resting
<1>3. CallerState
  BY ThreadsLemma DEF Init, CallerState, Serial, Resting, AllDone, Interval
<1> QED BY <1>1, <1>2, <1>3 DEF Init, Inv

\* A step of thread 0 that leaves workers, pool and generation alone.
LEMMA SerialStep ==
    ASSUME Inv, NEW where \in Places, at' = [at EXCEPT ![0] = where],
           at[0] \in {"idle", "guard", "entry"} \/ AllDone, at[0] \notin Meets,
           where \in {"idle", "guard", "entry", "enter"},
           task' = task \/ \E x : task' = [task EXCEPT ![0] = x],
           UNCHANGED <<ceiling, poolN, slot, gen, done, last, wgen, arrived>>
    PROVE  Inv'
<1> USE DEF Inv, Types
<1>1. Types'
  OBVIOUS
<1>2. \A w \in Workers : WorkerState(w)'
  BY ThreadsLemma DEF WorkerState
<1>3. CallerState'
  BY ThreadsLemma DEF CallerState, AllDone, Serial, Resting
<1>4. \A t \in arrived' : at'[t] \in Meets
  BY ThreadsLemma
<1>5. (task = [t \in Threads |-> task[t]])'
  OBVIOUS
<1> QED BY <1>1, <1>2, <1>3, <1>4, <1>5

\* Call, Tiny, Solo and the like: thread 0 alone, in the serial part.
LEMMA CallerInv ==
    ASSUME Inv, (\E s \in Shapes : Call(s)) \/ GuardShape \/ Tiny \/ Solo \/ NoMemory \/ Join
    PROVE  Inv'
<1>1. PICK where \in {"idle", "guard", "entry", "enter"} : at' = [at EXCEPT ![0] = where]
  BY DEF Call, GuardShape, Tiny, Solo, NoMemory, Join, GoTo
<1>2. at[0] \in {"idle", "guard", "entry"} \/ (AllDone /\ at[0] = "join")
  BY DEF Call, GuardShape, Tiny, Solo, NoMemory, Join, AllDone
<1>3. task' = task \/ \E x : task' = [task EXCEPT ![0] = x]
  BY DEF Call, GuardShape, Tiny, Solo, NoMemory, Join
<1>4. UNCHANGED <<ceiling, poolN, slot, gen, done, last, wgen, arrived>>
  BY DEF Call, GuardShape, Tiny, Solo, NoMemory, Join, GoTo, call, pool
<1>5. where \in Places /\ at[0] \notin Meets
  BY <1>2 DEF Places, Meets
<1> QED BY <1>1, <1>2, <1>3, <1>4, <1>5, SerialStep

\* The records are filled: the pool may start, and its workers are as good as new.
LEMMA DispatchInv == ASSUME Inv, Dispatch PROVE Inv'
<1> USE DEF Inv, Types
<1>1. PICK cold \in BOOLEAN, missing \in SUBSET Workers :
         LET g == Grid(shape, ThreadsFor(shape, cold))
             n == IF poolN = 0 THEN ceiling ELSE poolN
         IN  /\ poolN' = n
             /\ slot' = [t \in Threads |-> IF t < n THEN TaskFor(shape, g, t) ELSE slot[t]]
             /\ at' = [t \in Threads |->
                          IF t = 0 THEN "publish"
                          ELSE IF poolN = 0 /\ t < n /\ t \notin missing THEN "wait"
                          ELSE at[t]]
  BY DEF Dispatch
<1>2. /\ at[0] = "entry"
      /\ UNCHANGED <<ceiling, gen, done, last, wgen, arrived, task>>
  BY DEF Dispatch, call, signal
<1>3. poolN' \in 1 .. MAX_THREADS
  BY <1>1
<1>4. at'[0] = "publish" /\ at' \in [Threads -> Places]
  BY <1>1, ThreadsLemma DEF Places
<1>5. ~slot'[0].solo
  <2>1. 0 < (IF poolN = 0 THEN ceiling ELSE poolN)
    OBVIOUS
  <2>2. slot'[0] = TaskFor(shape, Grid(shape, ThreadsFor(shape, cold)), 0)
    BY <1>1, <2>1, ThreadsLemma
  <2> QED BY <2>2 DEF TaskFor
<1>6. AllDone /\ (poolN = 0 => gen = 0)
  BY <1>2 DEF CallerState, Serial
<1>7. AllDone'
  <2>1. CASE poolN = 0
    <3> SUFFICES ASSUME NEW w \in Interval(1, poolN') PROVE done[w] = gen
      BY <1>2 DEF AllDone
    <3>1. w \in Workers
      BY <1>3, ThreadsLemma
    <3>2. done[w] \in Nat /\ done[w] <= gen
      BY <3>1, ThreadsLemma DEF WorkerState
    <3> QED BY <1>6, <2>1, <3>2
  <2>2. CASE poolN # 0
    BY <1>1, <1>2, <1>6, <2>2 DEF AllDone
  <2> QED BY <2>1, <2>2
<1>8. \A w \in Workers : WorkerState(w)'
  <2> SUFFICES ASSUME NEW w \in Workers PROVE WorkerState(w)'
    OBVIOUS
  <2>1. \/ at'[w] = at[w]
        \/ poolN = 0 /\ at'[w] = "wait" /\ w \in Interval(1, poolN')
    BY <1>1, ThreadsLemma DEF Interval, Workers, Threads
  <2>2. CASE at'[w] = at[w]
    <3>1. w \notin Interval(1, poolN') => w \notin Interval(1, poolN)
      BY <1>1 DEF Interval
    <3> QED BY <1>2, <2>2, <3>1 DEF WorkerState
  <2>3. CASE poolN = 0 /\ at'[w] = "wait" /\ w \in Interval(1, poolN')
    <3>1. last[w] = gen
      \* nobody has run anything yet
      <4>1. done[w] = gen
        BY <1>6, <2>3, ThreadsLemma DEF WorkerState
      <4> QED BY <4>1 DEF WorkerState
    <3> QED BY <1>2, <2>3, <3>1, ThreadsLemma DEF WorkerState, Resting
  <2> QED BY <2>1, <2>2, <2>3
<1>9. \A t \in arrived' : at'[t] \in Meets
  <2> SUFFICES ASSUME NEW t \in arrived PROVE at'[t] = at[t]
    BY <1>2
  <2>1. t \in Workers /\ at[t] \notin Resting
    BY <1>2, ThreadsLemma DEF Meets, Resting
  <2>2. poolN # 0
    BY <1>6, <2>1, ThreadsLemma DEF WorkerState
  <2> QED BY <1>1, <2>1, <2>2, ThreadsLemma
<1> QED BY <1>2, <1>3, <1>4, <1>5, <1>7, <1>8, <1>9
        DEF CallerState, Serial, Resting
\* A new generation: nobody has run it.
LEMMA PublishInv == ASSUME Inv, Publish PROVE Inv'
<1> USE DEF Inv, Types
<1>1. /\ at[0] = "publish" /\ gen' = gen + 1
      /\ task' = [task EXCEPT ![0] = slot[0]]
      /\ at' = [t \in Threads |-> IF t = 0 THEN "enter"
                                  ELSE IF at[t] = "asleep" THEN "woken" ELSE at[t]]
      /\ UNCHANGED <<ceiling, poolN, slot, done, last, wgen, arrived>>
  BY DEF Publish, call, pool
<1>2. AllDone /\ poolN > 0 /\ ~slot[0].solo
  BY <1>1 DEF CallerState, Serial
<1>3. Types'
  BY <1>1 DEF Places
<1>4. \A w \in Workers : WorkerState(w)'
  <2> SUFFICES ASSUME NEW w \in Workers PROVE WorkerState(w)'
    OBVIOUS
  <2>1. done[w] <= gen /\ done[w] \in Nat
    BY ThreadsLemma DEF WorkerState
  <2>2. at'[w] \in Resting
    <3>1. at[w] \in Resting
      BY <1>2 DEF AllDone, WorkerState, Resting
    <3> QED BY <1>1, <3>1, ThreadsLemma DEF Resting
  <2>3. w \notin Interval(1, poolN) => at'[w] = "absent"
    BY <1>1, ThreadsLemma DEF WorkerState
  <2>4. done'[w] <= gen' /\ done'[w] # gen'
    BY <1>1, <2>1
  <2> QED BY <1>1, <2>2, <2>3, <2>4 DEF WorkerState
<1>5. CallerState'
  BY <1>1, <1>2, ThreadsLemma DEF CallerState, Serial, Resting
<1>6. (task = [t \in Threads |-> task[t]])'
  BY <1>1
<1>7. \A t \in arrived' : at'[t] \in Meets
  BY <1>1, ThreadsLemma DEF Meets
<1> QED BY <1>3, <1>4, <1>5, <1>6, <1>7
\* A step of one worker.
LEMMA WorkerStep ==
    ASSUME Inv, NEW w \in Workers, NEW where \in Places, at' = [at EXCEPT ![w] = where],
           w \notin arrived, WorkerState(w)',
           done' \in [Threads -> Nat], last' \in [Threads -> Nat], wgen' \in [Threads -> Nat],
           \A u \in Threads \ {w} : done'[u] = done[u] /\ last'[u] = last[u] /\ wgen'[u] = wgen[u],
           done'[w] \in {done[w], gen},
           task' = task \/ \E x : task' = [task EXCEPT ![w] = x],
           UNCHANGED <<ceiling, poolN, slot, gen, arrived>>
    PROVE  Inv'
<1> USE DEF Inv, Types
<1>1. Types'
  OBVIOUS
<1>2. \A u \in Workers : WorkerState(u)'
  BY ThreadsLemma DEF WorkerState
<1>3. AllDone => AllDone'
  BY ThreadsLemma DEF AllDone
<1>4. at'[0] = at[0] /\ task'[0] = task[0]
  BY ThreadsLemma
<1>5. CallerState'
  BY <1>3, <1>4 DEF CallerState
<1>6. \A t \in arrived' : at'[t] \in Meets
  BY ThreadsLemma
<1> QED BY <1>1, <1>2, <1>5, <1>6

LEMMA WorkerInv ==
    ASSUME Inv, NEW w \in Workers, SeeWork(w) \/ Load(w) \/ Sleep(w) \/ SpuriousWakeup(w)
    PROVE  Inv'
<1> USE DEF Inv, Types
<1>1. /\ w \in Threads /\ w \notin arrived /\ WorkerState(w)
      /\ UNCHANGED <<ceiling, poolN, slot, gen, arrived, done>>
      /\ task' = task \/ \E x : task' = [task EXCEPT ![w] = x]
  BY ThreadsLemma DEF SeeWork, Load, Sleep, SpuriousWakeup, GoTo, call, pool, Meets
<1>2. CASE SeeWork(w)
  <2>1. /\ wgen' = [wgen EXCEPT ![w] = gen] /\ at' = [at EXCEPT ![w] = "load"]
        /\ UNCHANGED last /\ gen # last[w] /\ at[w] \in {"wait", "woken"}
    BY <1>2 DEF SeeWork, GoTo
  <2>2. WorkerState(w)'
    BY <1>1, <2>1 DEF WorkerState, Resting
  <2> QED BY <1>1, <2>1, <2>2, WorkerStep DEF Places
<1>3. CASE Load(w)
  <2>1. /\ last' = [last EXCEPT ![w] = wgen[w]] /\ at' = [at EXCEPT ![w] = "enter"]
        /\ UNCHANGED wgen /\ at[w] = "load"
    BY <1>3 DEF Load, GoTo
  <2>2. WorkerState(w)'
    BY <1>1, <2>1 DEF WorkerState, Resting
  <2> QED BY <1>1, <2>1, <2>2, WorkerStep DEF Places
<1>4. CASE Sleep(w) \/ SpuriousWakeup(w)
  <2>1. PICK where \in {"asleep", "woken"} : at' = [at EXCEPT ![w] = where]
    BY <1>4 DEF Sleep, SpuriousWakeup, GoTo
  <2>2. UNCHANGED <<last, wgen>> /\ at[w] \in Resting \ {"absent"}
    BY <1>4 DEF Sleep, SpuriousWakeup, Resting
  <2>3. WorkerState(w)'
    BY <1>1, <2>1, <2>2 DEF WorkerState, Resting
  <2> QED BY <1>1, <2>1, <2>2, <2>3, WorkerStep DEF Places
<1> QED BY <1>2, <1>3, <1>4

Running == {"enter", "small", "sum", "reduce", "pack", "micro", "next"}

\* A thread inside its slice goes on, or finishes and publishes the generation.
LEMMA RunStep ==
    ASSUME Inv, NEW t \in Threads, at[t] \in Running,
           Finish(t) \/ \E where \in Running \cup Meets : GoTo(t, where),
           UNCHANGED <<ceiling, poolN, slot, gen, last, wgen, arrived, task>>
    PROVE  Inv'
<1> USE DEF Inv, Types
<1>1. t \notin arrived /\ Running \cup Meets \subseteq Places
  BY DEF Running, Meets, Places
<1>2. CASE t = 0
  <2>1. AllDone' = AllDone /\ UNCHANGED done
    BY <1>2 DEF AllDone, Finish, GoTo
  <2>2. PICK where \in Running \cup Meets \cup {"idle", "join"} :
           /\ at' = [at EXCEPT ![0] = where]
           /\ where = "idle" => task[0].solo
    <3>1. CASE Finish(0) /\ task[0].solo
      BY <3>1 DEF Finish
    <3>2. CASE Finish(0) /\ ~task[0].solo
      BY <3>2 DEF Finish
    <3>3. CASE \E where \in Running \cup Meets : GoTo(0, where)
      BY <3>3 DEF GoTo, Running, Meets
    <3> QED BY <1>2, <3>1, <3>2, <3>3
  <2>3. at[0] \notin Serial \cup {"join"}
    BY <1>2 DEF Serial, Running
  <2>4. Types'
    BY <1>1, <2>1, <2>2 DEF Places
  <2>5. \A w \in Workers : WorkerState(w)'
    BY <2>1, <2>2, ThreadsLemma DEF WorkerState
  <2>6. CallerState'
    BY <2>1, <2>2, <2>3, ThreadsLemma DEF CallerState, Serial, Running, Meets, Resting
  <2>7. \A u \in arrived' : at'[u] \in Meets
    BY <1>1, <1>2, <2>2
  <2> QED BY <2>4, <2>5, <2>6, <2>7
<1>3. CASE t # 0
  <2>1. t \in Workers /\ WorkerState(t)
    BY <1>3, ThreadsLemma
  <2>2. at[t] \notin Resting \cup {"load"}
    BY DEF Running, Resting
  <2>3. CASE Finish(t)
    <3>1. at' = [at EXCEPT ![t] = "wait"] /\ done' = [done EXCEPT ![t] = wgen[t]]
      BY <1>3, <2>3 DEF Finish
    <3>2. WorkerState(t)'
      BY <2>1, <2>2, <3>1 DEF WorkerState, Resting
    <3> QED BY <1>1, <2>1, <2>2, <3>1, <3>2, WorkerStep DEF Places, WorkerState
  <2>4. CASE \E where \in Running \cup Meets : GoTo(t, where)
    <3>1. PICK where \in Running \cup Meets : GoTo(t, where)
      BY <2>4
    <3>2. WorkerState(t)'
      BY <2>1, <2>2, <3>1 DEF WorkerState, Resting, GoTo, Running, Meets
    <3> QED BY <1>1, <2>1, <3>1, <3>2, WorkerStep DEF GoTo
  <2> QED BY <2>3, <2>4
<1> QED BY <1>2, <1>3
LEMMA RunInv ==
    ASSUME Inv, NEW t \in Threads,
           Enter(t) \/ SmallM(t) \/ SumBand(t) \/ Reduce(t) \/ PackB(t) \/ Micro(t) \/ Advance(t)
    PROVE  Inv'
<1>1. at[t] \in Running
  BY DEF Enter, SmallM, SumBand, Reduce, PackB, Micro, Advance, Running
<1>2. UNCHANGED <<ceiling, poolN, slot, gen, last, wgen, arrived, task>>
  BY DEF Enter, SmallM, SumBand, Reduce, PackB, Micro, Advance, call, pool
<1>3. Finish(t) \/ \E where \in Running \cup Meets : GoTo(t, where)
  <2>1. CASE Enter(t)
    BY <2>1 DEF Enter, Running
  <2>2. CASE SmallM(t) \/ Reduce(t)
    BY <2>2 DEF SmallM, Reduce
  <2>3. CASE SumBand(t) \/ PackB(t)
    BY <2>3 DEF SumBand, PackB, Running, Meets
  <2>4. CASE Micro(t)
    BY <2>4 DEF Micro, AfterReading, Running, Meets
  <2>5. CASE Advance(t)
    BY <2>5 DEF Advance, Running
  <2> QED BY <2>1, <2>2, <2>3, <2>4, <2>5
<1> QED BY <1>1, <1>2, <1>3, RunStep

\* The barrier only moves threads inside their slices.
LEMMA MeetInv == ASSUME Inv, NEW t \in Threads, Meet(t) PROVE Inv'
<1> USE DEF Inv, Types
<1> DEFINE waiting == arrived \cup {t}
<1>1. /\ UNCHANGED <<ceiling, poolN, slot, gen, done, last, wgen, task>>
      /\ \A u \in waiting : u \in Threads /\ at[u] \in Meets
      /\ \/ arrived' = {} /\ at' = [u \in Threads |-> IF u \in waiting THEN After(at[u]) ELSE at[u]]
         \/ arrived' = waiting /\ UNCHANGED at
  BY DEF Meet, call, pool, signal, Meets
<1>2. \A x \in Meets : After(x) \in {"reduce", "micro", "next"}
  BY DEF Meets, After
<1>3. /\ at' \in [Threads -> Places]
      /\ \A u \in Threads : at'[u] # at[u] =>
            at[u] \in Meets /\ at'[u] \in {"reduce", "micro", "next"}
  BY <1>1, <1>2 DEF Places
<1>4. \A w \in Workers : WorkerState(w)'
  BY <1>1, <1>3, ThreadsLemma DEF WorkerState, Resting, Meets
<1>5. CallerState'
  <2>1. at'[0] # at[0] => at[0] \in Meets /\ at'[0] \in {"reduce", "micro", "next"}
    BY <1>3, ThreadsLemma
  <2> QED BY <1>1, <2>1 DEF CallerState, AllDone, Serial, Resting, Meets
<1>6. \A u \in arrived' : at'[u] \in Meets
  BY <1>1
<1> QED BY <1>1, <1>3, <1>4, <1>5, <1>6

LEMMA NextInv == Inv /\ [Next]_vars => Inv'
<1> SUFFICES ASSUME Inv, [Next]_vars PROVE Inv'
  OBVIOUS
<1>1. ASSUME NEW s \in Shapes, Call(s) PROVE Inv'
  BY <1>1, CallerInv
<1>2. CASE Caller
  BY <1>2, CallerInv, DispatchInv, PublishInv DEF Caller
<1>3. ASSUME NEW w \in Workers, Worker(w) \/ Sleep(w) \/ SpuriousWakeup(w) PROVE Inv'
  BY <1>3, WorkerInv DEF Worker
<1>4. ASSUME NEW t \in Threads, Run(t) PROVE Inv'
  BY <1>4, RunInv, MeetInv DEF Run
<1>5. CASE UNCHANGED vars
  BY <1>5 DEF vars, call, pool, signal, Inv, Types, WorkerState, CallerState, AllDone
<1> QED BY <1>1, <1>2, <1>3, <1>4, <1>5 DEF Next

\* Outside of the parallel part every worker has run the generation and rests.
LEMMA DoneIsResting ==
    ASSUME Inv, AllDone, NEW w \in Interval(1, poolN)
    PROVE  at[w] \in Resting /\ last[w] = gen
BY ThreadsLemma DEF Inv, Types, WorkerState, AllDone

\* Only Dispatch writes the records, and only thread 0 ends a call.
LEMMA NextOwned ==
    ASSUME Inv, [Next]_vars, slot' # slot \/ (Busy /\ ~Busy')
    PROVE  AllDone
<1> USE DEF Inv, Types
<1>1. CASE slot' # slot
  <2>1. Dispatch
    BY <1>1 DEF Next, Call, Caller, GuardShape, Tiny, Solo, NoMemory, Publish, Join,
                Worker, SeeWork, Load, Sleep, SpuriousWakeup, Run, Enter, SmallM, SumBand, Reduce,
                PackB, Micro, Advance, Meet, vars, pool
  <2> QED BY <2>1 DEF Dispatch, CallerState, Serial
<1>2. CASE at[0] # "idle" /\ at'[0] = "idle"
  <2>1. CASE GuardShape \/ Tiny
    BY <2>1 DEF GuardShape, Tiny, CallerState, Serial
  <2>2. CASE Join
    BY <2>2 DEF Join, AllDone
  <2>3. ASSUME NEW t \in Threads, Run(t) PROVE AllDone
    <3>1. CASE Meet(t)
      <4>1. \A x \in Meets : After(x) # "idle"
        BY DEF Meets, After
      <4> QED BY <1>2, <3>1, <4>1, ThreadsLemma DEF Meet, Meets
    <3>2. CASE ~Meet(t)
      <4>1. at[t] \in Running
        BY <2>3, <3>2 DEF Run, Enter, SmallM, SumBand, Reduce, PackB, Micro, Advance, Running
      <4>2. t = 0
        BY <1>2, <2>3, <3>2, ThreadsLemma
           DEF Run, Enter, SmallM, SumBand, Reduce, PackB, Micro, Advance, Finish, GoTo
      <4>3. Finish(0)
        BY <1>2, <2>3, <3>2, <4>2, ThreadsLemma
           DEF Run, Enter, SmallM, SumBand, Reduce, PackB, Micro, AfterReading, Advance, GoTo
      <4>4. task[0].solo
        BY <1>2, <4>3, ThreadsLemma DEF Finish
      <4> QED BY <4>1, <4>2, <4>4 DEF CallerState, Serial, Running
    <3> QED BY <3>1, <3>2
  <2>4. CASE (\E s \in Shapes : Call(s)) \/ Solo \/ NoMemory \/ Dispatch \/ Publish
    BY <1>2, <2>4, ThreadsLemma DEF Call, Solo, NoMemory, Dispatch, Publish, GoTo
  <2>5. ASSUME NEW w \in Workers, Worker(w) \/ Sleep(w) \/ SpuriousWakeup(w) PROVE FALSE
    BY <1>2, <2>5, ThreadsLemma DEF Worker, SeeWork, Load, Sleep, SpuriousWakeup, GoTo
  <2>6. CASE UNCHANGED vars
    BY <1>2, <2>6 DEF vars
  <2> QED BY <2>1, <2>2, <2>3, <2>4, <2>5, <2>6 DEF Next, Caller
<1> QED BY <1>1, <1>2 DEF Busy

\* The dispatcher of the pool overwrites the records, and gives the caller its
\* buffer back, only when every worker of the pool has run the generation and
\* rests (emit_pool_dispatch and __y_pool_worker in src/cpu_gemm.rs).
THEOREM RecordsChangeAtRest == Spec => SlotsOwned
<1>1. Inv /\ [Next]_vars => [slot' # slot \/ (Busy /\ ~Busy') =>
                               \A w \in Interval(1, poolN) : at[w] \in Resting /\ last[w] = gen]_vars
  BY NextOwned, DoneIsResting
<1>2. Spec => []Inv
  BY InitInv, NextInv, PTL DEF Spec
<1> QED BY <1>1, <1>2, PTL DEF Spec, SlotsOwned
----------------------------------------------------------------------------
(* The team of a call.  Thread 0 is inside the parallel part of a call from *)
(* the moment the records are filled; the team are the threads the records *)
(* count.  With a shared panel they go through the blocks in step: either   *)
(* all of them multiply one block, whose panels are all packed, or none     *)
(* multiplies and all that have one are on their way to the same block.     *)

Parallel == at[0] = "publish" \/ (at[0] \notin Serial /\ ~task[0].solo)

\* Inside a slice.
Inside == {"enter", "small", "sum", "reduce", "pack", "micro", "next",
           "meet_reduce", "meet_micro", "meet_next"}

\* The record of slot t agrees with that of thread 0, and one past the grid is empty.
Agrees(t) ==
    LET T == slot[t] IN
    /\ ~T.solo /\ T.tid = t
    /\ T.shared = slot[0].shared /\ T.ksplit = slot[0].ksplit
    /\ T.nthr = slot[0].nthr /\ T.s = slot[0].s
    /\ ~(T.shared /\ T.ksplit)
    /\ T.shared /\ t < T.nthr => T.n0 = slot[0].n0 /\ T.n1 = slot[0].n1
    /\ T.shared \/ T.ksplit => /\ T.nthr = barrierN /\ barrierN \in Nat
                               /\ t >= T.nthr => T.m0 >= T.m1
SlotsFilled == poolN > 0 /\ \A t \in Interval(0, poolN) : Agrees(t)

\* What thread t runs, and where that lets it be.
Alone(t) == t = 0 /\ task[0].solo
Runs(t) ==
    /\ IF Alone(t) THEN ~task[t].shared /\ ~task[t].ksplit ELSE task[t] = slot[t]
    /\ at[t] \in {"sum", "meet_reduce", "reduce"} => task[t].ksplit
    /\ at[t] \in {"meet_micro", "meet_next"} => task[t].shared
    /\ at[t] # "enter" /\ (task[t].shared \/ task[t].ksplit) => t < task[t].nthr
Records ==
    /\ shape \in Shapes
    /\ Parallel => SlotsFilled
    /\ at[0] = "join" => ~task[0].solo
    /\ \A t \in Threads : at[t] \in Inside => Runs(t)
    /\ pos = [t \in Threads |-> [jc |-> pos[t].jc, pc |-> pos[t].pc, ic |-> pos[t].ic]]
    /\ sharedB = [i \in 0 .. NC - 1 |-> sharedB[i]]

Team == {t \in Threads : t < slot[0].nthr}
Panels == 0 .. NC - 1
Own(t) == {i \in Panels : i % slot[0].nthr = t}

\* The block a thread is at, and the one it turns to.
Block(t) == <<pos[t].jc, pos[t].pc>>
First == <<slot[0].n0, 0>>
Following(T, p) ==
    IF p.pc + KcEff(T, p) < T.s.K THEN <<p.jc, p.pc + KcEff(T, p)>>
    ELSE IF p.jc + NC < T.n1 THEN <<p.jc + NC, 0>> ELSE <<>>

NotStarted(t) ==
    IF t = 0 THEN at[0] \in {"publish", "enter"}
    ELSE at[t] \in {"load", "enter"} \/ (at[t] \in Resting /\ last[t] # gen)
Turning(t) == at[t] \in {"pack", "meet_micro", "next"} \/ NotStarted(t)
Multiplying(t) == at[t] \in {"micro", "meet_next"}
Target(t) == IF NotStarted(t) THEN First
             ELSE IF at[t] = "next" THEN Following(task[t], pos[t]) ELSE Block(t)
Packed(t, panels) ==
    \A i \in panels : i * NR < BlockN(task[t], pos[t]) => sharedB[i] = BlockId(pos[t])

InStep ==
    \A t \in Team :
        /\ Multiplying(t) => Packed(t, Panels)
        /\ at[t] = "meet_micro" => Packed(t, Own(t))
        /\ \A u \in Team :
             /\ Multiplying(t) => Multiplying(u) /\ Block(u) = Block(t)
             /\ Turning(t) /\ Turning(u) => Target(t) = Target(u)
TeamInv == Records /\ (Parallel /\ slot[0].shared => InStep)

LEMMA ThreadsForTypes ==
    ASSUME ceiling \in 1 .. MAX_THREADS, NEW s \in Shapes, NEW cold \in BOOLEAN
    PROVE  ThreadsFor(s, cold) \in Nat \ {0}
<1>1. s.M \in Int /\ s.N \in Int /\ s.K \in Int
  BY ShapesAssumption
<1>2. s.M * s.N \in Int
  BY <1>1
<1>3. Work(s) \in Int
  BY <1>1, <1>2 DEF Work
<1>4. Work(s) \div WORK_PER_THREAD \in Int
  BY <1>3, TileAssumption
<1>5. ceiling \in Int
  BY ThreadsAssumption
<1> QED BY <1>4, <1>5 DEF ThreadsFor, AtLeast1, imin, imax

\* Where the threads of a call meet at the barrier, the grid is one-dimensional.
LEMMA GridLemma ==
    ASSUME NEW s \in Shapes, NEW nt0 \in Nat \ {0}
    PROVE  LET g == Grid(s, nt0) IN
           /\ g.share \in BOOLEAN
           /\ CutK(s) => ~g.share /\ g.ntm = 1 /\ g.ntn \in Nat \ {0}
           /\ g.share => g.ntn = 1 /\ g.ntm \in Nat \ {0}
<1> DEFINE pm == AtLeast1(s.M \div MR)
           pn == AtLeast1(s.N \div NR)
           par == IF CutK(s) THEN AtLeast1(s.K \div KSPLIT_MIN_BAND) ELSE pm * pn
           nt == imin(nt0, par)
           share == Work(s) >= SHARE_B_WORK /\ pm >= nt /\ ~CutK(s)
<1>1. s.M \in Int /\ s.N \in Int /\ s.K \in Int
  BY ShapesAssumption
<1>2. s.M \div MR \in Int /\ s.N \div NR \in Int /\ s.K \div KSPLIT_MIN_BAND \in Int
  BY <1>1, TileAssumption
<1>3. pm \in Nat \ {0} /\ pn \in Nat \ {0} /\ AtLeast1(s.K \div KSPLIT_MIN_BAND) \in Nat \ {0}
  BY <1>2 DEF AtLeast1, imax
<1>4. pm * pn \in Nat \ {0}
  <2> HIDE DEF pm, pn
  <2> QED BY <1>3
<1>5. nt \in Nat \ {0}
  <2>1. par \in Nat \ {0}
    <3> HIDE DEF pm, pn
    <3> QED BY <1>3, <1>4
  <2> HIDE DEF par
  <2> QED BY <2>1 DEF imin
<1>6. BestGrid(s, nt).share = FALSE
  BY DEF BestGrid
<1>7. Grid(s, nt0) = CASE CutK(s) -> [ntm |-> 1, ntn |-> nt, share |-> FALSE]
                       [] share   -> [ntm |-> nt, ntn |-> 1, share |-> TRUE]
                       [] OTHER   -> BestGrid(s, nt)
  BY DEF Grid
<1>8. share => ~CutK(s)
  OBVIOUS
<1> HIDE DEF nt, share
<1>9. CASE CutK(s)
  <2>1. Grid(s, nt0) = [ntm |-> 1, ntn |-> nt, share |-> FALSE]
    BY <1>7, <1>8, <1>9
  <2> QED BY <1>5, <1>9, <2>1
<1>10. CASE share
  <2>1. Grid(s, nt0) = [ntm |-> nt, ntn |-> 1, share |-> TRUE]
    BY <1>7, <1>8, <1>10
  <2> QED BY <1>5, <1>8, <1>10, <2>1
<1>11. CASE ~CutK(s) /\ ~share
  BY <1>6, <1>7, <1>11
<1> QED BY <1>9, <1>10, <1>11

LEMMA TaskLemma ==
    ASSUME NEW s \in Shapes, NEW nt0 \in Nat \ {0}, NEW t \in Nat
    PROVE  LET g == Grid(s, nt0)
               T == TaskFor(s, g, t) IN
           /\ T.s = s /\ ~T.solo /\ T.tid = t /\ T.nthr = g.ntm * g.ntn
           /\ T.shared = g.share /\ T.ksplit = CutK(s)
           /\ g.share /\ t < T.nthr =>
                 T.n0 = GranuleEdge(0, 1, s.N, NR) /\ T.n1 = GranuleEnd(0, 1, s.N, NR)
           /\ g.share \/ CutK(s) =>
                 g.ntm * g.ntn \in Nat \ {0} /\ (t >= T.nthr => T.m0 >= T.m1)
<1> DEFINE g == Grid(s, nt0)
           T == TaskFor(s, g, t)
<1>g. /\ g.share \in BOOLEAN
      /\ CutK(s) => ~g.share /\ g.ntm = 1 /\ g.ntn \in Nat \ {0}
      /\ g.share => g.ntn = 1 /\ g.ntm \in Nat \ {0}
  BY GridLemma
<1> HIDE DEF g
<1>1. /\ T.s = s /\ ~T.solo /\ T.tid = t /\ T.nthr = g.ntm * g.ntn
      /\ T.shared = g.share /\ T.ksplit = CutK(s)
  BY DEF TaskFor
<1>2. ASSUME g.share, t < T.nthr
      PROVE  T.n0 = GranuleEdge(0, 1, s.N, NR) /\ T.n1 = GranuleEnd(0, 1, s.N, NR)
  <2>1. t - (t \div g.ntn) * g.ntn = 0 /\ g.ntn = 1 /\ ~CutK(s)
    BY <1>2, <1>g
  <2>2. t < g.ntm * g.ntn
    BY <1>1, <1>2
  <2> QED BY <2>1, <2>2 DEF TaskFor
<1>3. ASSUME g.share \/ CutK(s) PROVE g.ntm * g.ntn \in Nat \ {0}
  BY <1>3, <1>g
<1>4. ASSUME g.share \/ CutK(s), t >= T.nthr PROVE T.m0 >= T.m1
  <2>1. g.ntm \in Nat \ {0} /\ g.ntn \in Nat \ {0}
    BY <1>4, <1>g
  <2>2. t \div g.ntn \in Int
    BY <2>1
  <2>3. GranuleEdge(t \div g.ntn, g.ntm, s.M, MR) \in Int
    <3>1. s.M \in Int /\ MR \in Nat \ {0}
      BY ShapesAssumption, TileAssumption
    <3>2. (s.M + MR - 1) \div MR \in Int
      BY <3>1
    <3> DEFINE tiles == (s.M + MR - 1) \div MR
               i == t \div g.ntn
    <3> HIDE DEF tiles, i
    <3>3. tiles \in Int /\ i \in Int
      BY <2>2, <3>2 DEF tiles, i
    <3>4. i * tiles \in Int
      BY <3>3
    <3>5. (i * tiles) \div g.ntm \in Int
      BY <2>1, <3>4
    <3>6. ((i * tiles) \div g.ntm) * MR \in Int
      BY <3>1, <3>5
    <3> QED BY <3>1, <3>6 DEF GranuleEdge, imin, tiles, i
  <2>4. ~(t < g.ntm * g.ntn)
    BY <1>1, <1>3, <1>4
  <2>5. T.m1 = T.m0 /\ T.m0 = GranuleEdge(t \div g.ntn, g.ntm, s.M, MR)
    BY <2>4 DEF TaskFor
  <2> QED BY <2>3, <2>5
<1> QED BY <1>1, <1>2, <1>3, <1>4 DEF g
LEMMA IntervalLemma ==
    \A a, b \in Int : \A x : x \in Interval(a, b) <=> x \in Int /\ a <= x /\ x < b
BY DEF Interval

LEMMA RestingWorkers ==
    ASSUME Inv, AllDone
    PROVE  \A w \in Workers : at[w] \in Resting
BY DEF Inv, AllDone, WorkerState, Resting

\* A thread in a slice that is not alone is in the parallel part of a call.
LEMMA InsideAgrees ==
    ASSUME Inv, TeamInv, NEW t \in Threads, at[t] \in Inside \cup {"load"}, ~Alone(t)
    PROVE  /\ Parallel /\ at[0] \notin Serial /\ poolN > 0
           /\ Agrees(t) /\ Agrees(0)
           /\ at[t] # "load" => task[t] = slot[t] /\ Runs(t)
<1>1. at[0] \notin Serial /\ ~task[0].solo
  <2>1. CASE t = 0
    BY <2>1, ThreadsLemma DEF Inside, Serial, Alone, Inv, CallerState
  <2>2. CASE t # 0
    <3>1. t \in Workers /\ at[t] \notin Resting
      BY <2>2, ThreadsLemma DEF Inside, Resting
    <3>2. ~AllDone
      BY <3>1, RestingWorkers
    <3> QED BY <3>2 DEF Inv, CallerState, TeamInv, Records
  <2> QED BY <2>1, <2>2
<1>2. Parallel /\ SlotsFilled
  BY <1>1 DEF Parallel, TeamInv, Records
<1>3. t \in Interval(0, poolN)
  <2>1. CASE t = 0
    BY <1>2, <2>1 DEF SlotsFilled, Interval, Inv, Types
  <2>2. CASE t # 0
    <3>1. t \in Workers /\ at[t] # "absent"
      BY <2>2, ThreadsLemma DEF Inside
    <3>2. t \in Interval(1, poolN)
      BY <3>1 DEF Inv, WorkerState
    <3> QED BY <3>2 DEF Interval
  <2> QED BY <2>1, <2>2
<1>4. Agrees(t) /\ Agrees(0) /\ poolN > 0
  BY <1>2, <1>3 DEF SlotsFilled, Interval, Inv, Types
<1>5. at[t] # "load" => task[t] = slot[t] /\ Runs(t)
  <2> SUFFICES ASSUME at[t] # "load" PROVE task[t] = slot[t] /\ Runs(t)
    OBVIOUS
  <2>1. Runs(t)
    BY DEF TeamInv, Records
  <2> QED BY <2>1 DEF Runs
<1> QED BY <1>1, <1>2, <1>4, <1>5

\* The threads at the barrier are counted by it.
LEMMA Meeting ==
    ASSUME Inv, TeamInv, NEW t \in Threads, at[t] \in Meets
    PROVE  /\ ~Alone(t) /\ task[t] = slot[t] /\ task[t].nthr = barrierN
           /\ barrierN \in Nat /\ t < barrierN
           /\ at[t] = "meet_reduce" <=> slot[t].ksplit
           /\ at[t] # "meet_reduce" <=> slot[t].shared
<1>1. at[t] \in Inside /\ Runs(t) /\ at[t] # "enter" /\ at[t] # "load"
  BY DEF Meets, Inside, TeamInv, Records
<1>2. task[t].ksplit \/ task[t].shared
  BY <1>1 DEF Runs, Meets
<1>3. ~Alone(t)
  BY <1>1, <1>2 DEF Runs
<1>4. task[t] = slot[t] /\ Agrees(t)
  BY <1>1, <1>3, InsideAgrees
<1>5. task[t].nthr = barrierN /\ barrierN \in Nat
  BY <1>2, <1>4 DEF Agrees
<1>6. t < task[t].nthr
  BY <1>1, <1>2 DEF Runs
<1>7. at[t] = "meet_reduce" => slot[t].ksplit
  BY <1>1, <1>4 DEF Runs
<1>8. at[t] # "meet_reduce" => slot[t].shared
  BY <1>1, <1>4 DEF Runs, Meets
<1>9. ~(slot[t].shared /\ slot[t].ksplit)
  BY <1>4 DEF Agrees
<1> QED BY <1>3, <1>4, <1>5, <1>6, <1>7, <1>8, <1>9

\* In a call with a shared panel, a thread in a slice has the columns of thread 0,
\* and past its first step it belongs to the team.
LEMMA Sharing ==
    ASSUME Inv, TeamInv, Parallel, slot[0].shared, NEW t \in Threads, at[t] \in Inside
    PROVE  /\ task[t] = slot[t] /\ task[t].shared /\ ~task[t].ksplit /\ task[t].tid = t
           /\ task[t].nthr = slot[0].nthr /\ task[t].s = slot[0].s
           /\ at[t] # "enter" => t \in Team
           /\ t \in Team => task[t].n0 = slot[0].n0 /\ task[t].n1 = slot[0].n1
           /\ t \notin Team => task[t].m0 >= task[t].m1
           /\ slot[0].nthr \in Nat
<1>1. ~Alone(t)
  BY DEF Alone, Parallel, Inside
<1>2. Runs(t) /\ task[t] = slot[t] /\ Agrees(t) /\ Agrees(0)
  BY <1>1, InsideAgrees DEF Inside
<1>3. /\ task[t].shared /\ ~task[t].ksplit /\ task[t].tid = t
      /\ task[t].nthr = slot[0].nthr /\ task[t].s = slot[0].s
  BY <1>2 DEF Agrees
<1>4. at[t] # "enter" => t \in Team
  BY <1>2, <1>3 DEF Runs, Team
<1>5. t \in Team => task[t].n0 = slot[0].n0 /\ task[t].n1 = slot[0].n1
  BY <1>2, <1>3 DEF Agrees, Team
<1>6. slot[0].nthr \in Nat
  BY <1>2, <1>3 DEF Agrees
<1>7. t \notin Team => task[t].m0 >= task[t].m1
  <2>1. t \in Nat
    BY ThreadsAssumption DEF Threads
  <2>2. t \notin Team => t >= task[t].nthr
    BY <1>3, <1>6, <2>1 DEF Team
  <2> QED BY <1>2, <1>3, <2>2 DEF Agrees
<1> QED BY <1>2, <1>3, <1>4, <1>5, <1>6, <1>7

LEMMA InitTeam == Init => TeamInv
<1> SUFFICES ASSUME Init PROVE TeamInv
  OBVIOUS
<1>1. at[0] = "idle" /\ ~Parallel
  BY ThreadsLemma DEF Init, Parallel, Serial
<1>2. \A t \in Threads : at[t] \notin Inside
  BY DEF Init, Inside
<1> QED BY <1>1, <1>2 DEF Init, TeamInv, Records

\* Thread 0 outside of the parallel part: nothing is shared.
LEMMA CallerTeam ==
    ASSUME Inv, TeamInv,
           (\E s \in Shapes : Call(s)) \/ GuardShape \/ Tiny \/ Solo \/ NoMemory \/ Join
    PROVE  TeamInv'
<1>1. /\ UNCHANGED <<pos, sharedB, slot>> /\ shape' \in Shapes
      /\ at[0] \in Serial \/ AllDone
      /\ \A w \in Workers : at'[w] = at[w]
  BY ThreadsLemma DEF Call, GuardShape, Tiny, Solo, NoMemory, Join, GoTo, pool, call, Serial,
                      AllDone, Inv, Types, TeamInv, Records
<1>2. \A w \in Workers : at'[w] \notin Inside
  BY <1>1, RestingWorkers DEF Inv, CallerState, Resting, Inside
<1>3. \/ at'[0] \in {"idle", "guard", "entry"}
      \/ at'[0] = "enter" /\ task'[0] = SoloTask(shape)
  <2>1. CASE Solo \/ NoMemory
    <3>1. at' = [at EXCEPT ![0] = "enter"] /\ task' = [task EXCEPT ![0] = SoloTask(shape)]
      BY <2>1 DEF Solo, NoMemory, GoTo
    <3> QED BY <3>1, ThreadsLemma DEF Inv, Types
  <2>2. CASE (\E s \in Shapes : Call(s)) \/ GuardShape \/ Tiny \/ Join
    BY <2>2, ThreadsLemma DEF Call, GuardShape, Tiny, Join, GoTo, Inv, Types
  <2> QED BY <2>1, <2>2
<1>4. ~Parallel' /\ at'[0] # "join"
  BY <1>3 DEF Parallel, SoloTask, Serial
<1>5. at'[0] \in Inside => Runs(0)'
  BY <1>3 DEF Inside, Runs, Alone, SoloTask
<1>6. \A t \in Threads : at'[t] \in Inside => Runs(t)'
  BY <1>2, <1>5, ThreadsLemma
<1> QED BY <1>1, <1>4, <1>6 DEF TeamInv, Records

\* The records are filled while everybody rests.
LEMMA DispatchTeam == ASSUME Inv, TeamInv, Dispatch PROVE TeamInv'
<1>1. PICK cold \in BOOLEAN, missing \in SUBSET Workers :
         LET g == Grid(shape, ThreadsFor(shape, cold))
             n == IF poolN = 0 THEN ceiling ELSE poolN
         IN  /\ poolN' = n
             /\ slot' = [t \in Threads |-> IF t < n THEN TaskFor(shape, g, t) ELSE slot[t]]
             /\ barrierN' = Barrier(shape, g)
             /\ at' = [t \in Threads |->
                          IF t = 0 THEN "publish"
                          ELSE IF poolN = 0 /\ t < n /\ t \notin missing THEN "wait"
                          ELSE at[t]]
  BY DEF Dispatch
<1>2. at[0] = "entry" /\ UNCHANGED <<task, pos, sharedB, shape>>
  BY DEF Dispatch, call
<1> DEFINE nt == ThreadsFor(shape, cold)
           g == Grid(shape, nt)
<1>3. shape \in Shapes /\ nt \in Nat \ {0}
  <2>1. shape \in Shapes /\ ceiling \in 1 .. MAX_THREADS
    BY DEF TeamInv, Records, Inv, Types
  <2> QED BY <2>1, ThreadsForTypes
<1>4. poolN' \in Nat /\ 0 < poolN' /\ poolN' <= MAX_THREADS
  BY <1>1, ThreadsAssumption DEF Inv, Types
<1>5. \A t \in Interval(0, poolN') : t \in Nat /\ slot'[t] = TaskFor(shape, g, t)
  <2> SUFFICES ASSUME NEW t \in Interval(0, poolN')
               PROVE  t \in Nat /\ slot'[t] = TaskFor(shape, g, t)
    OBVIOUS
  <2>1. t \in Nat /\ t < poolN' /\ t \in Threads
    BY <1>4, ThreadsAssumption, IntervalLemma DEF Threads
  <2> QED BY <1>1, <2>1
<1>6. /\ at'[0] = "publish"
      /\ \A w \in Workers : at'[w] \in Resting
  BY <1>1, <1>2, RestingWorkers, ThreadsLemma DEF Inv, CallerState, Serial, Resting
<1>7. g.share \/ CutK(shape) => barrierN' = g.ntm * g.ntn
  BY <1>1 DEF Barrier
<1>8. SlotsFilled'
  <2>1. 0 \in Interval(0, poolN')
    BY <1>4, IntervalLemma
  <2>2. g.share \in BOOLEAN /\ ~(g.share /\ CutK(shape))
    BY <1>3, GridLemma
  <2> SUFFICES ASSUME NEW t \in Interval(0, poolN') PROVE Agrees(t)'
    BY <1>4 DEF SlotsFilled
  <2> HIDE DEF g, nt
  <2>3. \A u \in {0, t} :
           LET T == slot'[u] IN
           /\ T.s = shape /\ ~T.solo /\ T.tid = u /\ T.nthr = g.ntm * g.ntn
           /\ T.shared = g.share /\ T.ksplit = CutK(shape)
           /\ g.share /\ u < T.nthr =>
                 T.n0 = GranuleEdge(0, 1, shape.N, NR) /\ T.n1 = GranuleEnd(0, 1, shape.N, NR)
           /\ g.share \/ CutK(shape) =>
                 g.ntm * g.ntn \in Nat \ {0} /\ (u >= T.nthr => T.m0 >= T.m1)
    BY <1>3, <1>5, <2>1, TaskLemma DEF g
  <2>4. g.share => 0 < slot'[0].nthr
    BY <2>3
  <2> QED BY <1>7, <2>2, <2>3, <2>4 DEF Agrees
<1>9. \A t \in Threads : at'[t] \notin Inside
  BY <1>6, ThreadsLemma DEF Inside, Resting
<1>10. Records'
  BY <1>2, <1>6, <1>8, <1>9 DEF Records, TeamInv
<1>11. InStep'
  <2>1. \A t \in Threads : ~Multiplying(t)' /\ (Turning(t)' => NotStarted(t)')
                           /\ at'[t] # "meet_micro"
    BY <1>9 DEF Multiplying, Turning, Inside
  <2>2. \A t \in Threads : Turning(t)' => Target(t)' = First'
    BY <2>1 DEF Target
  <2> QED BY <2>1, <2>2 DEF InStep, Team
<1> QED BY <1>10, <1>11 DEF TeamInv

\* Thread 0 starts; the others see the generation later.
LEMMA PublishTeam == ASSUME Inv, TeamInv, Publish PROVE TeamInv'
<1>1. /\ at[0] = "publish"
      /\ task' = [task EXCEPT ![0] = slot[0]]
      /\ at' = [t \in Threads |-> IF t = 0 THEN "enter"
                                  ELSE IF at[t] = "asleep" THEN "woken" ELSE at[t]]
      /\ UNCHANGED <<shape, pos, poolN, slot, barrierN, sharedB>>
  BY DEF Publish, pool, call
<1>2. /\ at'[0] = "enter" /\ task'[0] = slot[0] /\ ~task'[0].solo
      /\ \A w \in Workers : at'[w] \in Resting
  BY <1>1, RestingWorkers, ThreadsLemma DEF Inv, CallerState, Serial, Resting
<1>3. Parallel /\ SlotsFilled
  BY <1>1 DEF Parallel, TeamInv, Records
<1>4. SlotsFilled'
  BY <1>1, <1>3 DEF SlotsFilled, Agrees
<1>5. \A t \in Threads : at'[t] \in Inside => t = 0
  BY <1>2, ThreadsLemma DEF Inside, Resting
<1>6. Runs(0)'
  BY <1>1, <1>2 DEF Runs, Alone
<1>7. Records'
  BY <1>1, <1>2, <1>4, <1>5, <1>6 DEF Records, TeamInv
<1>8. InStep'
  <2>1. \A t \in Threads : ~Multiplying(t)' /\ (Turning(t)' => NotStarted(t)')
                           /\ at'[t] # "meet_micro"
    BY <1>2, ThreadsLemma DEF Multiplying, Turning, Resting
  <2>2. \A t \in Threads : Turning(t)' => Target(t)' = First'
    BY <2>1 DEF Target
  <2> QED BY <2>1, <2>2 DEF InStep, Team
<1> QED BY <1>7, <1>8 DEF TeamInv
\* A step of thread t alone leaves the other threads' part of the invariants.
Apart(t) ==
    /\ UNCHANGED <<shape, calls, poolN, slot, barrierN, gen>>
    /\ \A u \in Threads \ {t} : /\ at'[u] = at[u] /\ task'[u] = task[u]
                                /\ pos'[u] = pos[u] /\ last'[u] = last[u]
    /\ at'[0] # "publish" \/ at[0] = "publish"
    /\ Parallel' => Parallel

LEMMA RecordsKept ==
    ASSUME Inv, TeamInv, NEW t \in Threads, Apart(t),
           t = 0 /\ at'[0] = "join" => ~task'[0].solo,
           at'[t] \in Inside => Runs(t)',
           pos' = [u \in Threads |-> [jc |-> pos'[u].jc, pc |-> pos'[u].pc, ic |-> pos'[u].ic]],
           sharedB' = [i \in 0 .. NC - 1 |-> sharedB'[i]]
    PROVE  Records'
<1>1. SlotsFilled' = SlotsFilled
  BY DEF SlotsFilled, Agrees, Apart
<1>2. ASSUME NEW u \in Threads \ {t}, at'[u] \in Inside PROVE Runs(u)'
  <2>1. Runs(u)
    BY <1>2 DEF Apart, TeamInv, Records
  <2> QED BY <1>2, <2>1 DEF Apart, Runs, Alone
<1>3. at'[0] = "join" => ~task'[0].solo
  BY ThreadsLemma DEF Apart, TeamInv, Records
<1> QED BY <1>1, <1>2, <1>3 DEF Apart, TeamInv, Records

\* A thread that does not pack or multiply may start, go on to the block it turns
\* to, or leave the team.
LEMMA TurningKept ==
    ASSUME Inv, TeamInv, NEW t \in Threads, Apart(t), UNCHANGED sharedB,
           Parallel, slot[0].shared,
           ~Multiplying(t), ~Multiplying(t)', at'[t] # "meet_micro",
           Turning(t)' => Turning(t) /\ Target(t)' = Target(t)
    PROVE  InStep'
<1>1. InStep /\ Team' = Team /\ t \in Threads
  BY DEF TeamInv, Team, Apart
<1>2. ASSUME NEW u \in Threads \ {t}
      PROVE  /\ at'[u] = at[u] /\ Multiplying(u)' = Multiplying(u) /\ Block(u)' = Block(u)
             /\ Turning(u)' = Turning(u) /\ Target(u)' = Target(u)
             /\ Packed(u, Panels)' = Packed(u, Panels)
             /\ Packed(u, Own(u))' = Packed(u, Own(u))
  <2>1. NotStarted(u)' = NotStarted(u)
    BY <1>2 DEF Apart, NotStarted
  <2> QED BY <1>2, <2>1 DEF Apart, Multiplying, Block, Turning, Target, First, Packed, BlockId, Own
<1> SUFFICES ASSUME NEW u \in Team
             PROVE  (/\ Multiplying(u) => Packed(u, Panels)
                     /\ at[u] = "meet_micro" => Packed(u, Own(u))
                     /\ \A v \in Team :
                          /\ Multiplying(u) => Multiplying(v) /\ Block(v) = Block(u)
                          /\ Turning(u) /\ Turning(v) => Target(u) = Target(v))'
  BY <1>1 DEF InStep
<1>3. /\ Multiplying(u) => Packed(u, Panels)
      /\ at[u] = "meet_micro" => Packed(u, Own(u))
      /\ \A v \in Team :
           /\ Multiplying(u) => Multiplying(v) /\ Block(v) = Block(u)
           /\ Turning(u) /\ Turning(v) => Target(u) = Target(v)
  BY <1>1 DEF InStep
<1>4. u \in Threads /\ Team \subseteq Threads
  BY DEF Team
<1>5. Multiplying(u)' => Packed(u, Panels)'
  BY <1>2, <1>3, <1>4
<1>6. at'[u] = "meet_micro" => Packed(u, Own(u))'
  BY <1>2, <1>3, <1>4
<1>7. ASSUME NEW v \in Team
      PROVE  /\ Multiplying(u)' => Multiplying(v)' /\ Block(v)' = Block(u)'
             /\ Turning(u)' /\ Turning(v)' => Target(u)' = Target(v)'
  BY <1>2, <1>3, <1>4
<1> QED BY <1>1, <1>5, <1>6, <1>7

\* The workers outside of their slices.
LEMMA WorkerTeam ==
    ASSUME Inv, TeamInv, NEW w \in Workers,
           SeeWork(w) \/ Load(w) \/ Sleep(w) \/ SpuriousWakeup(w)
    PROVE  TeamInv'
<1>1. w \in Threads /\ w # 0 /\ 0 \in Threads
  BY ThreadsLemma
<1>2. /\ UNCHANGED <<shape, calls, poolN, slot, barrierN, gen, sharedB, pos>>
      /\ \A u \in Threads \ {w} : at'[u] = at[u] /\ task'[u] = task[u] /\ last'[u] = last[u]
  BY <1>1 DEF SeeWork, Load, Sleep, SpuriousWakeup, GoTo, call, pool, Inv, Types
<1>3. Apart(w)
  BY <1>1, <1>2 DEF Apart, Parallel
<1>4. \/ at[w] \in Resting /\ at'[w] = "load" /\ gen # last[w]
      \/ at[w] = "load" /\ at'[w] = "enter" /\ task'[w] = slot[w]
      \/ at[w] \in Resting /\ at'[w] \in Resting /\ last'[w] = last[w]
  <2>1. CASE SeeWork(w)
    BY <1>1, <2>1 DEF SeeWork, GoTo, Resting, Inv, Types
  <2>2. CASE Load(w)
    <3>1. task' = [task EXCEPT ![w] = slot[w]] /\ at' = [at EXCEPT ![w] = "enter"]
          /\ at[w] = "load"
      BY <2>2 DEF Load, GoTo
    <3> QED BY <1>1, <3>1 DEF Inv, Types
  <2>3. CASE Sleep(w) \/ SpuriousWakeup(w)
    BY <1>1, <2>3 DEF Sleep, SpuriousWakeup, GoTo, Resting, Inv, Types
  <2> QED BY <2>1, <2>2, <2>3
<1>5. at'[w] \in Inside => Runs(w)'
  BY <1>1, <1>2, <1>4 DEF Inside, Resting, Runs, Alone
<1>6. Records'
  BY <1>1, <1>2, <1>3, <1>5, RecordsKept DEF TeamInv, Records
<1>7. /\ ~Multiplying(w) /\ ~Multiplying(w)' /\ at'[w] # "meet_micro"
      /\ NotStarted(w)' => NotStarted(w)
      /\ Turning(w)' => NotStarted(w)'
  BY <1>1, <1>2, <1>4 DEF Multiplying, NotStarted, Turning, Resting
<1>8. Turning(w)' => Turning(w) /\ Target(w)' = Target(w)
  BY <1>2, <1>7 DEF Turning, Target, First
<1>9. Parallel' /\ slot'[0].shared => InStep'
  BY <1>1, <1>2, <1>3, <1>7, <1>8, TurningKept DEF Apart
<1> QED BY <1>6, <1>9 DEF TeamInv

\* A step of thread t inside its slice.
LEMMA RunApart ==
    ASSUME Inv, TeamInv, NEW t \in Threads, at[t] \in Running,
           Finish(t) \/ \E where \in Running \cup Meets : GoTo(t, where),
           UNCHANGED <<shape, calls, poolN, slot, gen, last, task, barrierN>>,
           \A u \in Threads \ {t} : pos'[u] = pos[u]
    PROVE  /\ Apart(t)
           /\ t = 0 /\ at'[0] = "join" => ~task'[0].solo
<1>1. \A u \in Threads \ {t} : at'[u] = at[u]
  BY DEF Finish, GoTo, Inv, Types
<1>2. t = 0 /\ at'[0] \notin {"idle", "join"} => at'[0] \in Running \cup Meets
  BY DEF Finish, GoTo, Inv, Types
<1>3. t = 0 /\ at'[0] = "join" => ~task[0].solo
  BY DEF Finish, GoTo, Inv, Types, Running, Meets
<1>4. at'[0] # "publish" \/ at[0] = "publish"
  BY <1>1, <1>2, ThreadsLemma DEF Running, Meets
<1>5. Parallel' => Parallel
  <2>1. CASE t = 0
    BY <2>1, <1>4 DEF Parallel, Running, Serial
  <2>2. CASE t # 0
    BY <2>2, <1>1, ThreadsLemma DEF Parallel
  <2> QED BY <2>1, <2>2
<1> QED BY <1>1, <1>3, <1>4, <1>5 DEF Apart

\* After its slice a thread turns to nothing.
LEMMA FinishedLemma ==
    ASSUME Inv, NEW t \in Threads, at[t] \in Running, Finish(t), UNCHANGED <<gen, last>>
    PROVE  /\ at'[t] \notin Inside /\ ~Turning(t)' /\ ~Multiplying(t)'
           /\ at'[t] # "meet_micro"
<1>1. CASE t = 0
  <2>1. at'[0] \in {"idle", "join"}
    BY <1>1 DEF Finish, Inv, Types
  <2> QED BY <1>1, <2>1 DEF Inside, Turning, NotStarted, Multiplying
<1>2. CASE t # 0
  <2>1. at'[t] = "wait"
    BY <1>2 DEF Finish, Inv, Types
  <2>2. last[t] = gen
    BY <1>2, ThreadsLemma DEF Inv, WorkerState, Running, Resting
  <2> QED BY <1>2, <2>1, <2>2 DEF Inside, Turning, NotStarted, Multiplying
<1> QED BY <1>1, <1>2
LEMMA EnterTeam == ASSUME Inv, TeamInv, NEW t \in Threads, Enter(t) PROVE TeamInv'
<1> DEFINE T == task[t]
           none == T.m0 >= T.m1 \/ (T.n0 >= T.n1 /\ ~T.ksplit)
<1>1. /\ at[t] = "enter" /\ t \in Threads
      /\ IF none THEN Finish(t)
         ELSE GoTo(t, CASE T.s.M > SM_MAX_M -> "pack"
                        [] T.ksplit         -> "sum"
                        [] OTHER            -> "small")
      /\ pos' = [pos EXCEPT ![t] = [jc |-> T.n0, pc |-> 0, ic |-> T.m0]]
      /\ UNCHANGED <<shape, calls, poolN, slot, gen, last, task, barrierN, sharedB>>
  BY DEF Enter, call, pool
<1>2. Finish(t) \/ \E where \in {"pack", "sum", "small"} :
                      GoTo(t, where) /\ ~none /\ (where = "sum" => T.ksplit)
  BY <1>1
<1> HIDE DEF none
<1>3. Apart(t) /\ (t = 0 /\ at'[0] = "join" => ~task'[0].solo)
  BY <1>1, <1>2, RunApart DEF Running, TeamInv, Records
<1>4. CASE Finish(t)
  <2>1. /\ at'[t] \notin Inside /\ ~Turning(t)' /\ ~Multiplying(t)'
        /\ at'[t] # "meet_micro"
    BY <1>1, <1>4, FinishedLemma DEF Running
  <2>2. Records'
    BY <1>1, <1>3, <2>1, RecordsKept DEF TeamInv, Records
  <2>3. ~Multiplying(t)
    BY <1>1 DEF Multiplying
  <2>4. Parallel' /\ slot'[0].shared => InStep'
    BY <1>1, <1>3, <2>1, <2>3, TurningKept DEF Apart
  <2> QED BY <2>2, <2>4 DEF TeamInv
<1>5. CASE \E where \in {"pack", "sum", "small"} :
              GoTo(t, where) /\ ~none /\ (where = "sum" => T.ksplit)
  <2>1. PICK where \in {"pack", "sum", "small"} :
           at'[t] = where /\ ~none /\ (where = "sum" => T.ksplit)
    BY <1>1, <1>5 DEF GoTo, Inv, Types
  <2>2. Runs(t)
    BY <1>1 DEF TeamInv, Records, Inside
  <2>3. ASSUME T.shared \/ T.ksplit PROVE t < T.nthr
    <3>1. ~Alone(t)
      BY <2>2, <2>3 DEF Runs
    <3>2. task[t] = slot[t] /\ Agrees(t)
      BY <1>1, <3>1, InsideAgrees DEF Inside
    <3>3. T.nthr \in Nat /\ ~(t >= T.nthr)
      BY <2>1, <2>3, <3>2 DEF Agrees, none
    <3> QED BY <3>3, ThreadsAssumption DEF Threads
  <2>4. Runs(t)'
    BY <1>1, <2>1, <2>2, <2>3 DEF Runs, Alone
  <2>5. Records'
    BY <1>1, <1>3, <2>4, RecordsKept DEF TeamInv, Records
  <2>6. ASSUME Parallel', slot'[0].shared PROVE InStep'
    <3>1. Parallel /\ slot[0].shared
      BY <1>1, <1>3, <2>6 DEF Apart
    <3>2. T.n0 = slot[0].n0
      <4>1. t \in Team
        BY <1>1, <2>1, <3>1, Sharing DEF Inside, none
      <4> QED BY <1>1, <3>1, <4>1, Sharing DEF Inside
    <3>3. NotStarted(t)
      BY <1>1, ThreadsLemma DEF NotStarted
    <3>4. ~NotStarted(t)'
      BY <2>1, ThreadsLemma DEF NotStarted, Resting
    <3>5. pos'[t].jc = slot[0].n0 /\ pos'[t].pc = 0
      BY <1>1, <3>2 DEF TeamInv, Records
    <3>6. Target(t) = First /\ Turning(t)
      BY <3>3 DEF Target, Turning
    <3>7. Turning(t)' => Target(t)' = First
      BY <1>1, <2>1, <3>4, <3>5 DEF Turning, Target, Block, First
    <3>8. ~Multiplying(t) /\ ~Multiplying(t)' /\ at'[t] # "meet_micro"
      BY <1>1, <2>1 DEF Multiplying
    <3> QED BY <1>1, <1>3, <3>1, <3>6, <3>7, <3>8, TurningKept
  <2> QED BY <2>5, <2>6 DEF TeamInv
<1> QED BY <1>2, <1>4, <1>5

\* The small-M kernels, and the end of the reduction.
LEMMA SmallTeam ==
    ASSUME Inv, TeamInv, NEW t \in Threads, SmallM(t) \/ SumBand(t) \/ Reduce(t)
    PROVE  TeamInv'
<1>1. /\ at[t] \in {"small", "sum", "reduce"}
      /\ Finish(t) \/ (at[t] = "sum" /\ GoTo(t, "meet_reduce"))
      /\ UNCHANGED <<shape, calls, poolN, slot, gen, last, task, barrierN, sharedB, pos>>
  BY DEF SmallM, SumBand, Reduce, call, pool
<1>2. Apart(t) /\ (t = 0 /\ at'[0] = "join" => ~task'[0].solo)
  BY <1>1, RunApart DEF Running, Meets, TeamInv, Records
<1>3. /\ (at'[t] = "meet_reduce" /\ at[t] = "sum") \/ at'[t] \notin Inside
      /\ ~Turning(t)' /\ ~Multiplying(t)' /\ at'[t] # "meet_micro"
  <2>1. CASE Finish(t)
    BY <1>1, <2>1, FinishedLemma DEF Running
  <2>2. CASE at[t] = "sum" /\ GoTo(t, "meet_reduce")
    <3>1. at'[t] = "meet_reduce"
      BY <2>2 DEF GoTo, Inv, Types
    <3> QED BY <2>2, <3>1, ThreadsLemma DEF Turning, NotStarted, Multiplying, Resting
  <2> QED BY <1>1, <2>1, <2>2
<1>4. at'[t] \in Inside => Runs(t)'
  <2>1. Runs(t)
    BY <1>1 DEF TeamInv, Records, Inside
  <2> QED BY <1>1, <1>3, <2>1 DEF Runs, Alone
<1>5. Records'
  BY <1>1, <1>2, <1>4, RecordsKept DEF TeamInv, Records
<1>6. ~Multiplying(t)
  BY <1>1 DEF Multiplying
<1>7. Parallel' /\ slot'[0].shared => InStep'
  BY <1>1, <1>2, <1>3, <1>6, TurningKept DEF Apart
<1> QED BY <1>5, <1>7 DEF TeamInv

\* A thread packs its panels of the block, and touches nobody else's.
LEMMA PackTeam == ASSUME Inv, TeamInv, NEW t \in Threads, PackB(t) PROVE TeamInv'
<1> DEFINE T == task[t]
<1>1. /\ at[t] = "pack"
      /\ UNCHANGED <<shape, calls, poolN, slot, gen, last, task, barrierN, pos>>
      /\ \/ ~T.shared /\ GoTo(t, "micro") /\ UNCHANGED sharedB
         \/ /\ T.shared /\ GoTo(t, "meet_micro")
            /\ sharedB' = [i \in DOMAIN sharedB |->
                  IF i * NR < BlockN(T, pos[t]) /\ i % T.nthr = T.tid
                  THEN BlockId(pos[t]) ELSE sharedB[i]]
  BY DEF PackB, call, pool
<1>2. Apart(t) /\ (t = 0 /\ at'[0] = "join" => ~task'[0].solo)
  BY <1>1, RunApart DEF Running, Meets, TeamInv, Records
<1>3. Runs(t) /\ at'[t] \in {"micro", "meet_micro"} /\ (at'[t] = "meet_micro" <=> T.shared)
  BY <1>1 DEF TeamInv, Records, Inside, GoTo, Inv, Types
<1>4. Runs(t)'
  BY <1>1, <1>3 DEF Runs, Alone
<1>5. sharedB' = [i \in 0 .. NC - 1 |-> sharedB'[i]]
  BY <1>1 DEF TeamInv, Records
<1>6. Records'
  BY <1>1, <1>2, <1>4, <1>5, RecordsKept DEF TeamInv, Records
<1>7. ASSUME Parallel', slot'[0].shared PROVE InStep'
  <2>1. Parallel /\ slot[0].shared /\ InStep /\ Team' = Team
    BY <1>1, <1>2, <1>7 DEF Apart, TeamInv, Team
  <2>2. T.shared /\ T.tid = t /\ T.nthr = slot[0].nthr /\ t \in Team
    BY <1>1, <2>1, Sharing DEF Inside
  <2>3. at'[t] = "meet_micro" /\ Turning(t) /\ ~Multiplying(t) /\ ~Multiplying(t)'
    BY <1>1, <1>3, <2>2 DEF Turning, Multiplying
  <2>4. ~NotStarted(t) /\ ~NotStarted(t)' /\ Target(t) = Block(t) /\ Target(t)' = Block(t)
    BY <1>1, <2>3, ThreadsLemma DEF NotStarted, Resting, Target, Block
  <2>5. Packed(t, Own(t))'
    BY <1>1, <2>2, <1>5 DEF Packed, Own, Panels, BlockId, TeamInv, Records
  <2>6. ASSUME NEW u \in Team
        PROVE  ~Multiplying(u) /\ ~Multiplying(u)'
    <3>1. ~Multiplying(u)
      BY <2>1, <2>2, <2>3 DEF InStep
    <3> QED BY <3>1, <2>3, <1>2 DEF Multiplying, Apart, Team
  <2>7. ASSUME NEW u \in Team \ {t}
        PROVE  /\ at'[u] = "meet_micro" => Packed(u, Own(u))'
               /\ Turning(u)' = Turning(u) /\ Target(u)' = Target(u)
    <3>1. u \in Threads /\ at'[u] = at[u] /\ task'[u] = task[u] /\ last'[u] = last[u]
      BY <1>2 DEF Apart, Team
    <3>2. NotStarted(u)' = NotStarted(u)
      BY <1>1, <3>1 DEF NotStarted
    <3>3. \A i \in Own(u) : sharedB'[i] = sharedB[i]
      BY <1>1, <2>2 DEF Own, Panels, TeamInv, Records
    <3>4. at[u] = "meet_micro" => Packed(u, Own(u))
      BY <2>1 DEF InStep
    <3>5. at'[u] = "meet_micro" => Packed(u, Own(u))'
      BY <1>1, <3>1, <3>3, <3>4 DEF Packed, Own, BlockId
    <3> QED BY <1>1, <3>1, <3>2, <3>5 DEF Turning, Target, First, Block
  <2>8. \A u \in Team : /\ Turning(u)' => Turning(u)
                        /\ Turning(u)' => Target(u)' = Target(u)
    BY <2>3, <2>4, <2>7
  <2>9. \A u, v \in Team : Turning(u)' /\ Turning(v)' => Target(u)' = Target(v)'
    BY <2>1, <2>8 DEF InStep
  <2> QED BY <2>1, <2>5, <2>6, <2>7, <2>9 DEF InStep
<1> QED BY <1>6, <1>7 DEF TeamInv

\* A thread multiplies: its team does, and stays at the block.
LEMMA MicroTeam == ASSUME Inv, TeamInv, NEW t \in Threads, Micro(t) PROVE TeamInv'
<1> DEFINE T == task[t]
<1>1. /\ at[t] = "micro"
      /\ UNCHANGED <<shape, calls, poolN, slot, gen, last, task, barrierN, sharedB>>
      /\ \/ GoTo(t, "micro") /\ pos' = [pos EXCEPT ![t].ic = pos[t].ic + MC]
         \/ GoTo(t, AfterReading(T)) /\ UNCHANGED pos
  BY DEF Micro, call, pool
<1>2. \A u \in Threads : pos'[u] = [jc |-> pos[u].jc, pc |-> pos[u].pc, ic |-> pos'[u].ic]
      /\ pos' = [v \in Threads |-> pos'[v]]
  BY <1>1 DEF TeamInv, Records
<1>3. /\ \A u \in Threads \ {t} : pos'[u] = pos[u]
      /\ \A u \in Threads : pos'[u].jc = pos[u].jc /\ pos'[u].pc = pos[u].pc
      /\ pos' = [u \in Threads |-> [jc |-> pos'[u].jc, pc |-> pos'[u].pc, ic |-> pos'[u].ic]]
  <2>1. ASSUME NEW u \in Threads PROVE pos'[u].jc = pos[u].jc /\ pos'[u].pc = pos[u].pc
    <3> DEFINE i == pos'[u].ic
    <3>1. pos'[u] = [jc |-> pos[u].jc, pc |-> pos[u].pc, ic |-> i]
      BY <1>2
    <3> HIDE DEF i
    <3> QED BY <3>1
  <2> QED BY <1>1, <1>2, <2>1
<1>4. at'[t] \in {"micro", "meet_next", "next"}
      /\ (T.shared => at'[t] # "next") /\ (at'[t] = "meet_next" => T.shared)
  BY <1>1 DEF AfterReading, GoTo, Inv, Types
<1>5. Apart(t) /\ (t = 0 /\ at'[0] = "join" => ~task'[0].solo)
  <2>1. \E where \in Running \cup Meets : GoTo(t, where)
    BY <1>1 DEF AfterReading, Running, Meets
  <2> QED BY <1>1, <1>3, <2>1, RunApart DEF Running, TeamInv, Records
<1>6. Runs(t)'
  <2>1. Runs(t)
    BY <1>1 DEF TeamInv, Records, Inside
  <2> QED BY <1>1, <1>4, <2>1 DEF Runs, Alone
<1>7. Records'
  BY <1>1, <1>3, <1>5, <1>6, RecordsKept DEF TeamInv, Records
<1>8. ASSUME Parallel', slot'[0].shared PROVE InStep'
  <2>1. Parallel /\ slot[0].shared /\ InStep /\ Team' = Team
    BY <1>1, <1>5, <1>8 DEF Apart, TeamInv, Team
  <2>2. T.shared /\ t \in Team
    BY <1>1, <2>1, Sharing DEF Inside
  <2>3. Multiplying(t) /\ at'[t] \in {"micro", "meet_next"}
    BY <1>1, <1>4, <2>2 DEF Multiplying
  <2>4. ASSUME NEW u \in Team
        PROVE  /\ Multiplying(u)' /\ Packed(u, Panels)' /\ Block(u)' = Block(t)
               /\ ~Turning(u)' /\ at'[u] # "meet_micro"
    <3>1. Multiplying(u) /\ Block(u) = Block(t)
      BY <2>1, <2>2, <2>3 DEF InStep
    <3>2. Packed(u, Panels)
      BY <2>1, <3>1 DEF InStep
    <3>3. u \in Threads /\ at'[u] \in {"micro", "meet_next"}
      BY <2>3, <3>1, <1>5 DEF Apart, Team, Multiplying
    <3>4. Packed(u, Panels)'
      BY <1>1, <1>3, <3>2, <3>3 DEF Packed, BlockN, BlockId
    <3>5. Block(u)' = Block(u)
      BY <1>3, <3>3 DEF Block
    <3>6. ~Turning(u)' /\ at'[u] # "meet_micro" /\ Multiplying(u)'
      BY <3>3 DEF Turning, NotStarted, Resting, Multiplying
    <3> QED BY <3>1, <3>4, <3>5, <3>6
  <2> QED BY <2>1, <2>4 DEF InStep
<1> QED BY <1>7, <1>8 DEF TeamInv

\* A thread goes on to the block it was turning to, or has finished.
LEMMA AdvanceTeam == ASSUME Inv, TeamInv, NEW t \in Threads, Advance(t) PROVE TeamInv'
<1> DEFINE T == task[t]
           p == pos[t]
           go(jc, pc) == /\ pos' = [pos EXCEPT ![t] = [jc |-> jc, pc |-> pc, ic |-> T.m0]]
                         /\ GoTo(t, "pack")
<1>1. /\ at[t] = "next"
      /\ UNCHANGED <<shape, calls, poolN, slot, gen, last, task, barrierN, sharedB>>
      /\ IF p.pc + KcEff(T, p) < T.s.K THEN go(p.jc, p.pc + KcEff(T, p))
         ELSE IF p.jc + NC < T.n1 THEN go(p.jc + NC, 0)
         ELSE Finish(t) /\ UNCHANGED pos
  BY DEF Advance, call, pool
<1>2. \/ Finish(t) /\ UNCHANGED pos
      \/ \E jc, pc : go(jc, pc) /\ Following(T, p) = <<jc, pc>>
  BY <1>1 DEF Following
<1>3. /\ \A u \in Threads \ {t} : pos'[u] = pos[u]
      /\ pos' = [u \in Threads |-> [jc |-> pos'[u].jc, pc |-> pos'[u].pc, ic |-> pos'[u].ic]]
  BY <1>2 DEF TeamInv, Records
<1>4. Apart(t) /\ (t = 0 /\ at'[0] = "join" => ~task'[0].solo)
  BY <1>1, <1>2, <1>3, RunApart DEF Running, TeamInv, Records
<1>5. ~Multiplying(t)
  BY <1>1 DEF Multiplying
<1>6. CASE Finish(t) /\ UNCHANGED pos
  <2>1. /\ at'[t] \notin Inside /\ ~Turning(t)' /\ ~Multiplying(t)'
        /\ at'[t] # "meet_micro"
    BY <1>1, <1>6, FinishedLemma DEF Running
  <2>2. Records'
    BY <1>1, <1>3, <1>4, <2>1, RecordsKept DEF TeamInv, Records
  <2>3. Parallel' /\ slot'[0].shared => InStep'
    BY <1>1, <1>4, <1>5, <2>1, TurningKept DEF Apart
  <2> QED BY <2>2, <2>3 DEF TeamInv
<1>7. ASSUME NEW jc, NEW pc, go(jc, pc), Following(T, p) = <<jc, pc>> PROVE TeamInv'
  <2>1. at'[t] = "pack" /\ pos'[t].jc = jc /\ pos'[t].pc = pc
    BY <1>7 DEF GoTo, Inv, Types, TeamInv, Records
  <2>2. Runs(t)'
    <3>1. Runs(t)
      BY <1>1 DEF TeamInv, Records, Inside
    <3> QED BY <1>1, <2>1, <3>1 DEF Runs, Alone
  <2>3. Records'
    BY <1>1, <1>3, <1>4, <2>2, RecordsKept DEF TeamInv, Records
  <2>4. ~NotStarted(t) /\ ~NotStarted(t)'
    BY <1>1, <2>1, ThreadsLemma DEF NotStarted, Resting
  <2>5. Turning(t) /\ Target(t)' = <<jc, pc>> /\ Target(t) = Following(T, p)
    BY <1>1, <2>1, <2>4 DEF Turning, Target, Block
  <2>6. ~Multiplying(t)' /\ at'[t] # "meet_micro"
    BY <2>1 DEF Multiplying
  <2>7. Parallel' /\ slot'[0].shared => InStep'
    BY <1>1, <1>4, <1>5, <1>7, <2>5, <2>6, TurningKept DEF Apart
  <2> QED BY <2>3, <2>7 DEF TeamInv
<1> QED BY <1>2, <1>6, <1>7

LEMMA TeamStutter ==
    ASSUME TeamInv,
           UNCHANGED <<shape, calls, poolN, slot, gen, last, task, barrierN, pos, sharedB, at>>
    PROVE  TeamInv'
<1>1. Parallel' = Parallel /\ SlotsFilled' = SlotsFilled /\ Team' = Team
  BY DEF Parallel, SlotsFilled, Agrees, Team
<1>2. \A t \in Threads : Runs(t)' = Runs(t)
  BY DEF Runs, Alone
<1>3. Records'
  BY <1>1, <1>2 DEF TeamInv, Records
<1>4. \A t \in Threads : /\ Multiplying(t)' = Multiplying(t) /\ Block(t)' = Block(t)
                         /\ Turning(t)' = Turning(t) /\ NotStarted(t)' = NotStarted(t)
  BY DEF Multiplying, Block, Turning, NotStarted
<1>5. \A t \in Threads : Target(t)' = Target(t)
  BY <1>4 DEF Target, First
<1>6. \A t \in Threads : /\ Packed(t, Panels)' = Packed(t, Panels)
                         /\ Packed(t, Own(t))' = Packed(t, Own(t))
  BY DEF Packed, BlockId, Own
<1>7. Team \subseteq Threads
  BY DEF Team
<1>8. InStep => InStep'
  BY <1>1, <1>4, <1>5, <1>6, <1>7 DEF InStep
<1> QED BY <1>1, <1>3, <1>8 DEF TeamInv

\* The barrier opens when exactly the threads that it counts are at it.
LEMMA Opening ==
    ASSUME Inv, TeamInv, NEW t \in Threads, Meet(t)
    PROVE  \/ UNCHANGED at
           \/ /\ barrierN \in Nat /\ arrived \cup {t} = 0 .. barrierN - 1
              /\ \A u \in Threads :
                    /\ u \in arrived \cup {t} => at[u] \in Meets /\ at'[u] = After(at[u])
                    /\ u \notin arrived \cup {t} => at'[u] = at[u] /\ at[u] \notin Meets
<1> DEFINE waiting == arrived \cup {t}
<1>1. /\ \A u \in waiting : u \in Threads /\ at[u] \in Meets
      /\ \/ UNCHANGED at
         \/ /\ Cardinality(waiting) = barrierN
            /\ at' = [u \in Threads |-> IF u \in waiting THEN After(at[u]) ELSE at[u]]
  BY DEF Meet, Meets, Inv, Types
<1>2. CASE UNCHANGED at
  BY <1>2
<1>3. CASE /\ Cardinality(waiting) = barrierN
           /\ at' = [u \in Threads |-> IF u \in waiting THEN After(at[u]) ELSE at[u]]
  <2> HIDE DEF waiting
  <2>1. barrierN \in Nat /\ t \in Threads /\ at[t] \in Meets
    BY <1>1, Meeting DEF waiting
  <2>2. waiting = 0 .. barrierN - 1
    <3>1. waiting \subseteq 0 .. barrierN - 1
      <4> SUFFICES ASSUME NEW u \in waiting PROVE u \in 0 .. barrierN - 1
        OBVIOUS
      <4>1. u \in Nat /\ u < barrierN
        BY <1>1, Meeting, ThreadsAssumption DEF Threads
      <4> QED BY <2>1, <4>1
    <3>2. IsFiniteSet(0 .. barrierN - 1) /\ Cardinality(0 .. barrierN - 1) = barrierN
      <4>1. 0 \in Int /\ barrierN - 1 \in Int
        BY <2>1
      <4>2. /\ IsFiniteSet(0 .. barrierN - 1)
            /\ Cardinality(0 .. barrierN - 1) =
                  IF 0 > barrierN - 1 THEN 0 ELSE (barrierN - 1) - 0 + 1
        BY <4>1, FS_Interval
      <4> QED BY <2>1, <4>2
    <3> QED BY <1>3, <3>1, <3>2, FS_Subset
  <2>3. \A u \in Threads :
           /\ u \in waiting => at[u] \in Meets /\ at'[u] = After(at[u])
           /\ u \notin waiting => at'[u] = at[u] /\ at[u] \notin Meets
    <3> SUFFICES ASSUME NEW u \in Threads, u \notin waiting PROVE at[u] \notin Meets
      BY <1>1, <1>3
    <3>1. at[u] \in Meets => u \in 0 .. barrierN - 1
      BY Meeting, ThreadsAssumption DEF Threads
    <3> QED BY <2>2, <3>1
  <2> QED BY <2>1, <2>2, <2>3 DEF waiting
<1> QED BY <1>1, <1>2, <1>3

\* So it opens when the whole team is at it.
LEMMA MeetTeam == ASSUME Inv, TeamInv, NEW t \in Threads, Meet(t) PROVE TeamInv'
<1> DEFINE waiting == arrived \cup {t}
<1>1. /\ UNCHANGED <<shape, calls, poolN, slot, gen, last, task, barrierN, pos, sharedB>>
      /\ \A u \in waiting : u \in Threads /\ at[u] \in Meets
  BY DEF Meet, call, pool, signal, Meets, Inv, Types
<1>2. CASE UNCHANGED at
  BY <1>1, <1>2, TeamStutter
<1>3. CASE ~UNCHANGED at
  <2> HIDE DEF waiting
  <2>1. t \in Threads /\ at[t] \in Meets /\ barrierN \in Nat
    BY <1>1, Meeting DEF waiting
  <2>2. waiting = 0 .. barrierN - 1
    BY <1>3, Opening DEF waiting
  <2>3. \A u \in Threads :
           /\ u \in waiting => at[u] \in Meets /\ at'[u] = After(at[u])
           /\ u \notin waiting => at'[u] = at[u] /\ at[u] \notin Meets
    BY <1>3, Opening DEF waiting
  <2>4. \A x \in Meets : After(x) \in {"reduce", "micro", "next"}
                         /\ (After(x) = "reduce" <=> x = "meet_reduce")
                         /\ (After(x) = "micro" <=> x = "meet_micro")
    BY DEF Meets, After
  <2>5. 0 \in Threads /\ at[0] \notin Serial /\ at'[0] \notin Serial /\ (Parallel' <=> Parallel)
        /\ (at'[0] = "join" <=> at[0] = "join")
    <3>1. ~Alone(t) /\ at[t] \in Inside
      BY <2>1, Meeting DEF Meets, Inside
    <3>2. at[0] \notin Serial
      BY <3>1, InsideAgrees
    <3>3. \/ at'[0] = at[0]
          \/ at[0] \in Meets /\ at'[0] \in {"reduce", "micro", "next"}
      BY <2>3, <2>4, ThreadsLemma
    <3> QED BY <1>1, <3>2, <3>3, ThreadsLemma DEF Parallel, Serial, Meets
  <2>6. \A u \in Threads : at'[u] \in Inside => Runs(u)'
    <3> SUFFICES ASSUME NEW u \in Threads, at'[u] \in Inside PROVE Runs(u)'
      OBVIOUS
    <3>1. at[u] \in Inside
      BY <2>3 DEF Meets, Inside
    <3>2. Runs(u)
      BY <3>1 DEF TeamInv, Records
    <3>3. CASE u \notin waiting
      BY <1>1, <2>3, <3>2, <3>3 DEF Runs, Alone
    <3>4. CASE u \in waiting
      <4>1. /\ at[u] \in Meets
            /\ at'[u] \in {"reduce", "micro", "next"}
            /\ at'[u] = "reduce" => at[u] = "meet_reduce"
        BY <2>3, <2>4, <3>4
      <4> QED BY <1>1, <3>2, <4>1 DEF Runs, Alone, Meets
    <3> QED BY <3>3, <3>4
  <2>7. Records'
    BY <1>1, <2>5, <2>6 DEF TeamInv, Records, SlotsFilled, Agrees
  <2>8. ASSUME Parallel', slot'[0].shared PROVE InStep'
    <3>1. Parallel /\ slot[0].shared /\ InStep /\ Team' = Team
      BY <1>1, <2>5, <2>8 DEF TeamInv, Team
    <3>2. \A u \in waiting : /\ u \in Threads /\ at[u] \in Inside /\ task[u].nthr = barrierN
                             /\ at[u] \in {"meet_micro", "meet_next"}
      <4> SUFFICES ASSUME NEW u \in waiting
                   PROVE  /\ u \in Threads /\ at[u] \in Inside /\ task[u].nthr = barrierN
                          /\ at[u] \in {"meet_micro", "meet_next"}
        OBVIOUS
      <4>1. u \in Threads /\ at[u] \in Meets /\ at[u] \in Inside
        BY <1>1 DEF Meets, Inside
      <4>2. task[u].nthr = barrierN /\ ~task[u].ksplit /\ Runs(u)
        BY <3>1, <4>1, Meeting, Sharing DEF TeamInv, Records
      <4> QED BY <4>1, <4>2 DEF Runs, Meets
    <3>3. slot[0].nthr = barrierN /\ t \in waiting
      <4>1. t \in waiting
        BY DEF waiting
      <4> QED BY <3>1, <3>2, <4>1, Sharing
    <3>4. Team = waiting /\ \A u \in Team : u \in Threads
      BY <1>1, <2>1, <2>2, <3>3, ThreadsAssumption DEF Team, Threads
    <3>5. \A u \in Team : /\ BlockN(task[u], pos[u]) = BlockN(task[t], pos[u])
                          /\ \A p : Following(task[u], p) = Following(task[t], p)
      <4> SUFFICES ASSUME NEW u \in Team
                   PROVE  /\ BlockN(task[u], pos[u]) = BlockN(task[t], pos[u])
                          /\ \A p : Following(task[u], p) = Following(task[t], p)
        OBVIOUS
      <4>1. /\ task[u].n1 = task[t].n1 /\ task[u].nthr = task[t].nthr
            /\ task[u].s = task[t].s
        BY <3>1, <3>2, <3>3, <3>4, Sharing
      <4> QED BY <4>1 DEF BlockN, Following, KcEff
    <3>6. CASE at[t] = "meet_next"
      <4>1. \A u \in Team : Block(u) = Block(t) /\ at[u] = "meet_next"
        BY <3>1, <3>2, <3>3, <3>4, <3>6 DEF InStep, Multiplying
      <4>2. \A u \in Team : at'[u] = "next"
        BY <2>3, <3>4, <4>1 DEF After
      <4>3. \A u \in Team : /\ ~Multiplying(u)' /\ at'[u] # "meet_micro"
                            /\ Target(u)' = Following(task[u], pos[u])
        BY <1>1, <4>2 DEF Multiplying, Target, NotStarted, Resting
      <4>4. \A u \in Team : Following(task[u], pos[u]) = Following(task[t], pos[t])
        <5> SUFFICES ASSUME NEW u \in Team
                     PROVE  Following(task[t], pos[u]) = Following(task[t], pos[t])
          BY <3>5
        <5>1. pos[u].jc = pos[t].jc /\ pos[u].pc = pos[t].pc
          BY <4>1 DEF Block
        <5> QED BY <5>1 DEF Following, KcEff, BlockN
      <4> QED BY <3>1, <4>3, <4>4 DEF InStep
    <3>7. CASE at[t] = "meet_micro"
      <4>1. \A u \in Team : at[u] = "meet_micro"
        BY <3>1, <3>2, <3>3, <3>4, <3>7 DEF InStep, Multiplying
      <4>2. \A u \in Team : at'[u] = "micro"
        BY <2>3, <3>4, <4>1 DEF After
      <4>3. \A u \in Team : Turning(u) /\ Target(u) = Block(u)
        BY <4>1 DEF Turning, Target, NotStarted, Resting
      <4>4. \A u, v \in Team : Block(u) = Block(v)
        BY <3>1, <4>3 DEF InStep
      <4>5. ASSUME NEW u \in Team PROVE Packed(u, Panels)
        <5> SUFFICES ASSUME NEW i \in Panels, i * NR < BlockN(task[u], pos[u])
                     PROVE  sharedB[i] = BlockId(pos[u])
          BY DEF Packed
        <5>1. barrierN > 0
          BY <2>1, <2>2, <3>3
        <5>2. i % barrierN \in 0 .. barrierN - 1
          BY <2>1, <5>1 DEF Panels
        <5>3. PICK v \in Team : v = i % slot[0].nthr
          BY <2>2, <3>3, <3>4, <5>2
        <5>4. Packed(v, Own(v)) /\ i \in Own(v)
          BY <3>1, <4>1, <5>3 DEF InStep, Own
        <5>5. pos[v].jc = pos[u].jc /\ pos[v].pc = pos[u].pc
          BY <4>4 DEF Block
        <5>6. BlockN(task[v], pos[v]) = BlockN(task[u], pos[u])
          BY <3>5, <5>5 DEF BlockN
        <5>7. BlockId(pos[v]) = BlockId(pos[u])
          BY <5>5 DEF BlockId
        <5> QED BY <5>4, <5>6, <5>7 DEF Packed
      <4>6. \A u \in Team : /\ Multiplying(u)' /\ Packed(u, Panels)' /\ Block(u)' = Block(t)
                            /\ ~Turning(u)' /\ at'[u] # "meet_micro"
        <5> SUFFICES ASSUME NEW u \in Team
                     PROVE  /\ Multiplying(u)' /\ Packed(u, Panels)' /\ Block(u)' = Block(t)
                            /\ ~Turning(u)' /\ at'[u] # "meet_micro"
          OBVIOUS
        <5>1. Packed(u, Panels)'
          BY <1>1, <4>5 DEF Packed, BlockId
        <5>2. Block(u)' = Block(t)
          BY <1>1, <3>3, <3>4, <4>4 DEF Block
        <5> QED BY <4>2, <5>1, <5>2 DEF Multiplying, Turning, NotStarted, Resting
      <4> QED BY <3>1, <4>6 DEF InStep
    <3> QED BY <3>2, <3>3, <3>6, <3>7
  <2> QED BY <2>7, <2>8 DEF TeamInv
<1> QED BY <1>2, <1>3

LEMMA NextTeam == Inv /\ TeamInv /\ [Next]_vars => TeamInv'
<1> SUFFICES ASSUME Inv, TeamInv, [Next]_vars PROVE TeamInv'
  OBVIOUS
<1>1. ASSUME NEW s \in Shapes, Call(s) PROVE TeamInv'
  BY <1>1, CallerTeam
<1>2. CASE Caller
  BY <1>2, CallerTeam, DispatchTeam, PublishTeam DEF Caller
<1>3. ASSUME NEW w \in Workers, Worker(w) \/ Sleep(w) \/ SpuriousWakeup(w) PROVE TeamInv'
  BY <1>3, WorkerTeam DEF Worker
<1>4. ASSUME NEW t \in Threads, Run(t) PROVE TeamInv'
  BY <1>4, EnterTeam, SmallTeam, PackTeam, MicroTeam, AdvanceTeam, MeetTeam DEF Run
<1>5. CASE UNCHANGED vars
  BY <1>5, TeamStutter DEF vars, call, pool, signal
<1> QED BY <1>1, <1>2, <1>3, <1>4, <1>5 DEF Next

LEMMA TeamsHold == Inv /\ TeamInv => TeamInStep
<1> SUFFICES ASSUME Inv, TeamInv PROVE TeamInStep
  OBVIOUS
<1>0. DOMAIN sharedB = Panels
  BY DEF TeamInv, Records, Panels
<1> SUFFICES ASSUME NEW t \in Threads
             PROVE  /\ at[t] = "micro" /\ task[t].shared => Packed(t, Panels)
                    /\ at[t] \in Meets =>
                          barrierN = task[t].nthr /\ t < barrierN /\ task[t] = slot[t]
  BY <1>0 DEF TeamInStep, Packed
<1>1. at[t] \in Meets => barrierN = task[t].nthr /\ t < barrierN /\ task[t] = slot[t]
  BY Meeting
<1>2. ASSUME at[t] = "micro", task[t].shared PROVE Packed(t, Panels)
  <2>1. at[t] \in Inside /\ Runs(t)
    BY <1>2 DEF Inside, TeamInv, Records
  <2>2. ~Alone(t)
    BY <1>2, <2>1 DEF Runs
  <2>3. Parallel /\ task[t] = slot[t] /\ slot[0].shared
    BY <1>2, <2>1, <2>2, InsideAgrees DEF Agrees
  <2>4. t \in Team /\ Multiplying(t)
    BY <1>2, <2>1, <2>3, Sharing DEF Multiplying
  <2> QED BY <2>3, <2>4 DEF TeamInv, InStep
<1> QED BY <1>1, <1>2

\* While the micro-kernel reads the shared panel nobody has packed another block
\* into it, and the barrier counts exactly the threads that come to it
\* (__y_gemm_run, __y_gemm_pack_b and the barrier of src/cpu_gemm.rs).
THEOREM TeamsInStep == Spec => []TeamInStep
<1>1. Spec => [](Inv /\ TeamInv)
  BY InitInv, NextInv, InitTeam, NextTeam, PTL DEF Spec
<1> QED BY <1>1, TeamsHold, PTL
----------------------------------------------------------------------------
(* Where the slices lie.  The bands of rows, columns and depths that the    *)
(* code cuts by division are disjoint and leave nothing out, so the records *)
(* of a call share the cells of its product, or its depths, out.            *)

\* A function of a nonempty set into the naturals takes a least value.
LEMMA LeastValue ==
    ASSUME NEW S, S # {}, NEW f, \A x \in S : f[x] \in Nat
    PROVE  \E x \in S : \A y \in S : f[x] <= f[y]
<1> DEFINE R == OpToRel(<, Nat)
           V == {f[x] : x \in S}
<1>1. IsWellFoundedOn(R, Nat)
  BY NatLessThanWellFounded
<1>2. PICK v \in V : \A w \in V : <<w, v>> \notin R
  <2>1. V \subseteq Nat /\ V # {}
    OBVIOUS
  <2> HIDE DEF R, V
  <2> QED BY <1>1, <2>1, WFMin
<1>3. PICK x \in S : v = f[x]
  OBVIOUS
<1>4. ASSUME NEW y \in S PROVE f[x] <= f[y]
  <2>1. f[y] \in V /\ f[y] \in Nat /\ v \in Nat
    BY <1>3
  <2>2. ~(f[y] < v)
    BY <1>2, <2>1 DEF OpToRel
  <2> QED BY <1>3, <2>1, <2>2
<1> QED BY <1>4

\* Edges that grow from 0 to X cut an extent into pieces.
LEMMA Pieces ==
    ASSUME NEW n \in Nat, NEW X \in Nat, NEW e, \A i \in 0 .. n : e[i] \in Nat,
           e[0] = 0, e[n] = X, \A i, j \in 0 .. n : i <= j => e[i] <= e[j]
    PROVE  /\ \A i \in Interval(0, n) : Interval(e[i], e[i + 1]) \subseteq Interval(0, X)
           /\ \A i, j \in Interval(0, n), x \in Int :
                 x \in Interval(e[i], e[i + 1]) /\ x \in Interval(e[j], e[j + 1]) => i = j
           /\ \A x \in Interval(0, X) : \E i \in Interval(0, n) : x \in Interval(e[i], e[i + 1])
<1>1. ASSUME NEW i \in Interval(0, n)
      PROVE  i \in 0 .. n /\ i + 1 \in 0 .. n /\ e[i] \in Nat /\ e[i + 1] \in Nat /\ e[i + 1] <= X
  <2>1. i \in 0 .. n /\ i + 1 \in 0 .. n /\ n \in 0 .. n /\ i + 1 <= n
    BY DEF Interval
  <2> QED BY <2>1
<1>2. ASSUME NEW i \in Interval(0, n) PROVE Interval(e[i], e[i + 1]) \subseteq Interval(0, X)
  BY <1>1, IntervalLemma
<1>3. ASSUME NEW i \in Interval(0, n), NEW j \in Interval(0, n), NEW x \in Int,
             x \in Interval(e[i], e[i + 1]), x \in Interval(e[j], e[j + 1])
      PROVE  ~(i < j)
  <2> SUFFICES ASSUME i < j PROVE FALSE
    OBVIOUS
  <2>1. i + 1 <= j
    BY DEF Interval
  <2>2. e[i + 1] <= e[j]
    BY <1>1, <2>1
  <2>3. x < e[i + 1] /\ e[j] <= x
    BY <1>1, <1>3, IntervalLemma
  <2> QED BY <1>1, <2>2, <2>3
<1>4. ASSUME NEW i \in Interval(0, n), NEW j \in Interval(0, n), NEW x \in Int,
             x \in Interval(e[i], e[i + 1]), x \in Interval(e[j], e[j + 1])
      PROVE  i = j
  BY <1>3, <1>4 DEF Interval
<1>5. ASSUME NEW x \in Interval(0, X)
      PROVE  \E i \in Interval(0, n) : x \in Interval(e[i], e[i + 1])
  <2> DEFINE A == {i \in 0 .. n : x < e[i]}
             f == [i \in A |-> i]
  <2>0. x \in Nat /\ x < X
    BY DEF Interval
  <2>1. n \in A /\ \A y \in A : f[y] \in Nat
    BY <2>0
  <2>2. PICK i \in A : \A y \in A : f[i] <= f[y]
    <3> HIDE DEF A, f
    <3> QED BY <2>1, LeastValue
  <2>3. i # 0 /\ i \in 0 .. n /\ x < e[i]
    BY <2>0
  <2>4. i - 1 \in 0 .. n /\ i - 1 \in Interval(0, n) /\ (i - 1) + 1 = i
    BY <2>3 DEF Interval
  <2>5. ~(x < e[i - 1])
    <3>1. ASSUME x < e[i - 1] PROVE FALSE
      <4>1. i - 1 \in A /\ f[i] = i
        BY <2>4, <3>1
      <4>2. f[i - 1] = i - 1
        BY <4>1
      <4>3. f[i] <= f[i - 1]
        BY <2>2, <4>1
      <4> HIDE DEF f
      <4> QED BY <2>3, <4>1, <4>2, <4>3
    <3> QED BY <3>1
  <2>6. x \in Interval(e[i - 1], e[i])
    BY <2>0, <2>3, <2>4, <2>5 DEF Interval
  <2> QED BY <2>4, <2>6
<1> QED BY <1>2, <1>4, <1>5

\* Shares of a whole: floor(i * G / n) grows from 0 to G.
LEMMA Shares ==
    ASSUME NEW G \in Nat, NEW n \in Nat \ {0}
    PROVE  /\ (0 * G) \div n = 0 /\ (n * G) \div n = G
           /\ \A i \in Nat : (i * G) \div n \in Nat
           /\ \A i, j \in Nat : i <= j => (i * G) \div n <= (j * G) \div n
<1>1. (0 * G) \div n = 0
  BY Z3
<1>2. (n * G) \div n = G
  BY Z3
<1>3. ASSUME NEW a \in Nat, NEW b \in Nat, a <= b
      PROVE  a \div n \in Nat /\ b \div n \in Nat /\ a \div n <= b \div n
  <2> DEFINE p == a \div n  q == b \div n
  <2>1. p \in Nat /\ q \in Nat /\ n * p <= a /\ b < n * q + n
    BY Z3
  <2> HIDE DEF p, q
  <2>2. p <= q
    <3>1. q + 1 <= p => n * (q + 1) <= n * p /\ n * (q + 1) = n * q + n
      BY <2>1, Z3
    <3>2. n * p \in Int /\ n * q \in Int /\ n * (q + 1) \in Int
      BY <2>1, Z3
    <3> QED BY <1>3, <2>1, <3>1, <3>2
  <2> QED BY <2>1, <2>2 DEF p, q
<1>4. ASSUME NEW i \in Nat, NEW j \in Nat, i <= j
      PROVE  i * G \in Nat /\ j * G \in Nat /\ i * G <= j * G
  BY <1>4, Z3
<1>5. \A i \in Nat : (i * G) \div n \in Nat
  BY <1>3, <1>4
<1>6. ASSUME NEW i \in Nat, NEW j \in Nat, i <= j PROVE (i * G) \div n <= (j * G) \div n
  BY <1>3, <1>4, <1>6
<1> QED BY <1>1, <1>2, <1>5, <1>6

\* The bands of an extent that tile_count_ix tiles are dealt to.
LEMMA GranulePieces ==
    ASSUME NEW n \in Nat \ {0}, NEW X \in Nat, NEW g \in Nat \ {0}
    PROVE  LET piece(i) == Interval(GranuleEdge(i, n, X, g), GranuleEnd(i, n, X, g)) IN
           /\ \A i \in Interval(0, n) : piece(i) \subseteq Interval(0, X)
           /\ \A i \in Interval(0, n) : GranuleEdge(i, n, X, g) \in Nat
                                        /\ GranuleEnd(i, n, X, g) \in Nat
           /\ \A i, j \in Interval(0, n), x \in Int : x \in piece(i) /\ x \in piece(j) => i = j
           /\ \A x \in Interval(0, X) : \E i \in Interval(0, n) : x \in piece(i)
<1> DEFINE G == (X + g - 1) \div g
           e == [i \in 0 .. n |-> GranuleEdge(i, n, X, g)]
           h(i) == (i * G) \div n
<1>1. G \in Nat /\ X <= G * g /\ G * g \in Nat
  <2> DEFINE y == X + g - 1  q == y \div g
  <2>1. y \in Nat
    OBVIOUS
  <2> HIDE DEF y
  <2>2. q \in Nat /\ y < g * q + g /\ g * q \in Nat
    BY <2>1, Z3
  <2> HIDE DEF q
  <2>3. g * q = q * g
    BY <2>2, Z3
  <2>4. G = q
    BY DEF q, y
  <2>5. y = X + g - 1
    BY DEF y
  <2> HIDE DEF G
  <2> QED BY <2>2, <2>3, <2>4, <2>5
<1> HIDE DEF G
<1>2. /\ h(0) = 0 /\ h(n) = G
      /\ \A i \in Nat : h(i) \in Nat
      /\ \A i, j \in Nat : i <= j => h(i) <= h(j)
  BY <1>1, Shares
<1>3. \A i : GranuleEdge(i, n, X, g) = imin(h(i) * g, X)
  BY DEF GranuleEdge, G
<1>4. /\ h(0) * g = 0
      /\ \A i \in Nat : h(i) * g \in Nat
      /\ \A i, j \in Nat : i <= j => h(i) * g <= h(j) * g
  <2> HIDE DEF h
  <2>1. ASSUME NEW a \in Nat, NEW b \in Nat, a <= b
        PROVE  a * g \in Nat /\ b * g \in Nat /\ a * g <= b * g
    BY <2>1, Z3
  <2> QED BY <1>2, <2>1
<1>5. /\ \A i \in 0 .. n : e[i] = GranuleEdge(i, n, X, g) /\ e[i] \in Nat
      /\ e[0] = 0 /\ e[n] = X
      /\ \A i, j \in 0 .. n : i <= j => e[i] <= e[j]
  <2>1. \A i \in 0 .. n : e[i] = imin(h(i) * g, X)
    BY <1>3
  <2>2. h(n) * g = G * g
    BY <1>2
  <2> HIDE DEF h, e
  <2>3. e[0] = 0 /\ e[n] = X
    BY <1>1, <1>4, <2>1, <2>2 DEF imin
  <2>4. \A i \in 0 .. n : e[i] \in Nat
    BY <1>4, <2>1 DEF imin
  <2>5. \A i, j \in 0 .. n : i <= j => e[i] <= e[j]
    BY <1>4, <2>1 DEF imin
  <2>6. \A i \in 0 .. n : e[i] = GranuleEdge(i, n, X, g)
    BY <1>3, <2>1
  <2> QED BY <2>3, <2>4, <2>5, <2>6
<1>6. ASSUME NEW i \in Interval(0, n)
      PROVE  /\ GranuleEdge(i, n, X, g) = e[i] /\ GranuleEnd(i, n, X, g) = e[i + 1]
             /\ e[i] \in Nat /\ e[i + 1] \in Nat
  <2>1. i \in 0 .. n /\ i + 1 \in 0 .. n
    BY DEF Interval
  <2> HIDE DEF e
  <2> QED BY <1>5, <2>1 DEF GranuleEnd
<1> HIDE DEF e
<1>7. /\ \A i \in Interval(0, n) : Interval(e[i], e[i + 1]) \subseteq Interval(0, X)
      /\ \A i, j \in Interval(0, n), x \in Int :
            x \in Interval(e[i], e[i + 1]) /\ x \in Interval(e[j], e[j + 1]) => i = j
      /\ \A x \in Interval(0, X) : \E i \in Interval(0, n) : x \in Interval(e[i], e[i + 1])
  BY <1>5, Pieces
<1> QED BY <1>6, <1>7

\* The same for the bands of K.
LEMMA BandPieces ==
    ASSUME NEW n \in Nat \ {0}, NEW K \in Nat
    PROVE  LET piece(t) == Interval(KEdge(t, n, K), KEnd(t, n, K)) IN
           /\ \A t \in Interval(0, n) : piece(t) \subseteq Interval(0, K)
           /\ \A t, u \in Interval(0, n), x \in Int : x \in piece(t) /\ x \in piece(u) => t = u
           /\ \A x \in Interval(0, K) : \E t \in Interval(0, n) : x \in piece(t)
<1> DEFINE e == [i \in 0 .. n |-> KEdge(i, n, K)]
<1>1. /\ \A i \in 0 .. n : e[i] \in Nat
      /\ e[0] = 0 /\ e[n] = K
      /\ \A i, j \in 0 .. n : i <= j => e[i] <= e[j]
  <2>1. /\ (0 * K) \div n = 0 /\ (n * K) \div n = K
        /\ \A i \in Nat : (i * K) \div n \in Nat
        /\ \A i, j \in Nat : i <= j => (i * K) \div n <= (j * K) \div n
    BY Shares
  <2> QED BY <2>1 DEF KEdge
<1>2. ASSUME NEW i \in Interval(0, n) PROVE KEdge(i, n, K) = e[i] /\ KEnd(i, n, K) = e[i + 1]
  <2>1. i \in 0 .. n /\ i + 1 \in 0 .. n
    BY DEF Interval
  <2> QED BY <1>1, <2>1 DEF KEnd
<1> HIDE DEF e
<1>3. /\ \A i \in Interval(0, n) : Interval(e[i], e[i + 1]) \subseteq Interval(0, K)
      /\ \A i, j \in Interval(0, n), x \in Int :
            x \in Interval(e[i], e[i + 1]) /\ x \in Interval(e[j], e[j + 1]) => i = j
      /\ \A x \in Interval(0, K) : \E i \in Interval(0, n) : x \in Interval(e[i], e[i + 1])
  BY <1>1, Pieces
<1> QED BY <1>2, <1>3

\* A grid has rows and columns, and no more parts than threads were asked for.
LEMMA GridCounts ==
    ASSUME NEW s \in Shapes, NEW nt0 \in Nat \ {0}, nt0 <= MAX_THREADS, s.M > 0, s.N > 0
    PROVE  LET g == Grid(s, nt0) IN
           /\ g.ntm \in Nat \ {0} /\ g.ntn \in Nat \ {0}
           /\ g.ntm * g.ntn <= nt0
<1> DEFINE pm == AtLeast1(s.M \div MR)
           pn == AtLeast1(s.N \div NR)
           par == IF CutK(s) THEN AtLeast1(s.K \div KSPLIT_MIN_BAND) ELSE pm * pn
           nt == imin(nt0, par)
           share == Work(s) >= SHARE_B_WORK /\ pm >= nt /\ ~CutK(s)
<1>1. s.M \in Int /\ s.N \in Int /\ s.K \in Int
  BY ShapesAssumption
<1>2. s.M \div MR \in Int /\ s.N \div NR \in Int /\ s.K \div KSPLIT_MIN_BAND \in Int
  BY <1>1, TileAssumption
<1>3. pm \in Nat \ {0} /\ pn \in Nat \ {0} /\ AtLeast1(s.K \div KSPLIT_MIN_BAND) \in Nat \ {0}
  BY <1>2 DEF AtLeast1, imax
<1>4. pm * pn \in Nat \ {0}
  <2> HIDE DEF pm, pn
  <2> QED BY <1>3
<1>5. nt \in Nat \ {0} /\ nt <= nt0
  <2>1. par \in Nat \ {0}
    <3> HIDE DEF pm, pn
    <3> QED BY <1>3, <1>4
  <2> HIDE DEF par
  <2> QED BY <2>1 DEF imin
<1>6. Grid(s, nt0) = CASE CutK(s) -> [ntm |-> 1, ntn |-> nt, share |-> FALSE]
                       [] share   -> [ntm |-> nt, ntn |-> 1, share |-> TRUE]
                       [] OTHER   -> BestGrid(s, nt)
  BY DEF Grid
<1>7. BestGrid(s, nt).ntm \in Nat \ {0} /\ BestGrid(s, nt).ntn \in Nat \ {0}
      /\ BestGrid(s, nt).ntm * BestGrid(s, nt).ntn <= nt
  <2> HIDE DEF nt
  <2> DEFINE cands == {c \in 1 .. MAX_THREADS : c <= nt /\ c <= pm}
             cn(c) == AtLeast1(imin(nt \div c, pn))
             used(c) == c * cn(c)
             cost(c) == s.N * c + s.M * cn(c)
             beats(c, d) == \/ used(c) > used(d)
                            \/ (used(c) = used(d) /\ cost(c) < cost(d))
                            \/ (used(c) = used(d) /\ cost(c) = cost(d) /\ c >= d)
             best == CHOOSE c \in cands : \A d \in cands : beats(c, d)
  <2>1. 1 \in cands
    BY <1>3, <1>5, ThreadsAssumption
  <2> HIDE DEF pm, pn
  <2>2. ASSUME NEW c \in cands
        PROVE  /\ c \in Nat \ {0} /\ c <= MAX_THREADS /\ cn(c) \in Nat \ {0}
               /\ used(c) \in Nat /\ used(c) <= nt /\ cost(c) \in Nat
    <3>1. c \in Nat \ {0} /\ c <= nt /\ c <= MAX_THREADS
      BY ThreadsAssumption
    <3> DEFINE q == nt \div c
    <3>2. q \in Nat \ {0} /\ c * q <= nt /\ c * q \in Nat
      <4>1. q \in Nat /\ c * q <= nt /\ nt < (c * q) + c /\ c * q \in Nat
        BY <1>5, <3>1, Z3
      <4>2. q = 0 => c * q = 0
        BY <3>1, Z3
      <4> HIDE DEF q
      <4> QED BY <1>5, <3>1, <4>1, <4>2
    <3>3. cn(c) = AtLeast1(imin(q, pn))
      OBVIOUS
    <3> HIDE DEF q, cn
    <3>4. cn(c) \in Nat \ {0} /\ cn(c) <= q
      BY <1>3, <3>2, <3>3 DEF AtLeast1, imin, imax
    <3> DEFINE m == cn(c)
    <3>5. m \in Nat \ {0} /\ m <= q
      BY <3>4
    <3> HIDE DEF m
    <3>6. c * m \in Nat /\ c * m <= c * q
      BY <3>1, <3>2, <3>5, Z3
    <3>7. s.N * c \in Nat /\ s.M * m \in Nat
      <4> DEFINE a == s.N  b == s.M
      <4>1. a \in Nat /\ b \in Nat
        BY <1>1
      <4> HIDE DEF a, b
      <4>2. a * c \in Nat /\ b * m \in Nat
        BY <3>1, <3>5, <4>1, Z3
      <4> QED BY <4>2 DEF a, b
    <3>8. used(c) = c * m /\ cost(c) = s.N * c + s.M * m
      BY DEF m
    <3> QED BY <1>5, <3>1, <3>2, <3>4, <3>6, <3>7, <3>8
  <2> HIDE DEF cands, cn, used, cost
  <2>3. \E c \in cands : \A d \in cands : beats(c, d)
    <3> DEFINE A == {c \in cands : \A d \in cands : used(d) <= used(c)}
               B == {c \in A : \A d \in A : cost(c) <= cost(d)}
               f == [c \in cands |-> nt - used(c)]
               h == [c \in A |-> cost(c)]
               k == [c \in B |-> MAX_THREADS - c]
    <3>1. \E c \in cands : \A d \in cands : f[c] <= f[d]
      <4>1. \A c \in cands : f[c] \in Nat
        BY <1>5, <2>2
      <4> HIDE DEF f
      <4> QED BY <2>1, <4>1, LeastValue
    <3>2. A # {}
      BY <1>5, <2>2, <3>1
    <3>3. \E c \in A : \A d \in A : h[c] <= h[d]
      <4>1. \A c \in A : h[c] \in Nat
        BY <2>2
      <4> HIDE DEF h, A
      <4> QED BY <3>2, <4>1, LeastValue
    <3>4. B # {}
      <4>1. \A c \in A : h[c] = cost(c)
        OBVIOUS
      <4> HIDE DEF h, A
      <4> QED BY <3>3, <4>1
    <3>5. \E c \in B : \A d \in B : k[c] <= k[d]
      <4>1. \A c \in B : k[c] \in Nat
        BY <2>2, ThreadsAssumption
      <4> HIDE DEF k, B
      <4> QED BY <3>4, <4>1, LeastValue
    <3>6. PICK c \in B : \A d \in B : k[c] <= k[d]
      BY <3>5
    <3>7. ASSUME NEW d \in B PROVE d <= c
      <4>1. k[c] <= k[d] /\ k[c] = MAX_THREADS - c /\ k[d] = MAX_THREADS - d
        BY <3>6
      <4>2. c \in Nat /\ d \in Nat
        BY <2>2
      <4> HIDE DEF k
      <4> QED BY <4>1, <4>2, ThreadsAssumption
    <3>8. ASSUME NEW d \in cands PROVE beats(c, d)
      <4>0. /\ used(c) \in Nat /\ used(d) \in Nat /\ cost(c) \in Nat /\ cost(d) \in Nat
            /\ c \in Nat /\ d \in Nat /\ used(d) <= used(c)
        BY <2>2
      <4>1. CASE used(d) # used(c)
        BY <4>0, <4>1
      <4>2. CASE used(d) = used(c)
        <5>1. d \in A
          BY <4>2
        <5>2. cost(c) <= cost(d)
          BY <5>1
        <5>3. CASE cost(d) # cost(c)
          BY <4>0, <4>2, <5>2, <5>3
        <5>4. CASE cost(d) = cost(c)
          <6>1. d \in B
            BY <5>1, <5>4
          <6> QED BY <3>7, <4>0, <4>2, <5>4, <6>1
        <5> QED BY <5>3, <5>4
      <4> QED BY <4>1, <4>2
    <3> QED BY <3>8
  <2>4. best \in cands
    BY <2>3
  <2>5. BestGrid(s, nt) = [ntm |-> best, ntn |-> cn(best), share |-> FALSE]
    BY DEF BestGrid, cands, cn, used, cost, pm, pn
  <2>6. used(best) = best * cn(best)
    BY DEF used
  <2> HIDE DEF best
  <2> QED BY <2>2, <2>4, <2>5, <2>6
<1> HIDE DEF nt, share
<1>8. CASE CutK(s)
  <2>1. Grid(s, nt0) = [ntm |-> 1, ntn |-> nt, share |-> FALSE]
    BY <1>6, <1>8 DEF share
  <2> QED BY <1>5, <2>1
<1>9. CASE share
  <2>1. Grid(s, nt0) = [ntm |-> nt, ntn |-> 1, share |-> TRUE]
    BY <1>6, <1>9 DEF share
  <2> QED BY <1>5, <2>1
<1>10. CASE ~CutK(s) /\ ~share
  <2>1. Grid(s, nt0) = BestGrid(s, nt)
    BY <1>6, <1>10
  <2> DEFINE x == BestGrid(s, nt).ntm * BestGrid(s, nt).ntn
  <2>2. x \in Int /\ x <= nt
    <3> DEFINE a == BestGrid(s, nt).ntm  b == BestGrid(s, nt).ntn
    <3> HIDE DEF a, b
    <3>1. a * b \in Int
      BY <1>7 DEF a, b
    <3> QED BY <1>7, <3>1 DEF a, b
  <2> HIDE DEF x
  <2>3. x <= nt0
    BY <1>5, <2>2
  <2> QED BY <1>7, <2>1, <2>3 DEF x
<1> QED BY <1>8, <1>9, <1>10

\* The cells of a record, those of a shape, and the depths of a band.
Rect(T) == Cells(T.m0, T.m1, T.n0, T.n1)
All(s) == Cells(0, s.M, 0, s.N)
KBand(T) == Interval(T.k0, T.k1)

\* The first n records of R share the work of shape s.
Divided(R, n, s) ==
    /\ \A t \in Interval(0, n) :
          /\ R[t].s = s /\ R[t].tid = t
          /\ R[t].nthr = R[0].nthr /\ R[t].ksplit = R[0].ksplit
          /\ R[t].m0 \in Int /\ R[t].m1 \in Int /\ R[t].n0 \in Int /\ R[t].n1 \in Int
          /\ Rect(R[t]) \subseteq All(s)
          /\ t >= R[t].nthr => R[t].m0 >= R[t].m1
    /\ \A t, u \in Interval(0, n), c \in All(s) : c \in Rect(R[t]) /\ c \in Rect(R[u]) => t = u
    /\ \A c \in All(s) : \E t \in Interval(0, n) : c \in Rect(R[t])
    /\ R[0].nthr \in Nat \ {0} /\ R[0].nthr <= n /\ n \in Nat /\ n <= MAX_THREADS
    /\ R[0].ksplit \in BOOLEAN
    /\ R[0].ksplit =>
          /\ CutK(s)
          /\ \A t \in Interval(0, R[0].nthr) :
                /\ R[t].m0 = 0 /\ R[t].m1 = s.M
                /\ KBand(R[t]) \subseteq Interval(0, s.K)
          /\ \A t, u \in Interval(0, R[0].nthr), k \in Int :
                k \in KBand(R[t]) /\ k \in KBand(R[u]) => t = u
          /\ \A k \in Interval(0, s.K) : \E t \in Interval(0, R[0].nthr) : k \in KBand(R[t])

\* Slot t is row t \div ntn, column t % ntn of the grid.
LEMMA Places2D ==
    ASSUME NEW a \in Nat \ {0}, NEW b \in Nat \ {0}
    PROVE  /\ \A t \in Interval(0, a * b) :
                 t \div b \in Interval(0, a) /\ t - (t \div b) * b \in Interval(0, b)
           /\ \A i \in Interval(0, a), j \in Interval(0, b) :
                 /\ i * b + j \in Interval(0, a * b)
                 /\ (i * b + j) \div b = i /\ (i * b + j) - i * b = j
<1>1. ASSUME NEW t \in Interval(0, a * b)
      PROVE  t \div b \in Interval(0, a) /\ t - (t \div b) * b \in Interval(0, b)
  <2> DEFINE q == t \div b
  <2>0. a * b \in Int
    BY Z3
  <2>1. t \in Nat /\ t < a * b
    BY <2>0, IntervalLemma
  <2>2. q \in Nat /\ q * b <= t /\ t < q * b + b /\ q * b \in Nat
    BY <2>1, Z3
  <2> HIDE DEF q
  <2>3. q < a
    <3>1. a <= q => a * b <= q * b
      BY <2>2, Z3
    <3> QED BY <2>0, <2>1, <2>2, <3>1
  <2>4. q \in Interval(0, a) /\ t - q * b \in Interval(0, b)
    BY <2>1, <2>2, <2>3 DEF Interval
  <2> QED BY <2>4 DEF q
<1>2. ASSUME NEW i \in Interval(0, a), NEW j \in Interval(0, b)
      PROVE  /\ i * b + j \in Interval(0, a * b)
             /\ (i * b + j) \div b = i /\ (i * b + j) - i * b = j
  <2>1. i \in Nat /\ i + 1 <= a /\ j \in Nat /\ j < b
    BY DEF Interval
  <2>2. i * b \in Nat /\ (i + 1) * b <= a * b /\ (i + 1) * b = (i * b) + b /\ a * b \in Nat
    BY <2>1, Z3
  <2>3. (i * b + j) \div b = i
    BY <2>1, Z3
  <2>4. (i * b + j) - i * b = j
    BY <2>1, <2>2
  <2>5. i * b + j \in Interval(0, a * b)
    BY <2>1, <2>2 DEF Interval
  <2> QED BY <2>3, <2>4, <2>5
<1> QED BY <1>1, <1>2

LEMMA EdgeTypes ==
    ASSUME NEW i \in Int, NEW n \in Nat \ {0}, NEW X \in Int, NEW g \in Nat \ {0}
    PROVE  GranuleEdge(i, n, X, g) \in Int
<1> DEFINE y == X + g - 1  tiles == y \div g
<1>1. y \in Int
  OBVIOUS
<1> HIDE DEF y
<1>2. tiles \in Int
  BY <1>1, Z3
<1> HIDE DEF tiles
<1>3. i * tiles \in Int
  BY <1>2, Z3
<1> DEFINE z == i * tiles  w == z \div n
<1> HIDE DEF z
<1>4. w \in Int
  BY <1>3, Z3 DEF z
<1> HIDE DEF w
<1>5. w * g \in Int
  BY <1>4, Z3
<1>6. GranuleEdge(i, n, X, g) = imin(w * g, X)
  BY DEF GranuleEdge, w, z, tiles, y
<1> QED BY <1>5, <1>6 DEF imin

LEMMA Tiling ==
    ASSUME NEW s \in Shapes, s.M > 0, s.N > 0, s.K > 0,
           NEW nt0 \in Nat \ {0}, NEW n \in Nat, nt0 <= n, n <= MAX_THREADS,
           NEW R, \A t \in Interval(0, n) : R[t] = TaskFor(s, Grid(s, nt0), t)
    PROVE  Divided(R, n, s)
<1> DEFINE g == Grid(s, nt0)
           M == s.M  N == s.N  K == s.K
           a == g.ntm  b == g.ntn  nt == a * b
           gran == IF CutK(s) THEN VEC ELSE NR
           row(i) == Interval(GranuleEdge(i, a, M, MR), GranuleEnd(i, a, M, MR))
           col(j) == Interval(GranuleEdge(j, b, N, gran), GranuleEnd(j, b, N, gran))
           gi(t) == t \div b
           gj(t) == t - (t \div b) * b
<1>1. M \in Nat \ {0} /\ N \in Nat \ {0} /\ K \in Nat \ {0} /\ MR \in Nat \ {0} /\ gran \in Nat \ {0}
  BY ShapesAssumption, TileAssumption
<1>2. a \in Nat \ {0} /\ b \in Nat \ {0} /\ nt <= nt0
  <2>1. nt0 <= MAX_THREADS
    BY ThreadsAssumption
  <2> QED BY <1>1, <2>1, GridCounts
<1>3. CutK(s) => a = 1
  BY GridLemma
<1> HIDE DEF g, M, N, K, gran, a, b
<1>4. nt \in Nat \ {0} /\ nt <= n
  <2>1. a * b \in Nat \ {0}
    BY <1>2, Z3
  <2> QED BY <1>2, <2>1
<1> HIDE DEF nt
<1>5. ASSUME NEW t \in Interval(0, n)
      PROVE  /\ t \in Nat
             /\ R[t].s = s /\ R[t].tid = t /\ R[t].nthr = nt /\ R[t].ksplit = CutK(s)
             /\ R[t].m0 = GranuleEdge(gi(t), a, M, MR)
             /\ R[t].n0 = GranuleEdge(gj(t), b, N, gran)
             /\ R[t].m1 = IF t < nt THEN GranuleEnd(gi(t), a, M, MR) ELSE R[t].m0
             /\ R[t].n1 = IF t < nt THEN GranuleEnd(gj(t), b, N, gran) ELSE R[t].n0
             /\ KBand(R[t]) = Interval(KEdge(t, nt, K), KEnd(t, nt, K))
  <2>1. R[t] = TaskFor(s, g, t) /\ t \in Nat
    BY DEF g, Interval
  <2> QED BY <2>1 DEF TaskFor, a, b, nt, M, N, K, gran, KBand
<1>6. /\ \A i \in Interval(0, a) : row(i) \subseteq Interval(0, M)
      /\ \A i \in Interval(0, a) : GranuleEdge(i, a, M, MR) \in Nat /\ GranuleEnd(i, a, M, MR) \in Nat
      /\ \A i, j \in Interval(0, a), x \in Int : x \in row(i) /\ x \in row(j) => i = j
      /\ \A x \in Interval(0, M) : \E i \in Interval(0, a) : x \in row(i)
  BY <1>1, <1>2, GranulePieces
<1>7. /\ \A i \in Interval(0, b) : col(i) \subseteq Interval(0, N)
      /\ \A i \in Interval(0, b) : GranuleEdge(i, b, N, gran) \in Nat /\ GranuleEnd(i, b, N, gran) \in Nat
      /\ \A i, j \in Interval(0, b), x \in Int : x \in col(i) /\ x \in col(j) => i = j
      /\ \A x \in Interval(0, N) : \E i \in Interval(0, b) : x \in col(i)
  BY <1>1, <1>2, GranulePieces
<1> HIDE DEF row, col
<1>8. ASSUME NEW t \in Interval(0, n), t < nt
      PROVE  /\ gi(t) \in Interval(0, a) /\ gj(t) \in Interval(0, b)
             /\ Rect(R[t]) = row(gi(t)) \X col(gj(t))
             /\ R[t].m0 \in Int /\ R[t].m1 \in Int /\ R[t].n0 \in Int /\ R[t].n1 \in Int
  <2>1. t \in Interval(0, a * b)
    BY <1>4, <1>5, <1>8 DEF nt, Interval
  <2>2. gi(t) \in Interval(0, a) /\ gj(t) \in Interval(0, b)
    BY <1>2, <2>1, Places2D
  <2> HIDE DEF gi, gj
  <2>3. /\ R[t].m0 = GranuleEdge(gi(t), a, M, MR) /\ R[t].m1 = GranuleEnd(gi(t), a, M, MR)
        /\ R[t].n0 = GranuleEdge(gj(t), b, N, gran) /\ R[t].n1 = GranuleEnd(gj(t), b, N, gran)
    BY <1>5, <1>8 DEF gi, gj
  <2> QED BY <1>6, <1>7, <2>2, <2>3 DEF Rect, Cells, row, col, gi, gj
<1>9. ASSUME NEW t \in Interval(0, n), ~(t < nt)
      PROVE  /\ R[t].m0 \in Int /\ R[t].m1 \in Int /\ R[t].n0 \in Int /\ R[t].n1 \in Int
             /\ R[t].m1 = R[t].m0 /\ Rect(R[t]) = {}
  <2>1. t \in Nat /\ R[t].m1 = R[t].m0 /\ R[t].n1 = R[t].n0
    BY <1>5, <1>9
  <2>2. gi(t) \in Int /\ gj(t) \in Int
    <3> DEFINE q == t \div b
    <3>1. q \in Int
      BY <1>2, <2>1, Z3
    <3> HIDE DEF q
    <3>2. q * b \in Int
      BY <1>2, <3>1, Z3
    <3>3. t - q * b \in Int
      BY <2>1, <3>2
    <3> QED BY <3>1, <3>3 DEF q
  <2>3. R[t].m0 \in Int /\ R[t].n0 \in Int
    <3> DEFINE x == gi(t)  y == gj(t)
    <3>1. R[t].m0 = GranuleEdge(x, a, M, MR) /\ R[t].n0 = GranuleEdge(y, b, N, gran)
      BY <1>5
    <3>2. x \in Int /\ y \in Int
      BY <2>2
    <3> HIDE DEF x, y
    <3>3. M \in Int /\ N \in Int
      BY <1>1
    <3>4. GranuleEdge(x, a, M, MR) \in Int
      BY <1>1, <1>2, <3>2, <3>3, EdgeTypes
    <3>5. GranuleEdge(y, b, N, gran) \in Int
      BY <1>1, <1>2, <3>2, <3>3, EdgeTypes
    <3> QED BY <3>1, <3>4, <3>5
  <2>4. Interval(R[t].m0, R[t].m1) = {}
    BY <2>1, <2>3 DEF Interval
  <2> QED BY <2>1, <2>3, <2>4 DEF Rect, Cells
<1>10. All(s) = Interval(0, M) \X Interval(0, N)
  BY DEF All, Cells, M, N
<1>11. ASSUME NEW t \in Interval(0, n) PROVE Rect(R[t]) \subseteq All(s)
  <2>1. CASE t < nt
    <3>1. row(gi(t)) \subseteq Interval(0, M) /\ col(gj(t)) \subseteq Interval(0, N)
      BY <1>6, <1>7, <1>8, <2>1
    <3> QED BY <1>8, <1>10, <2>1, <3>1
  <2>2. CASE ~(t < nt)
    BY <1>9, <2>2
  <2> QED BY <2>1, <2>2
<1>12. ASSUME NEW t \in Interval(0, n), NEW u \in Interval(0, n), NEW c \in All(s),
              c \in Rect(R[t]), c \in Rect(R[u])
       PROVE  t = u
  <2>1. t < nt /\ u < nt
    BY <1>9, <1>12
  <2>2. gi(t) = gi(u) /\ gj(t) = gj(u)
    <3>1. /\ gi(t) \in Interval(0, a) /\ gi(u) \in Interval(0, a)
          /\ gj(t) \in Interval(0, b) /\ gj(u) \in Interval(0, b)
          /\ c[1] \in row(gi(t)) /\ c[1] \in row(gi(u)) /\ c[2] \in col(gj(t)) /\ c[2] \in col(gj(u))
      BY <1>8, <1>12, <2>1
    <3>2. c[1] \in Int /\ c[2] \in Int
      BY <1>10 DEF Interval
    <3> HIDE DEF gi, gj
    <3> QED BY <1>6, <1>7, <3>1, <3>2
  <2> DEFINE q == t \div b  r == u \div b
  <2>3. q = r /\ t - q * b = u - r * b
    BY <2>2
  <2>4. t \in Nat /\ u \in Nat /\ q \in Int
    <3>1. t \in Nat /\ u \in Nat
      BY <1>5
    <3> QED BY <1>2, <3>1, Z3
  <2> HIDE DEF q, r
  <2>5. t - q * b = u - q * b /\ q * b \in Int
    <3>1. q * b \in Int
      BY <1>2, <2>4, Z3
    <3> QED BY <2>3, <3>1
  <2> DEFINE z == q * b
  <2> HIDE DEF z
  <2>6. z \in Int /\ t - z = u - z
    BY <2>5 DEF z
  <2> QED BY <2>4, <2>6
<1>13. ASSUME NEW c \in All(s) PROVE \E t \in Interval(0, n) : c \in Rect(R[t])
  <2>1. PICK i \in Interval(0, a) : c[1] \in row(i)
    BY <1>6, <1>10
  <2>2. PICK j \in Interval(0, b) : c[2] \in col(j)
    BY <1>7, <1>10
  <2> DEFINE t == i * b + j
  <2>3. t \in Interval(0, nt) /\ gi(t) = i /\ gj(t) = j
    <3>1. /\ i * b + j \in Interval(0, a * b)
          /\ (i * b + j) \div b = i /\ (i * b + j) - i * b = j
      BY <1>2, Places2D
    <3> QED BY <3>1 DEF nt
  <2> HIDE DEF t
  <2>4. t \in Interval(0, n) /\ t < nt
    BY <1>4, <2>3 DEF Interval
  <2>5. Rect(R[t]) = row(i) \X col(j)
    BY <1>8, <2>3, <2>4
  <2>6. c \in Rect(R[t])
    BY <1>10, <2>1, <2>2, <2>5
  <2> QED BY <2>4, <2>6
<1>14. 0 \in Interval(0, n) /\ R[0].nthr = nt /\ R[0].ksplit = CutK(s)
  <2>1. 0 \in Interval(0, n)
    BY <1>4 DEF Interval
  <2> QED BY <1>5, <2>1
<1>15. ASSUME NEW t \in Interval(0, n)
       PROVE  /\ R[t].s = s /\ R[t].tid = t
              /\ R[t].nthr = R[0].nthr /\ R[t].ksplit = R[0].ksplit
              /\ R[t].m0 \in Int /\ R[t].m1 \in Int /\ R[t].n0 \in Int /\ R[t].n1 \in Int
              /\ t >= R[t].nthr => R[t].m0 >= R[t].m1
  <2>1. R[t].s = s /\ R[t].tid = t /\ R[t].nthr = nt /\ R[t].ksplit = CutK(s)
    BY <1>5
  <2>2. CASE t < nt
    <3>1. ~(t >= nt)
      BY <1>4, <1>5, <2>2
    <3> QED BY <1>8, <1>14, <2>1, <2>2, <3>1
  <2>3. CASE ~(t < nt)
    BY <1>9, <1>14, <2>1, <2>3
  <2> QED BY <2>2, <2>3
<1>16. ASSUME CutK(s)
       PROVE  /\ \A t \in Interval(0, nt) :
                    /\ R[t].m0 = 0 /\ R[t].m1 = s.M
                    /\ KBand(R[t]) \subseteq Interval(0, s.K)
              /\ \A t, u \in Interval(0, nt), k \in Int :
                    k \in KBand(R[t]) /\ k \in KBand(R[u]) => t = u
              /\ \A k \in Interval(0, s.K) : \E t \in Interval(0, nt) : k \in KBand(R[t])
  <2>1. \A t \in Interval(0, nt) :
           t \in Interval(0, n) /\ KBand(R[t]) = Interval(KEdge(t, nt, K), KEnd(t, nt, K))
    BY <1>4, <1>5 DEF Interval
  <2>2. /\ \A t \in Interval(0, nt) : Interval(KEdge(t, nt, K), KEnd(t, nt, K)) \subseteq Interval(0, K)
        /\ \A t, u \in Interval(0, nt), x \in Int :
              x \in Interval(KEdge(t, nt, K), KEnd(t, nt, K))
                /\ x \in Interval(KEdge(u, nt, K), KEnd(u, nt, K)) => t = u
        /\ \A x \in Interval(0, K) : \E t \in Interval(0, nt) :
              x \in Interval(KEdge(t, nt, K), KEnd(t, nt, K))
    BY <1>1, <1>4, BandPieces
  <2>3. ASSUME NEW t \in Interval(0, nt) PROVE R[t].m0 = 0 /\ R[t].m1 = M
    <3>1. t \in Interval(0, n) /\ t < nt
      BY <1>4, <2>1 DEF Interval
    <3>2. gi(t) \in Interval(0, 1) /\ a = 1
      BY <1>3, <1>8, <1>16, <3>1
    <3>3. gi(t) = 0
      <4> HIDE DEF gi
      <4> QED BY <3>2 DEF Interval
    <3>4. R[t].m0 = GranuleEdge(0, 1, M, MR) /\ R[t].m1 = GranuleEnd(0, 1, M, MR)
      BY <1>5, <3>1, <3>2, <3>3
    <3>5. GranuleEnd(0, 1, M, MR) = M
      BY DEF GranuleEnd
    <3>6. GranuleEdge(0, 1, M, MR) = 0
      <4> DEFINE y == M + MR - 1  tiles == y \div MR
      <4>1. y \in Int
        BY <1>1
      <4> HIDE DEF y
      <4>2. tiles \in Int
        BY <1>1, <4>1, Z3
      <4> HIDE DEF tiles
      <4>3. ((0 * tiles) \div 1) * MR = 0
        BY <1>1, <4>2, Z3
      <4>4. GranuleEdge(0, 1, M, MR) = imin(((0 * tiles) \div 1) * MR, M)
        BY DEF GranuleEdge, tiles, y
      <4> QED BY <1>1, <4>3, <4>4 DEF imin
    <3> QED BY <3>4, <3>5, <3>6
  <2>4. M = s.M /\ K = s.K
    BY DEF M, K
  <2>5. \A t, u \in Interval(0, nt), k \in Int : k \in KBand(R[t]) /\ k \in KBand(R[u]) => t = u
    BY <2>1, <2>2
  <2>6. \A k \in Interval(0, K) : \E t \in Interval(0, nt) : k \in KBand(R[t])
    BY <2>1, <2>2
  <2> QED BY <2>1, <2>2, <2>3, <2>4, <2>5, <2>6
<1>17. CutK(s) \in BOOLEAN
  BY DEF CutK
<1> QED BY <1>4, <1>11, <1>12, <1>13, <1>14, <1>15, <1>16, <1>17 DEF Divided

----------------------------------------------------------------------------
(* What a buffer holds, cell by cell.  Rows do not overlap, so each cell of *)
(* the product has an address of its own.                                   *)

Untouched == [x \in Addr |-> Old]

\* The function f is stored at the cells of a rectangle.
Written(mem, base, cells, ld, f) ==
    [x \in DOMAIN mem |->
        IF \E c \in cells : base + At(c, ld) = x
        THEN f[CHOOSE c \in cells : base + At(c, ld) = x]
        ELSE mem[x]]

\* A buffer holds val[c] at every cell c of a product that lies in it, and is
\* otherwise as it was.
Holds(mem, s, val) ==
    /\ mem = [x \in Addr |-> mem[x]]
    /\ \A c \in All(s) : At(c, s.ldc) \in Addr => mem[At(c, s.ldc)] = val[c]
    /\ \A x \in Addr : (\A c \in All(s) : At(c, s.ldc) # x) => mem[x] = Old

\* Nothing between -k and k but 0 is a multiple of k,
LEMMA NoMultiple ==
    ASSUME NEW k \in Nat \ {0}, NEW d \in Int, k * d < k, 0 - k < k * d
    PROVE  d = 0
<1>1. CASE d >= 1
  BY <1>1, Z3
<1>2. CASE d <= 0 - 1
  BY <1>2, Z3
<1> QED BY <1>1, <1>2

\* so a stride no smaller than the width gives every cell an address of its own.
LEMMA CellsApart ==
    ASSUME NEW w \in Int, NEW cols \in Int, cols <= w,
           NEW c \in Int \X Interval(0, cols), NEW d \in Int \X Interval(0, cols),
           At(c, w) = At(d, w)
    PROVE  c = d
<1> DEFINE i == c[1]  j == c[2]  k == d[1]  l == d[2]
<1>1. /\ w \in Nat \ {0} /\ i \in Int /\ k \in Int /\ j \in Int /\ l \in Int
      /\ 0 <= j /\ j < w /\ 0 <= l /\ l < w /\ c = <<i, j>> /\ d = <<k, l>>
  BY DEF Interval
<1>2. i * w + j = k * w + l
  BY DEF At
<1> HIDE DEF i, j, k, l
<1>3. i * w \in Int /\ k * w \in Int /\ w * (i - k) = (i * w) - (k * w)
  BY <1>1, Z3
<1>4. i - k \in Int /\ w * (i - k) < w /\ 0 - w < w * (i - k)
  BY <1>1, <1>2, <1>3
<1>5. i - k = 0
  BY <1>1, <1>4, NoMultiple
<1>6. i = k
  BY <1>1, <1>5
<1>7. j = l
  BY <1>1, <1>2, <1>3, <1>6
<1> QED BY <1>1, <1>6, <1>7

LEMMA AddressInt ==
    ASSUME NEW s \in Shapes, NEW c \in All(s)
    PROVE  At(c, s.ldc) \in Int /\ At(c, s.N) \in Int /\ c \in Int \X Interval(0, s.N)
<1>1. c[1] \in Int /\ c[2] \in Int /\ s.ldc \in Int /\ s.N \in Int /\ c \in Int \X Interval(0, s.N)
  BY ShapesAssumption DEF All, Cells, Interval
<1> DEFINE i == c[1]  j == c[2]  l == s.ldc  n == s.N
<1> HIDE DEF i, j, l, n
<1>2. i * l + j \in Int /\ i * n + j \in Int
  BY <1>1, Z3 DEF i, j, l, n
<1> QED BY <1>1, <1>2 DEF At, i, j, l, n

\* What is stored at some cells of a product.
LEMMA WrittenHold ==
    ASSUME NEW s \in Shapes, NEW mem, NEW val, Holds(mem, s, val),
           NEW cells, cells \subseteq All(s), NEW f
    PROVE  Holds(Written(mem, 0, cells, s.ldc, f), s,
                 [c \in All(s) |-> IF c \in cells THEN f[c] ELSE val[c]])
<1> DEFINE new == Written(mem, 0, cells, s.ldc, f)
           val2 == [c \in All(s) |-> IF c \in cells THEN f[c] ELSE val[c]]
           on(x) == \E c \in cells : 0 + At(c, s.ldc) = x
           at0(x) == CHOOSE c \in cells : 0 + At(c, s.ldc) = x
<1>1. DOMAIN mem = Addr /\ new = [x \in DOMAIN mem |-> IF on(x) THEN f[at0(x)] ELSE mem[x]]
  BY DEF Holds, Written
<1>2. \A c \in All(s) : At(c, s.ldc) \in Int /\ 0 + At(c, s.ldc) = At(c, s.ldc)
  BY AddressInt
<1>3. ASSUME NEW c \in cells PROVE on(At(c, s.ldc)) /\ at0(At(c, s.ldc)) = c
  <2>1. 0 + At(c, s.ldc) = At(c, s.ldc)
    BY <1>2
  <2>2. on(At(c, s.ldc))
    BY <2>1
  <2>3. at0(At(c, s.ldc)) \in cells /\ 0 + At(at0(At(c, s.ldc)), s.ldc) = At(c, s.ldc)
    BY <2>2
  <2> DEFINE d == at0(At(c, s.ldc))
  <2> HIDE DEF d
  <2>4. d \in cells /\ At(d, s.ldc) = At(c, s.ldc)
    BY <1>2, <2>3 DEF d
  <2>5. d \in Int \X Interval(0, s.N) /\ c \in Int \X Interval(0, s.N)
    BY <2>4, AddressInt
  <2>6. s.ldc \in Int /\ s.N \in Int /\ s.N <= s.ldc
    BY ShapesAssumption
  <2>7. d = c
    BY <2>4, <2>5, <2>6, CellsApart
  <2> QED BY <2>2, <2>7 DEF d
<1>4. ASSUME NEW c \in All(s), c \notin cells PROVE ~on(At(c, s.ldc))
  <2> SUFFICES ASSUME NEW d \in cells, 0 + At(d, s.ldc) = At(c, s.ldc) PROVE FALSE
    OBVIOUS
  <2>1. At(d, s.ldc) = At(c, s.ldc)
    BY <1>2
  <2>2. d \in Int \X Interval(0, s.N) /\ c \in Int \X Interval(0, s.N)
    BY AddressInt
  <2>3. s.ldc \in Int /\ s.N \in Int /\ s.N <= s.ldc
    BY ShapesAssumption
  <2>4. d = c
    BY <2>1, <2>2, <2>3, CellsApart
  <2> QED BY <1>4, <2>4
<1>5. ASSUME NEW x, \A c \in All(s) : At(c, s.ldc) # x PROVE ~on(x)
  BY <1>2, <1>5
<1> HIDE DEF on, at0, new
<1>6. new = [x \in Addr |-> new[x]]
  BY <1>1
<1>7. ASSUME NEW c \in All(s), At(c, s.ldc) \in Addr PROVE new[At(c, s.ldc)] = val2[c]
  <2>1. CASE c \in cells
    BY <1>1, <1>3, <1>7, <2>1
  <2>2. CASE c \notin cells
    <3>1. new[At(c, s.ldc)] = mem[At(c, s.ldc)]
      BY <1>1, <1>4, <1>7, <2>2
    <3> QED BY <1>7, <2>2, <3>1 DEF Holds
  <2> QED BY <2>1, <2>2
<1>8. ASSUME NEW x \in Addr, \A c \in All(s) : At(c, s.ldc) # x PROVE new[x] = Old
  BY <1>1, <1>5, <1>8 DEF Holds
<1> HIDE DEF val2
<1>9. Holds(new, s, val2)
  BY <1>6, <1>7, <1>8 DEF Holds
<1> QED BY <1>9 DEF new, val2

LEMMA UntouchedHolds ==
    ASSUME NEW s \in Shapes
    PROVE  Holds(Untouched, s, [c \in All(s) |-> Old])
BY DEF Holds, Untouched

LEMMA HoldsSame ==
    ASSUME NEW s, NEW mem, NEW val, NEW val2, Holds(mem, s, val),
           \A c \in All(s) : At(c, s.ldc) \in Addr => val2[c] = val[c]
    PROVE  Holds(mem, s, val2)
BY DEF Holds

\* A buffer is determined by what it holds.
LEMMA HoldsOnce ==
    ASSUME NEW s, NEW mem, NEW mem2, NEW val, Holds(mem, s, val), Holds(mem2, s, val)
    PROVE  mem = mem2
<1>1. ASSUME NEW x \in Addr PROVE mem[x] = mem2[x]
  <2>1. CASE \E c \in All(s) : At(c, s.ldc) = x
    BY <2>1 DEF Holds
  <2>2. CASE \A c \in All(s) : At(c, s.ldc) # x
    BY <2>2 DEF Holds
  <2> QED BY <2>1, <2>2
<1>2. mem = [x \in Addr |-> mem[x]] /\ mem2 = [x \in Addr |-> mem2[x]]
  BY DEF Holds
<1> QED BY <1>1, <1>2

\* A buffer whose cells hold every term is the product.
LEMMA ProductHeld ==
    ASSUME NEW s \in Shapes, NEW mem, ~Empty(s),
           Holds(mem, s, [c \in All(s) |-> Interval(0, s.K)])
    PROVE  mem = Product(s)
<1> DEFINE f == [c \in All(s) |-> Interval(0, s.K)]
           old == [c \in All(s) |-> Old]
<1>1. Product(s) = Written(Untouched, 0, All(s), s.ldc, f)
  <2>1. \A x : (\E c \in All(s) : 0 + At(c, s.ldc) = x)
                => f[CHOOSE c \in All(s) : 0 + At(c, s.ldc) = x] = Interval(0, s.K)
    OBVIOUS
  <2> HIDE DEF f
  <2> QED BY <2>1 DEF Product, ProductIn, Stored, Written, Untouched, All
<1>2. Holds(Product(s), s, [c \in All(s) |-> IF c \in All(s) THEN f[c] ELSE old[c]])
  <2>1. Holds(Untouched, s, old)
    BY UntouchedHolds
  <2> HIDE DEF f, old
  <2>2. Holds(Written(Untouched, 0, All(s), s.ldc, f), s,
              [c \in All(s) |-> IF c \in All(s) THEN f[c] ELSE old[c]])
    BY <2>1, WrittenHold
  <2> QED BY <1>1, <2>2
<1>3. Holds(Product(s), s, f)
  BY <1>2, HoldsSame
<1> QED BY <1>3, HoldsOnce

\* Terms are added to the terms before them.
LEMMA AddTerms ==
    ASSUME NEW a \in Nat, NEW b \in Nat, a <= b
    PROVE  Add(Interval(0, a), Interval(a, b)) = Interval(0, b)
<1>1. Interval(a, b) # Bad /\ Interval(0, a) \notin {Old, Bad}
  <2>1. -1 \in Old /\ -2 \in Bad /\ -1 \notin Nat /\ -2 \notin Nat
    BY DEF Old, Bad
  <2>2. Interval(a, b) \subseteq Nat /\ Interval(0, a) \subseteq Nat
    BY DEF Interval
  <2> QED BY <2>1, <2>2
<1>2. Interval(0, a) \cap Interval(a, b) = {} /\ Interval(0, a) \cup Interval(a, b) = Interval(0, b)
  BY DEF Interval
<1> QED BY <1>1, <1>2 DEF Add

\* Row i, column j of a packed panel is at address i * N + j, and every address of
\* it is one.
LEMMA PanelCells ==
    ASSUME NEW s \in Shapes, ~Empty(s)
    PROVE  /\ s.M * s.N \in Nat
           /\ \A c \in All(s) : At(c, s.N) \in Interval(0, s.M * s.N)
           /\ \A x \in Interval(0, s.M * s.N) : \E c \in All(s) : At(c, s.N) = x
<1> DEFINE m == s.M  w == s.N
<1>1. m \in Nat \ {0} /\ w \in Nat \ {0}
  BY ShapesAssumption DEF Empty
<1> HIDE DEF m, w
<1>2. /\ \A t \in Interval(0, m * w) :
            t \div w \in Interval(0, m) /\ t - (t \div w) * w \in Interval(0, w)
      /\ \A i \in Interval(0, m), j \in Interval(0, w) : i * w + j \in Interval(0, m * w)
  BY <1>1, Places2D
<1>3. \A c \in All(s) : At(c, s.N) \in Interval(0, s.M * s.N)
  BY <1>2 DEF All, Cells, At, m, w
<1>4. ASSUME NEW x \in Interval(0, m * w)
      PROVE  \E c \in All(s) : At(c, s.N) = x
  <2> DEFINE i == x \div w  j == x - i * w  c == <<i, j>>
  <2>1. i \in Interval(0, m) /\ j \in Interval(0, w)
    BY <1>2
  <2>2. x \in Int /\ i \in Int
    BY <2>1, IntervalLemma, <1>1, Z3 DEF Interval
  <2> HIDE DEF i
  <2>3. i * w \in Int
    BY <1>1, <2>2, Z3
  <2>4. i * w + j = x
    BY <2>2, <2>3
  <2> HIDE DEF j
  <2>5. c \in All(s) /\ At(c, s.N) = x
    BY <2>1, <2>4 DEF All, Cells, At, m, w
  <2> HIDE DEF c
  <2> QED BY <2>5
<1>5. m * w \in Nat
  BY <1>1, Z3
<1> QED BY <1>3, <1>4, <1>5 DEF m, w

----------------------------------------------------------------------------
(* The scratch panels of a K-split: those of two threads are apart, and     *)
(* together they hold every depth once.                                     *)

Scratches == 0 .. MAX_THREADS * SCRATCH_FLOATS - 1

\* The panel of slot t of a product of shape s holds the depths of band v.
PanelIn(mem, s, t, v) ==
    \A x \in Interval(0, s.M * s.N) : mem[t * SCRATCH_FLOATS + x] = v

LEMMA PanelWritten ==
    ASSUME NEW s \in Shapes, ~Empty(s), CutK(s), NEW mem, DOMAIN mem = Scratches,
           NEW t \in Threads, NEW v, NEW f, f = [c \in All(s) |-> v],
           NEW new, new = Written(mem, t * SCRATCH_FLOATS, All(s), s.N, f)
    PROVE  /\ DOMAIN new = Scratches
           /\ PanelIn(new, s, t, v)
           /\ \A u \in Threads \ {t} : \A w : PanelIn(mem, s, u, w) => PanelIn(new, s, u, w)
<1> DEFINE S == SCRATCH_FLOATS
           size == s.M * s.N
<1>1. size \in Nat /\ S \in Nat \ {0} /\ size <= S /\ MAX_THREADS \in Nat \ {0}
  <2>1. s.M * s.N <= SCRATCH_FLOATS /\ SCRATCH_FLOATS \in Nat
    BY TileAssumption DEF CutK
  <2>2. s.M * s.N \in Nat \ {0}
    <3>1. s.M \in Nat \ {0} /\ s.N \in Nat \ {0}
      BY ShapesAssumption DEF Empty
    <3> QED BY <3>1
  <2> HIDE DEF size
  <2>3. size \in Nat \ {0} /\ size <= SCRATCH_FLOATS
    BY <2>1, <2>2 DEF size
  <2> QED BY <2>1, <2>3, ThreadsAssumption
<1>2. /\ \A c \in All(s) : At(c, s.N) \in Interval(0, size)
      /\ \A x \in Interval(0, size) : \E c \in All(s) : At(c, s.N) = x
  BY PanelCells
<1> HIDE DEF size
<1>3. /\ Scratches = Interval(0, MAX_THREADS * S) /\ Threads = Interval(0, MAX_THREADS)
      /\ \A x \in Interval(0, size) : x \in Interval(0, S)
  BY <1>1 DEF Scratches, Threads, Interval
<1>w. new = Written(mem, t * S, All(s), s.N, f) /\ \A c \in All(s) : f[c] = v
  OBVIOUS
<1> HIDE DEF S
<1>4. ASSUME NEW i \in Threads, NEW j \in Interval(0, S)
      PROVE  i * S + j \in Scratches /\ (i * S + j) \div S = i /\ (i * S + j) - i * S = j
  BY <1>1, <1>3, Places2D
<1>5. DOMAIN new = Scratches
  BY <1>w DEF Written
<1>6. PanelIn(new, s, t, v)
  <2> SUFFICES ASSUME NEW x \in Interval(0, size) PROVE new[t * S + x] = v
    BY DEF PanelIn, size, S
  <2>1. t * S + x \in Scratches
    BY <1>3, <1>4
  <2>2. \E c \in All(s) : t * S + At(c, s.N) = t * S + x
    BY <1>2
  <2> QED BY <1>w, <2>1, <2>2 DEF Written
<1>7. ASSUME NEW u \in Threads \ {t}, NEW w, PanelIn(mem, s, u, w)
      PROVE  PanelIn(new, s, u, w)
  <2> SUFFICES ASSUME NEW x \in Interval(0, size) PROVE new[u * S + x] = w
    BY DEF PanelIn, size, S
  <2>1. u * S + x \in Scratches /\ (u * S + x) \div S = u
    BY <1>3, <1>4
  <2>2. ASSUME NEW c \in All(s), t * S + At(c, s.N) = u * S + x PROVE FALSE
    <3>1. At(c, s.N) \in Interval(0, S)
      BY <1>2, <1>3
    <3>2. (t * S + At(c, s.N)) \div S = t
      BY <1>4, <3>1
    <3> QED BY <2>1, <2>2, <3>2
  <2>3. new[u * S + x] = mem[u * S + x]
    BY <1>w, <2>1, <2>2 DEF Written
  <2>4. mem[u * S + x] = w
    BY <1>7 DEF PanelIn, size, S
  <2> QED BY <2>3, <2>4
<1> QED BY <1>5, <1>6, <1>7 DEF S

\* The panels of all bands together hold every term once.
LEMMA PanelsSum ==
    ASSUME NEW K \in Nat, NEW n, NEW x, NEW B,
           \A u \in Interval(0, n) : scratch[u * SCRATCH_FLOATS + x] = B[u] /\ B[u] \subseteq Interval(0, K),
           \A u, w \in Interval(0, n), k \in Int : k \in B[u] /\ k \in B[w] => u = w,
           \A k \in Interval(0, K) : \E u \in Interval(0, n) : k \in B[u]
    PROVE  PanelSum(n, x) = Interval(0, K)
<1> DEFINE v(u) == scratch[u * SCRATCH_FLOATS + x]
<1>1. \A u \in Interval(0, n) : v(u) = B[u]
  OBVIOUS
<1>2. PanelSum(n, x) =
        IF \/ \E u \in Interval(0, n) : v(u) \in {Old, Bad}
           \/ \E u, w \in Interval(0, n) : u # w /\ v(u) \cap v(w) # {}
        THEN Bad
        ELSE UNION {v(u) : u \in Interval(0, n)}
  BY DEF PanelSum
<1> HIDE DEF v
<1>3. Interval(0, K) \subseteq Nat
  BY DEF Interval
<1>4. ASSUME NEW u \in Interval(0, n) PROVE v(u) \notin {Old, Bad}
  <2>1. -1 \in Old /\ -2 \in Bad /\ -1 \notin Nat /\ -2 \notin Nat
    BY DEF Old, Bad
  <2>2. v(u) \subseteq Nat
    BY <1>1, <1>3
  <2> QED BY <2>1, <2>2
<1>5. ASSUME NEW u \in Interval(0, n), NEW w \in Interval(0, n), u # w PROVE v(u) \cap v(w) = {}
  <2> SUFFICES ASSUME NEW k, k \in v(u), k \in v(w) PROVE FALSE
    OBVIOUS
  <2>1. k \in Int /\ k \in B[u] /\ k \in B[w]
    BY <1>1, <1>3
  <2> QED BY <1>5, <2>1
<1>6. UNION {v(u) : u \in Interval(0, n)} = Interval(0, K)
  BY <1>1
<1> QED BY <1>2, <1>4, <1>5, <1>6

----------------------------------------------------------------------------
(* What the buffer holds during a call.  Value(t, c) is what cell c of the  *)
(* slice of thread t holds, given where the thread is; RightInv says that   *)
(* the buffer holds just that, whatever the other threads do.               *)

\* Thread 0 runs slices or waits for those of others.
Calling == at[0] \notin Serial

\* The records in use, and how many of them.
Recs == IF task[0].solo THEN task ELSE slot
Count == IF task[0].solo THEN 1 ELSE poolN
Crew == Interval(0, Count)

Completed(t) == IF t = 0 THEN at[0] = "join" ELSE done[t] = gen
Summed(t) == at[t] \in {"meet_reduce", "reduce"} \/ Completed(t)

Blocks == {"pack", "meet_micro", "micro", "meet_next", "next"}

InBlock(T, p) ==
    /\ p.jc \in Int /\ T.n0 <= p.jc /\ p.jc < T.n1
    /\ p.pc \in Nat /\ p.pc < T.s.K
    /\ p.ic \in Int /\ T.m0 <= p.ic /\ p.ic < T.m1

\* The depth that a block reaches; what its cells hold before and after.
Reach(T, p) == p.pc + imin(T.s.K - p.pc, KcEff(T, p))
Before(p) == IF p.pc = 0 THEN Old ELSE Interval(0, p.pc)
Multiplied(t, c) == at[t] \in {"meet_next", "next"} \/ c[1] < pos[t].ic
Blocked(t, c) ==
    LET T == Recs[t]
        p == pos[t]
    IN  IF c[2] < p.jc THEN Interval(0, T.s.K)
        ELSE IF c[2] >= p.jc + BlockN(T, p) THEN Old
        ELSE IF Multiplied(t, c) THEN Interval(0, Reach(T, p)) ELSE Before(p)

\* What cell c of the slice of thread t holds.
Value(t, c) ==
    IF Completed(t) THEN Interval(0, shape.K)
    ELSE IF at[t] \in Blocks THEN Blocked(t, c) ELSE Old

\* The thread whose slice has cell c.
Owner(R, n, c) == CHOOSE t \in Interval(0, n) : c \in Rect(R[t])
Values == [c \in All(shape) |-> Value(Owner(Recs, Count, c), c)]

Position(t) ==
    /\ at[t] \in Blocks => InBlock(Recs[t], pos[t]) /\ ~Recs[t].ksplit
    /\ at[t] \in {"pack", "meet_micro"} => pos[t].ic = Recs[t].m0
    /\ at[t] = "small" => ~Recs[t].ksplit
Banded(t) == Recs[t].ksplit /\ t < Recs[t].nthr
Panel(t) == Banded(t) /\ Summed(t) => PanelIn(scratch, shape, t, KBand(Recs[t]))

Progress ==
    /\ Divided(Recs, Count, shape)
    /\ Holds(C, shape, Values)
    /\ \A t \in Crew : Position(t) /\ Panel(t)
    /\ \A t \in Crew : at[t] = "reduce" => \A u \in Interval(0, Recs[t].nthr) : Summed(u)

Right ==
    /\ poolN \in {0, ceiling}
    /\ DOMAIN scratch = Scratches
    /\ calls \in Nat /\ (Busy => calls # 0)
    /\ at[0] \notin {"idle", "guard"} => ~Empty(shape) /\ shape.K > 0
    /\ at[0] \in {"guard", "entry", "publish"} => C = Untouched
    /\ at[0] = "publish" => Divided(slot, poolN, shape)
    /\ Calling => Progress

RightInv == Inv /\ TeamInv /\ Right

\* What the caller sees of a step is a step of the contract, or nothing.
Promised == [Contract!Next]_(Contract!vars)

LEMMA Unseen ==
    ASSUME shape' = shape,
           \/ Busy /\ Busy'
           \/ at'[0] = at[0] /\ C' = C /\ calls' = calls
    PROVE  Promised
BY DEF Promised, Contract!vars, Busy

LEMMA Called == ASSUME ~Busy, Busy', shape' \in Shapes PROVE Promised
BY DEF Promised, Contract!Next, Contract!Call, Busy

LEMMA Returned ==
    ASSUME Right, Busy, ~Busy', shape' = shape, calls' = calls, C' = Product(shape)
    PROVE  Promised
BY DEF Right, Promised, Contract!Next, Contract!Return, Busy

LEMMA InitRight == Init => RightInv
<1> SUFFICES ASSUME Init PROVE Right
  BY InitInv, InitTeam DEF RightInv
<1>1. at[0] = "idle" /\ poolN = 0 /\ calls = 0 /\ DOMAIN scratch = Scratches
  BY ThreadsLemma DEF Init, Scratches
<1> QED BY <1>1 DEF Right, Busy, Calling, Serial

\* The slices of a shape: whose a cell is.
LEMMA Owners ==
    ASSUME NEW s, NEW R, NEW n, Divided(R, n, s), NEW c \in All(s)
    PROVE  /\ Owner(R, n, c) \in Interval(0, n) /\ c \in Rect(R[Owner(R, n, c)])
           /\ \A t \in Interval(0, n) : c \in Rect(R[t]) => t = Owner(R, n, c)
<1>1. \E t \in Interval(0, n) : c \in Rect(R[t])
  BY DEF Divided
<1>2. Owner(R, n, c) \in Interval(0, n) /\ c \in Rect(R[Owner(R, n, c)])
  BY <1>1 DEF Owner
<1> QED BY <1>2 DEF Divided

\* A thread in its slice runs one of the records in use, and has not completed it.
LEMMA Working ==
    ASSUME RightInv, NEW t \in Threads, at[t] \in Inside
    PROVE  /\ Calling /\ Progress /\ t \in Crew /\ Recs[t] = task[t] /\ ~Completed(t)
           /\ Divided(Recs, Count, shape) /\ task[t].s = shape /\ shape \in Shapes
           /\ ~Empty(shape) /\ shape.K > 0 /\ Runs(t)
           /\ Rect(task[t]) \subseteq All(shape)
           /\ task[t].m0 \in Int /\ task[t].m1 \in Int /\ task[t].n0 \in Int /\ task[t].n1 \in Int
           /\ task[t].nthr \in Nat \ {0} /\ shape.K \in Nat \ {0}
<1>1. Calling /\ t \in Crew /\ Recs[t] = task[t]
  <2>1. CASE Alone(t)
    BY <2>1 DEF Alone, Calling, Serial, Inside, Crew, Count, Recs, Interval
  <2>2. CASE ~Alone(t)
    <3>1. Parallel /\ at[0] \notin Serial /\ poolN > 0 /\ task[t] = slot[t]
      BY <2>2, InsideAgrees DEF RightInv, Inside
    <3>2. ~task[0].solo
      BY <3>1 DEF Parallel, Serial
    <3>3. t \in Interval(0, poolN)
      <4>1. CASE t = 0
        BY <3>1, <4>1 DEF Interval, RightInv, Inv, Types
      <4>2. CASE t # 0
        <5>1. t \in Workers /\ at[t] # "absent"
          BY <4>2, ThreadsLemma DEF Inside
        <5>2. t \in Interval(1, poolN)
          BY <5>1 DEF RightInv, Inv, WorkerState
        <5> QED BY <5>2 DEF Interval
      <4> QED BY <4>1, <4>2
    <3> QED BY <3>1, <3>2, <3>3 DEF Calling, Crew, Count, Recs
  <2> QED BY <2>1, <2>2
<1>2. ~Completed(t)
  <2>1. CASE t = 0
    BY <2>1 DEF Completed, Inside
  <2>2. CASE t # 0
    <3>1. t \in Workers /\ at[t] \notin Resting
      BY <2>2, ThreadsLemma DEF Inside, Resting
    <3> QED BY <2>2, <3>1 DEF Completed, RightInv, Inv, WorkerState
  <2> QED BY <2>1, <2>2
<1>3. Progress /\ Divided(Recs, Count, shape)
  BY <1>1 DEF RightInv, Right, Progress
<1>4. ~Empty(shape) /\ shape.K > 0
  BY <1>1 DEF RightInv, Right, Calling, Serial
<1>5. shape \in Shapes /\ Runs(t)
  BY DEF RightInv, TeamInv, Records
<1>6. shape.K \in Nat \ {0}
  BY <1>4, <1>5, ShapesAssumption
<1> HIDE DEF Recs, Count
<1>7. /\ task[t].s = shape /\ Rect(task[t]) \subseteq All(shape)
      /\ task[t].m0 \in Int /\ task[t].m1 \in Int /\ task[t].n0 \in Int /\ task[t].n1 \in Int
      /\ task[t].nthr \in Nat \ {0}
  BY <1>1, <1>3 DEF Divided, Crew
<1> QED BY <1>1, <1>2, <1>3, <1>4, <1>5, <1>6, <1>7

\* Thread t has moved, and only t: the records and the other threads are as before.
OnlyOf(t) ==
    /\ shape' = shape /\ calls' = calls /\ ceiling' = ceiling /\ poolN' = poolN /\ slot' = slot
    /\ Recs' = Recs /\ Count' = Count
    /\ \A u \in Crew \ {t} : at'[u] = at[u] /\ pos'[u] = pos[u] /\ Completed(u)' = Completed(u)

LEMMA OthersKept ==
    ASSUME NEW t, OnlyOf(t), NEW u \in Crew \ {t}
    PROVE  /\ \A c : Value(u, c)' = Value(u, c)
           /\ Position(u)' = Position(u) /\ Summed(u)' = Summed(u) /\ Banded(u)' = Banded(u)
<1> USE DEF OnlyOf
<1>1. at'[u] = at[u] /\ pos'[u] = pos[u] /\ Completed(u)' = Completed(u) /\ Recs' = Recs
      /\ shape' = shape
  OBVIOUS
<1> HIDE DEF OnlyOf, Recs, Completed
<1>2. \A c : Multiplied(u, c)' = Multiplied(u, c)
  BY <1>1 DEF Multiplied
<1>3. \A c : Blocked(u, c)' = Blocked(u, c)
  BY <1>1, <1>2 DEF Blocked, Before
<1> HIDE DEF Blocked
<1>4. \A c : Value(u, c)' = Value(u, c)
  BY <1>1, <1>3 DEF Value
<1>5. Position(u)' = Position(u) /\ Summed(u)' = Summed(u) /\ Banded(u)' = Banded(u)
  BY <1>1 DEF Position, Summed, Banded
<1> QED BY <1>4, <1>5

\* Thread t has stored f at some cells of its slice.
Stores(t, cells, f) ==
    /\ cells \subseteq Rect(Recs[t])
    /\ C' = Written(C, 0, cells, shape.ldc, f)

LEMMA Filling ==
    ASSUME shape \in Shapes, Progress, NEW t \in Crew, NEW cells, NEW f, Stores(t, cells, f)
    PROVE  Holds(C', shape, [c \in All(shape) |-> IF c \in cells THEN f[c] ELSE Values[c]])
<1>1. Rect(Recs[t]) \subseteq All(shape)
  <2> HIDE DEF Recs, Count
  <2> QED BY DEF Progress, Divided, Crew
<1> QED BY <1>1, WrittenHold DEF Progress, Stores

\* Nothing stored is nothing changed.
LEMMA StoresNothing ==
    ASSUME Progress, UNCHANGED C, NEW t, NEW f
    PROVE  Stores(t, {}, f)
<1>1. C = [x \in Addr |-> C[x]]
  BY DEF Progress, Holds
<1>2. Written(C, 0, {}, shape.ldc, f) = C
  BY <1>1 DEF Written
<1> QED BY <1>2 DEF Stores

\* What the cells hold after a step of t.
LEMMA Filled ==
    ASSUME RightInv, Progress, NEW t \in Crew, OnlyOf(t), NEW cells, NEW f, Stores(t, cells, f),
           \A c \in Rect(Recs[t]) : At(c, shape.ldc) \in Addr =>
              Value(t, c)' = IF c \in cells THEN f[c] ELSE Value(t, c)
    PROVE  Holds(C, shape, Values)'
<1>1. shape \in Shapes /\ Divided(Recs, Count, shape)
  BY DEF RightInv, TeamInv, Records, Progress
<1>2. Holds(C', shape, [c \in All(shape) |-> IF c \in cells THEN f[c] ELSE Values[c]])
  BY <1>1, Filling
<1>3. shape' = shape /\ \A c : Owner(Recs, Count, c)' = Owner(Recs, Count, c)
  <2>1. shape' = shape /\ Recs' = Recs /\ Count' = Count
    BY DEF OnlyOf
  <2> HIDE DEF Recs, Count
  <2> QED BY <2>1 DEF Owner
<1>4. ASSUME NEW c \in All(shape), At(c, shape.ldc) \in Addr
      PROVE  Values'[c] = IF c \in cells THEN f[c] ELSE Values[c]
  <2>1. PICK o \in Crew : o = Owner(Recs, Count, c)
    BY <1>1, Owners DEF Crew
  <2>2. c \in Rect(Recs[o]) /\ (c \in Rect(Recs[t]) => t = o)
    BY <1>1, <2>1, Owners DEF Crew
  <2>3. Values'[c] = Value(o, c)' /\ Values[c] = Value(o, c)
    <3>1. Owner(Recs, Count, c)' = o /\ c \in All(shape)'
      BY <1>3, <2>1
    <3> QED BY <2>1, <3>1 DEF Values
  <2>4. CASE o = t
    BY <1>4, <2>2, <2>3, <2>4
  <2>5. CASE o # t
    <3>1. c \notin cells
      BY <2>2, <2>5 DEF Stores
    <3>2. Value(o, c)' = Value(o, c)
      BY <2>5, OthersKept
    <3> QED BY <2>3, <3>1, <3>2
  <2> QED BY <2>4, <2>5
<1> HIDE DEF Values
<1>5. Holds(C', shape, Values')
  BY <1>2, <1>4, HoldsSame
<1> QED BY <1>3, <1>5

\* Everybody has completed its slice: the buffer is the product.
LEMMA Completing ==
    ASSUME RightInv, Progress, ~Empty(shape), NEW cells, NEW f,
           Holds(C', shape, [c \in All(shape) |-> IF c \in cells THEN f[c] ELSE Values[c]]),
           \A u \in Crew : \A c \in Rect(Recs[u]) : At(c, shape.ldc) \in Addr =>
              (IF c \in cells THEN f[c] ELSE Value(u, c)) = Interval(0, shape.K)
    PROVE  C' = Product(shape)
<1>1. shape \in Shapes /\ Divided(Recs, Count, shape)
  BY DEF RightInv, TeamInv, Records, Progress
<1> DEFINE val == [c \in All(shape) |-> IF c \in cells THEN f[c] ELSE Values[c]]
           all == [c \in All(shape) |-> Interval(0, shape.K)]
<1>2. ASSUME NEW c \in All(shape), At(c, shape.ldc) \in Addr PROVE all[c] = val[c]
  <2> DEFINE o == Owner(Recs, Count, c)
  <2>1. o \in Crew /\ c \in Rect(Recs[o])
    BY <1>1, Owners DEF Crew
  <2>2. Values[c] = Value(o, c)
    BY DEF Values
  <2> HIDE DEF o
  <2> QED BY <1>2, <2>1, <2>2
<1>3. Holds(C', shape, val)
  OBVIOUS
<1> HIDE DEF val, all
<1>4. Holds(C', shape, all)
  BY <1>2, <1>3, HoldsSame
<1> QED BY <1>1, <1>4, ProductHeld DEF all

\* A step inside a slice that does not end it.
LEMMA MoveRight ==
    ASSUME RightInv, NEW t \in Threads, at[t] \in Inside \ {"reduce"},
           NEW where \in Inside \ {"reduce"}, at' = [at EXCEPT ![t] = where],
           UNCHANGED <<ceiling, shape, calls, task, poolN, slot, gen, done>>,
           \A u \in Threads \ {t} : pos'[u] = pos[u],
           NEW cells, NEW f, Stores(t, cells, f),
           DOMAIN scratch' = Scratches,
           \A u \in Threads \ {t} : \A w :
              PanelIn(scratch, shape, u, w) => PanelIn(scratch', shape, u, w),
           Position(t)', Panel(t)', Summed(t) => Summed(t)',
           \A c \in Rect(task[t]) : At(c, shape.ldc) \in Addr =>
              Value(t, c)' = IF c \in cells THEN f[c] ELSE Value(t, c)
    PROVE  Right' /\ Promised
<1>1. /\ Calling /\ Progress /\ t \in Crew /\ Recs[t] = task[t] /\ ~Empty(shape) /\ shape.K > 0
      /\ Divided(Recs, Count, shape)
  BY Working
<1>2. /\ \A u \in Threads \ {t} : at'[u] = at[u]
      /\ at'[t] = where
  BY DEF RightInv, Inv, Types
<1>3. at'[0] \notin Serial \cup {"join"} \/ at'[0] = at[0]
  BY <1>2, ThreadsLemma DEF Inside, Serial
<1>4. Calling' /\ Busy /\ Busy' /\ at[0] \notin Serial
  BY <1>1, <1>3 DEF Calling, Busy, Serial
<1>5. Recs' = Recs /\ Count' = Count /\ Crew' = Crew
  BY DEF Recs, Count, Crew
<1>6. Crew \subseteq Threads
  <2> HIDE DEF Recs, Count
  <2> QED BY <1>1, ThreadsAssumption DEF Divided, Crew, Threads, Interval
<1>7. \A u \in Crew \ {t} : Completed(u)' = Completed(u)
  BY <1>2, <1>6 DEF Completed
<1>8. OnlyOf(t)
  BY <1>2, <1>5, <1>6, <1>7 DEF OnlyOf
<1>9. Holds(C, shape, Values)'
  BY <1>1, <1>8, Filled
<1>10. ASSUME NEW u \in Crew PROVE Position(u)' /\ Panel(u)' /\ (Summed(u) => Summed(u)')
  <2>1. CASE u = t
    BY <2>1
  <2>2. CASE u # t
    <3>1. Position(u)' = Position(u) /\ Summed(u)' = Summed(u) /\ Banded(u)' = Banded(u)
      BY <1>8, <2>2, OthersKept
    <3>2. Position(u) /\ Panel(u) /\ u \in Threads \ {t}
      BY <1>1, <1>6, <2>2 DEF Progress
    <3>3. Panel(u)'
      <4> HIDE DEF Recs
      <4> QED BY <1>5, <3>1, <3>2 DEF Panel
    <3> QED BY <3>1, <3>2, <3>3
  <2> QED BY <2>1, <2>2
<1>11. ASSUME NEW u \in Crew, at'[u] = "reduce", NEW v \in Interval(0, Recs[u].nthr)
       PROVE  Summed(v)'
  <2>1. u # t /\ at[u] = "reduce"
    BY <1>2, <1>6, <1>11
  <2>2. Summed(v)
    BY <1>1, <1>11, <2>1 DEF Progress
  <2>3. v \in Crew
    <3> HIDE DEF Recs, Count
    <3> QED BY <1>1, <1>11 DEF Divided, Crew, Interval
  <2> QED BY <1>10, <2>2, <2>3
<1>12. Progress'
  <2>1. Divided(Recs, Count, shape)'
    <3> HIDE DEF Recs, Count
    <3> QED BY <1>1, <1>5
  <2> HIDE DEF Recs, Count, Crew
  <2> QED BY <1>5, <1>9, <1>10, <1>11, <2>1 DEF Progress
<1>13. Right'
  BY <1>1, <1>3, <1>4, <1>12 DEF RightInv, Right, Serial, Busy
<1> QED BY <1>4, <1>13, Unseen

\* The step that ends a slice: all its cells hold all terms.  A call that thread 0
\* runs alone returns with it.
LEMMA FinishRight ==
    ASSUME RightInv, NEW t \in Threads, at[t] \in Running, Finish(t),
           UNCHANGED <<ceiling, shape, calls, task, poolN, slot, gen, scratch>>,
           \A u \in Threads \ {t} : pos'[u] = pos[u],
           NEW cells, NEW f, Stores(t, cells, f),
           Banded(t) => at[t] = "reduce",
           \A c \in Rect(task[t]) : At(c, shape.ldc) \in Addr =>
              (IF c \in cells THEN f[c] ELSE Value(t, c)) = Interval(0, shape.K)
    PROVE  Right' /\ Promised
<1>1. /\ Calling /\ Progress /\ t \in Crew /\ Recs[t] = task[t] /\ ~Empty(shape) /\ shape.K > 0
      /\ Divided(Recs, Count, shape) /\ shape \in Shapes
  BY Working DEF Running, Inside
<1>2. /\ \A u \in Threads \ {t} : at'[u] = at[u] /\ done'[u] = done[u]
      /\ Right /\ Inv
  BY DEF RightInv, Inv, Types, Finish
<1>3. Busy
  BY <1>1 DEF Busy, Calling, Serial
<1>4. CASE t = 0 /\ task[0].solo
  <2>1. at'[0] = "idle"
    BY <1>4, ThreadsLemma DEF Finish, RightInv, Inv, Types
  <2>2. Crew = {0}
    BY <1>4 DEF Crew, Count, Interval
  <2>3. Holds(C', shape, [c \in All(shape) |-> IF c \in cells THEN f[c] ELSE Values[c]])
    BY <1>1, Filling
  <2>4. \A u \in Crew : \A c \in Rect(Recs[u]) : At(c, shape.ldc) \in Addr =>
           (IF c \in cells THEN f[c] ELSE Value(u, c)) = Interval(0, shape.K)
    BY <1>1, <1>4, <2>2
  <2>5. C' = Product(shape)
    <3> HIDE DEF Recs, Count, Crew
    <3> QED BY <1>1, <2>3, <2>4, Completing
  <2>6. ~Busy'
    BY <2>1 DEF Busy
  <2>7. Promised
    BY <1>2, <1>3, <2>5, <2>6, Returned
  <2>8. Right'
    BY <1>2, <2>1, <2>6 DEF Right, Calling, Serial
  <2> QED BY <2>7, <2>8
<1>5. CASE ~(t = 0 /\ task[0].solo)
  <2>1. IF t = 0 THEN at'[0] = "join" ELSE at'[t] = "wait" /\ done'[t] = gen
    <3>1. CASE t = 0
      BY <1>5, <3>1, ThreadsLemma DEF Finish, RightInv, Inv, Types
    <3>2. CASE t # 0
      <4>1. WorkerState(t) /\ t \in Workers
        BY <1>2, <3>2, ThreadsLemma DEF Inv
      <4>2. wgen[t] = gen
        BY <4>1 DEF WorkerState, Running, Resting
      <4> QED BY <3>2, <4>2 DEF Finish, RightInv, Inv, Types
    <3> QED BY <3>1, <3>2
  <2>2. Completed(t)' /\ at'[t] \in {"join", "wait"}
    BY <2>1 DEF Completed
  <2>3. at'[0] = at[0] \/ at'[0] = "join"
    BY <1>2, <2>1, ThreadsLemma
  <2>4. Calling' /\ Busy'
    BY <1>1, <2>3 DEF Calling, Busy, Serial
  <2>5. Recs' = Recs /\ Count' = Count /\ Crew' = Crew
    BY DEF Recs, Count, Crew
  <2>6. Crew \subseteq Threads
    <3> HIDE DEF Recs, Count
    <3> QED BY <1>1, ThreadsAssumption DEF Divided, Crew, Threads, Interval
  <2>7. \A u \in Crew \ {t} : Completed(u)' = Completed(u)
    BY <1>2, <2>6 DEF Completed
  <2>8. OnlyOf(t)
    BY <1>2, <2>5, <2>6, <2>7 DEF OnlyOf
  <2>9. \A c : Value(t, c)' = Interval(0, shape.K)
    BY <2>2 DEF Value
  <2>10. Holds(C, shape, Values)'
    <3>1. \A c \in Rect(Recs[t]) : At(c, shape.ldc) \in Addr =>
             Value(t, c)' = IF c \in cells THEN f[c] ELSE Value(t, c)
      BY <1>1, <2>9
    <3> QED BY <1>1, <2>8, <3>1, Filled
  <2>11. ASSUME NEW u \in Crew PROVE Position(u)' /\ Panel(u)' /\ (Summed(u) => Summed(u)')
    <3>1. CASE u = t
      <4>1. Position(t)' /\ Summed(t)'
        BY <2>2 DEF Position, Blocks, Summed
      <4>2. ASSUME Banded(t)' PROVE PanelIn(scratch, shape, t, KBand(Recs[t]))
        <5>1. Banded(t)
          <6> HIDE DEF Recs
          <6> QED BY <2>5, <4>2 DEF Banded
        <5>2. Summed(t) /\ Panel(t)
          BY <1>1, <5>1 DEF Summed, Progress
        <5> QED BY <5>1, <5>2 DEF Panel
      <4>3. Panel(t)'
        <5> HIDE DEF Recs
        <5> QED BY <2>5, <4>2 DEF Panel, PanelIn
      <4> QED BY <3>1, <4>1, <4>3
    <3>2. CASE u # t
      <4>1. Position(u)' = Position(u) /\ Summed(u)' = Summed(u) /\ Banded(u)' = Banded(u)
        BY <2>8, <3>2, OthersKept
      <4>2. Position(u) /\ Panel(u)
        BY <1>1 DEF Progress
      <4>3. Panel(u)'
        <5> HIDE DEF Recs
        <5> QED BY <2>5, <4>1, <4>2 DEF Panel, PanelIn
      <4> QED BY <4>1, <4>2, <4>3
    <3> QED BY <3>1, <3>2
  <2>12. ASSUME NEW u \in Crew, at'[u] = "reduce", NEW v \in Interval(0, Recs[u].nthr)
         PROVE  Summed(v)'
    <3>1. u # t /\ at[u] = "reduce"
      BY <1>2, <2>2, <2>6, <2>12
    <3>2. Summed(v)
      BY <1>1, <2>12, <3>1 DEF Progress
    <3>3. v \in Crew
      <4> HIDE DEF Recs, Count
      <4> QED BY <1>1, <2>12 DEF Divided, Crew, Interval
    <3> QED BY <2>11, <3>2, <3>3
  <2>13. Progress'
    <3>1. Divided(Recs, Count, shape)'
      <4> HIDE DEF Recs, Count
      <4> QED BY <1>1, <2>5
    <3> HIDE DEF Recs, Count, Crew
    <3> QED BY <2>5, <2>10, <2>11, <2>12, <3>1 DEF Progress
  <2>14. Right'
    BY <1>1, <1>2, <1>3, <2>3, <2>4, <2>13 DEF Right, Calling, Serial, Busy
  <2> QED BY <1>3, <2>4, <2>14, Unseen
<1> QED BY <1>4, <1>5

\* The same of a step that does not concern the panels.
LEMMA GoRight ==
    ASSUME RightInv, NEW t \in Threads, at[t] \in Inside \ {"reduce", "meet_reduce"},
           NEW where \in Inside \ {"reduce", "meet_reduce"}, GoTo(t, where),
           UNCHANGED <<ceiling, shape, calls, task, poolN, slot, gen, scratch>>,
           \A u \in Threads \ {t} : pos'[u] = pos[u],
           NEW cells, NEW f, Stores(t, cells, f),
           Position(t)',
           \A c \in Rect(task[t]) : At(c, shape.ldc) \in Addr =>
              Value(t, c)' = IF c \in cells THEN f[c] ELSE Value(t, c)
    PROVE  Right' /\ Promised
<1>1. ~Completed(t) /\ ~Summed(t) /\ at'[t] = where /\ UNCHANGED done /\ DOMAIN scratch = Scratches
      /\ at' = [at EXCEPT ![t] = where]
  BY Working DEF Summed, GoTo, RightInv, Right, Inv, Types
<1>2. ~Summed(t)'
  BY <1>1 DEF Summed, Completed, Inside
<1>3. Panel(t)'
  BY <1>2 DEF Panel
<1>4. \A u \in Threads \ {t} : \A w :
         PanelIn(scratch, shape, u, w) => PanelIn(scratch', shape, u, w)
  OBVIOUS
<1>5. at[t] \in Inside \ {"reduce"} /\ where \in Inside \ {"reduce"}
  OBVIOUS
<1> HIDE DEF Stores, Position, Panel, Summed, Value, GoTo
<1> QED BY <1>1, <1>2, <1>3, <1>4, <1>5, MoveRight

\* A band of depths comes with all rows.
LEMMA BandRows ==
    ASSUME RightInv, NEW t \in Threads, at[t] \in Inside, Banded(t)
    PROVE  CutK(shape) /\ task[t].m0 = 0 /\ task[t].m1 = shape.M /\ task[t].ksplit
           /\ task[t].m0 < task[t].m1 /\ Rect(task[t]) = Cells(0, shape.M, task[t].n0, task[t].n1)
<1>1. Progress /\ t \in Crew /\ Recs[t] = task[t] /\ shape \in Shapes /\ ~Empty(shape)
      /\ Divided(Recs, Count, shape)
  BY Working
<1> HIDE DEF Recs, Count
<1>2. task[t].ksplit /\ t \in Interval(0, Recs[0].nthr) /\ Recs[0].ksplit
  <2>1. t \in Nat /\ t < task[t].nthr /\ task[t].nthr = Recs[0].nthr /\ task[t].nthr \in Nat
        /\ task[t].ksplit = Recs[0].ksplit
    BY <1>1, ThreadsAssumption DEF Divided, Crew, Banded, Threads
  <2> QED BY <1>1, <2>1 DEF Banded, Interval
<1>3. CutK(shape) /\ task[t].m0 = 0 /\ task[t].m1 = shape.M
  BY <1>1, <1>2 DEF Divided
<1>4. 0 < shape.M
  BY <1>1, ShapesAssumption DEF Empty
<1> QED BY <1>2, <1>3, <1>4 DEF Rect

\* Nothing to do, or the first block of the slice.
LEMMA EnterRight ==
    ASSUME RightInv, NEW t \in Threads, Enter(t) PROVE Right' /\ Promised
<1> DEFINE T == task[t]
           none == T.m0 >= T.m1 \/ (T.n0 >= T.n1 /\ ~T.ksplit)
           start == [jc |-> T.n0, pc |-> 0, ic |-> T.m0]
<1>1. /\ at[t] = "enter"
      /\ IF none THEN Finish(t)
         ELSE GoTo(t, CASE T.s.M > SM_MAX_M -> "pack"
                        [] T.ksplit         -> "sum"
                        [] OTHER            -> "small")
      /\ pos' = [pos EXCEPT ![t] = start]
      /\ UNCHANGED <<ceiling, shape, calls, C, task, poolN, slot, gen, scratch>>
  BY DEF Enter, call, pool
<1>2. pos'[t] = start /\ \A u \in Threads \ {t} : pos'[u] = pos[u]
  BY <1>1 DEF RightInv, TeamInv, Records
<1>3. /\ Progress /\ t \in Crew /\ Recs[t] = T /\ ~Completed(t) /\ T.s = shape /\ shape \in Shapes
      /\ T.m0 \in Int /\ T.m1 \in Int /\ T.n0 \in Int /\ T.n1 \in Int /\ shape.K \in Nat \ {0}
  BY <1>1, Working DEF Inside
<1> DEFINE f == [c \in {} |-> Old]
<1>4. Stores(t, {}, f)
  BY <1>1, <1>3, StoresNothing
<1>5. \A c : Value(t, c) = Old
  BY <1>1, <1>3 DEF Value, Blocks
<1>6. \A c \in Rect(T) : c[1] \in Int /\ c[2] \in Int /\ T.m0 <= c[1] /\ c[1] < T.m1
                         /\ T.n0 <= c[2] /\ c[2] < T.n1
  BY <1>3, IntervalLemma DEF Rect, Cells
<1>7. CASE none
  <2>1. Finish(t) /\ at[t] \in Running
    BY <1>1, <1>7 DEF Running
  <2>2. ASSUME Banded(t) PROVE FALSE
    <3>1. T.ksplit /\ T.m0 < T.m1
      BY <1>1, <2>2, BandRows DEF Inside
    <3> QED BY <1>3, <1>7, <3>1
  <2>3. Rect(T) = {}
    <3> SUFFICES ASSUME NEW c \in Rect(T) PROVE FALSE
      OBVIOUS
    <3> QED BY <1>3, <1>6, <1>7
  <2> QED BY <1>1, <1>2, <1>4, <2>1, <2>2, <2>3, FinishRight
<1>8. CASE ~none
  <2>1. T.m0 < T.m1 /\ (~T.ksplit => T.n0 < T.n1)
    BY <1>3, <1>8
  <2>2. T.ksplit => ~(T.s.M > SM_MAX_M)
    <3> SUFFICES ASSUME T.ksplit PROVE ~(shape.M > SM_MAX_M)
      BY <1>3
    <3>1. Divided(Recs, Count, shape) /\ Recs[t].ksplit
      BY <1>3 DEF Progress
    <3>2. CutK(shape)
      <4> HIDE DEF Recs, Count
      <4> QED BY <1>3, <3>1 DEF Divided, Crew
    <3>3. shape.M \in Int /\ SM_MAX_M \in Nat
      BY <1>3, ShapesAssumption, TileAssumption
    <3> QED BY <3>2, <3>3 DEF CutK
  <2>3. PICK where \in {"pack", "sum", "small"} :
           GoTo(t, where) /\ (where \in {"pack", "small"} => ~T.ksplit)
    BY <1>1, <1>8, <2>2
  <2>4. at'[t] = where
    BY <2>3 DEF GoTo, RightInv, Inv, Types
  <2>5. Recs' = Recs
    BY <1>1 DEF Recs
  <2>6. Position(t)'
    <3>1. where = "pack" => InBlock(T, start) /\ start.ic = T.m0
      BY <1>3, <2>1, <2>3 DEF InBlock
    <3> HIDE DEF Recs, start, T
    <3> QED BY <1>2, <1>3, <2>3, <2>4, <2>5, <3>1 DEF Position, Blocks
  <2>7. ASSUME NEW c \in Rect(T) PROVE Value(t, c)' = Old
    <3>1. CASE where # "pack"
      <4>1. ~Completed(t)' /\ at'[t] \notin Blocks
        BY <1>1, <1>3, <2>3, <2>4, <3>1 DEF Completed, Blocks, GoTo
      <4> QED BY <4>1 DEF Value
    <3>2. CASE where = "pack"
      <4>1. ~Completed(t)' /\ at'[t] \in Blocks
        BY <1>1, <1>3, <2>3, <2>4, <3>2 DEF Completed, Blocks, GoTo
      <4>2. ~Multiplied(t, c)'
        BY <1>2, <1>3, <1>6, <2>4, <2>7, <3>2 DEF Multiplied
      <4>3. ~(c[2] < start.jc)
        BY <1>3, <1>6, <2>7
      <4>4. Blocked(t, c)' = Old
        <5> HIDE DEF Recs, T
        <5> QED BY <1>2, <4>2, <4>3 DEF Blocked, Before
      <4> QED BY <4>1, <4>4 DEF Value
    <3> QED BY <3>1, <3>2
  <2>8. where \in Inside \ {"reduce", "meet_reduce"} /\ at[t] \in Inside \ {"reduce", "meet_reduce"}
    BY <1>1 DEF Inside
  <2> HIDE DEF T
  <2>9. \A c \in Rect(task[t]) : At(c, shape.ldc) \in Addr =>
              Value(t, c)' = IF c \in {} THEN f[c] ELSE Value(t, c)
    BY <1>5, <2>7 DEF T
  <2> HIDE DEF f
  <2> QED BY <1>1, <1>2, <1>4, <2>3, <2>6, <2>8, <2>9, GoRight
<1> QED BY <1>7, <1>8

\* The small-M kernel on the caller's buffer.
LEMMA SmallRight ==
    ASSUME RightInv, NEW t \in Threads, SmallM(t) PROVE Right' /\ Promised
<1> DEFINE T == task[t]
           f == [c \in Rect(T) |-> Interval(0, T.s.K)]
<1>1. /\ at[t] = "small" /\ Finish(t) /\ at[t] \in Inside
      /\ C' = Stored(C, 0, Rect(T), T.s.ldc, LAMBDA c : Interval(0, T.s.K))
      /\ UNCHANGED <<ceiling, shape, calls, task, pos, poolN, slot, gen, scratch>>
  BY DEF SmallM, call, pool, Rect, Inside
<1>2. Progress /\ t \in Crew /\ Recs[t] = T /\ T.s = shape
  BY <1>1, Working
<1>3. Stores(t, Rect(T), f)
  <2>1. \A x : (\E c \in Rect(T) : 0 + At(c, T.s.ldc) = x)
               => f[CHOOSE c \in Rect(T) : 0 + At(c, T.s.ldc) = x] = Interval(0, T.s.K)
    OBVIOUS
  <2> HIDE DEF f
  <2>2. C' = Written(C, 0, Rect(T), T.s.ldc, f)
    BY <1>1, <2>1 DEF Stored, Written
  <2> QED BY <1>2, <2>2 DEF Stores
<1>4. ~Banded(t)
  BY <1>1, <1>2 DEF Progress, Position, Banded
<1>5. \A c \in Rect(T) : f[c] = Interval(0, shape.K)
  BY <1>2
<1> HIDE DEF f
<1> QED BY <1>1, <1>3, <1>4, <1>5, FinishRight DEF Running

\* The small-M kernel on the panel of the thread, for its band of depths.
LEMMA SumRight ==
    ASSUME RightInv, NEW t \in Threads, SumBand(t) PROVE Right' /\ Promised
<1> DEFINE T == task[t]
           f == [c \in All(shape) |-> KBand(T)]
           g == [c \in {} |-> Old]
<1>1. /\ at[t] = "sum" /\ GoTo(t, "meet_reduce") /\ at[t] \in Inside \ {"reduce"}
      /\ "meet_reduce" \in Inside \ {"reduce"}
      /\ scratch' = Stored(scratch, T.tid * SCRATCH_FLOATS, Cells(0, T.s.M, 0, T.s.N),
                           T.s.N, LAMBDA c : Interval(T.k0, T.k1))
      /\ UNCHANGED <<ceiling, shape, calls, C, task, pos, poolN, slot, gen>>
  BY DEF SumBand, call, pool, PanelStride, Inside
<1>2. /\ Progress /\ t \in Crew /\ Recs[t] = T /\ T.s = shape /\ shape \in Shapes /\ ~Empty(shape)
      /\ ~Completed(t) /\ Divided(Recs, Count, shape) /\ DOMAIN scratch = Scratches
  BY <1>1, Working DEF RightInv, Right
<1>3. at'[t] = "meet_reduce" /\ UNCHANGED done /\ at' = [at EXCEPT ![t] = "meet_reduce"]
  BY <1>1 DEF GoTo, RightInv, Inv, Types
<1>4. T.tid = t /\ (T.ksplit => CutK(shape))
  <2> HIDE DEF Recs, Count
  <2> QED BY <1>2 DEF Divided, Crew
<1>5. T.ksplit
  BY <1>1 DEF RightInv, TeamInv, Records, Runs, Inside
<1>6. scratch' = Written(scratch, t * SCRATCH_FLOATS, All(shape), shape.N, f)
  <2>1. \A x : (\E c \in All(shape) : t * SCRATCH_FLOATS + At(c, shape.N) = x)
               => f[CHOOSE c \in All(shape) : t * SCRATCH_FLOATS + At(c, shape.N) = x] = KBand(T)
    OBVIOUS
  <2> HIDE DEF f
  <2>2. scratch' = Stored(scratch, t * SCRATCH_FLOATS, All(shape), shape.N,
                          LAMBDA c : Interval(T.k0, T.k1))
    BY <1>1, <1>2, <1>4 DEF All
  <2> QED BY <2>1, <2>2 DEF Stored, Written, KBand
<1> HIDE DEF f
<1>8. /\ DOMAIN scratch' = Scratches /\ PanelIn(scratch', shape, t, KBand(T))
      /\ \A u \in Threads \ {t} : \A w : PanelIn(scratch, shape, u, w) => PanelIn(scratch', shape, u, w)
  <2> DEFINE v == KBand(T)
  <2>1. f = [c \in All(shape) |-> v]
    BY DEF f
  <2>2. CutK(shape)
    BY <1>4, <1>5
  <2> HIDE DEF v, T
  <2>3. PICK new : new = Written(scratch, t * SCRATCH_FLOATS, All(shape), shape.N, f)
    OBVIOUS
  <2>4. /\ DOMAIN new = Scratches /\ PanelIn(new, shape, t, v)
        /\ \A u \in Threads \ {t} : \A w : PanelIn(scratch, shape, u, w) => PanelIn(new, shape, u, w)
    BY <1>2, <2>1, <2>2, <2>3, PanelWritten
  <2>5. scratch' = new
    BY <1>6, <2>3
  <2> QED BY <2>4, <2>5 DEF v
<1>9. Stores(t, {}, g)
  BY <1>1, <1>2, StoresNothing
<1>10. Position(t)' /\ Summed(t)'
  BY <1>3 DEF Position, Blocks, Summed
<1>11. Recs' = Recs
  BY <1>1 DEF Recs
<1>12. Panel(t)'
  <2>1. Recs'[t] = T /\ shape' = shape
    BY <1>1, <1>2, <1>11
  <2> HIDE DEF Recs, T
  <2> QED BY <1>8, <2>1 DEF Panel
<1>13. \A c : Value(t, c)' = Value(t, c)
  <2>1. ~Completed(t)'
    BY <1>1, <1>2, <1>3 DEF Completed
  <2> QED BY <1>1, <1>2, <1>3, <2>1 DEF Value, Blocks
<1> HIDE DEF g, T
<1> QED BY <1>1, <1>3, <1>8, <1>9, <1>10, <1>12, <1>13, MoveRight

\* The panels are summed into the columns of the thread.
LEMMA ReduceRight ==
    ASSUME RightInv, NEW t \in Threads, Reduce(t) PROVE Right' /\ Promised
<1> DEFINE T == task[t]
           f == [c \in Rect(T) |-> PanelSum(T.nthr, At(c, shape.N))]
<1>1. /\ at[t] = "reduce" /\ Finish(t) /\ at[t] \in Inside
      /\ C' = Stored(C, 0, Cells(0, T.s.M, T.n0, T.n1), T.s.ldc,
                     LAMBDA c : PanelSum(T.nthr, At(c, T.s.N)))
      /\ UNCHANGED <<ceiling, shape, calls, task, pos, poolN, slot, gen, scratch>>
  BY DEF Reduce, call, pool, Inside
<1>2. /\ Progress /\ t \in Crew /\ Recs[t] = T /\ T.s = shape /\ shape \in Shapes /\ ~Empty(shape)
      /\ Divided(Recs, Count, shape) /\ shape.K \in Nat \ {0} /\ T.nthr \in Nat \ {0}
      /\ Rect(T) \subseteq All(shape)
  BY <1>1, Working
<1>3. Banded(t)
  <2>1. T.ksplit /\ t < T.nthr
    BY <1>1 DEF RightInv, TeamInv, Records, Runs, Inside
  <2> HIDE DEF Recs
  <2> QED BY <1>2, <2>1 DEF Banded
<1>4. T.ksplit /\ Rect(T) = Cells(0, shape.M, T.n0, T.n1)
  BY <1>1, <1>3, BandRows
<1>5. Stores(t, Rect(T), f)
  <2>1. \A x : (\E c \in Rect(T) : 0 + At(c, T.s.ldc) = x)
               => f[CHOOSE c \in Rect(T) : 0 + At(c, T.s.ldc) = x]
                  = PanelSum(T.nthr, At(CHOOSE c \in Rect(T) : 0 + At(c, T.s.ldc) = x, shape.N))
    OBVIOUS
  <2> HIDE DEF f
  <2>2. C' = Stored(C, 0, Rect(T), T.s.ldc, LAMBDA c : PanelSum(T.nthr, At(c, shape.N)))
    BY <1>1, <1>2, <1>4
  <2>3. C' = Written(C, 0, Rect(T), T.s.ldc, f)
    BY <2>1, <2>2 DEF Stored, Written
  <2> QED BY <1>2, <2>3 DEF Stores
<1>6. ASSUME NEW c \in Rect(T) PROVE f[c] = Interval(0, shape.K)
  <2> DEFINE n == T.nthr
             x == At(c, shape.N)
             B == [u \in Interval(0, n) |-> KBand(Recs[u])]
  <2> HIDE DEF Recs, Count
  <2>1. Recs[0].ksplit /\ Recs[0].nthr = n /\ Interval(0, n) \subseteq Crew /\ n = Recs[t].nthr
    <3>1. T.nthr = Recs[0].nthr /\ T.ksplit = Recs[0].ksplit
      BY <1>2 DEF Divided, Crew
    <3>2. Recs[0].nthr <= Count /\ Count \in Nat
      BY <1>2 DEF Divided
    <3> QED BY <1>2, <1>4, <3>1, <3>2 DEF Crew, Interval
  <2>2. x \in Interval(0, shape.M * shape.N)
    BY <1>2, PanelCells
  <2>3. ASSUME NEW u \in Interval(0, n)
        PROVE  scratch[u * SCRATCH_FLOATS + x] = B[u] /\ B[u] \subseteq Interval(0, shape.K)
    <3>1. Summed(u) /\ Panel(u)
      BY <1>1, <1>2, <2>1 DEF Progress
    <3>2. Recs[u].ksplit /\ Recs[u].nthr = n /\ KBand(Recs[u]) \subseteq Interval(0, shape.K)
      BY <1>2, <2>1 DEF Divided, Crew
    <3>3. u < n
      BY <1>2, IntervalLemma
    <3>4. PanelIn(scratch, shape, u, KBand(Recs[u]))
      BY <3>1, <3>2, <3>3 DEF Panel, Banded
    <3> QED BY <2>2, <3>2, <3>4 DEF PanelIn
  <2>4. /\ \A u, w \in Interval(0, n), k \in Int : k \in B[u] /\ k \in B[w] => u = w
        /\ \A k \in Interval(0, shape.K) : \E u \in Interval(0, n) : k \in B[u]
    BY <1>2, <2>1 DEF Divided
  <2> HIDE DEF n, x, B
  <2>5. PanelSum(n, x) = Interval(0, shape.K)
    BY <1>2, <2>3, <2>4, PanelsSum
  <2> QED BY <2>5 DEF n, x
<1> HIDE DEF f, T
<1> QED BY <1>1, <1>5, <1>6, FinishRight DEF Running, T

\* A block is packed before anything of it is multiplied.
LEMMA PackRight ==
    ASSUME RightInv, NEW t \in Threads, PackB(t) PROVE Right' /\ Promised
<1> DEFINE T == task[t]
           g == [c \in {} |-> Old]
<1>1. /\ at[t] = "pack" /\ at[t] \in Inside \ {"reduce", "meet_reduce"}
      /\ \E where \in {"micro", "meet_micro"} : GoTo(t, where)
      /\ UNCHANGED <<ceiling, shape, calls, C, task, pos, poolN, slot, gen, scratch>>
  BY DEF PackB, call, pool, Inside
<1>2. PICK where \in {"micro", "meet_micro"} : GoTo(t, where)
  BY <1>1
<1>3. at'[t] = where /\ UNCHANGED done /\ where \in Inside \ {"reduce", "meet_reduce"}
  BY <1>2 DEF GoTo, RightInv, Inv, Types, Inside
<1>4. Progress /\ t \in Crew /\ Recs[t] = T /\ ~Completed(t) /\ T.m0 \in Int /\ T.m1 \in Int
  BY <1>1, Working
<1>5. Stores(t, {}, g)
  BY <1>1, <1>4, StoresNothing
<1>6. InBlock(T, pos[t]) /\ ~T.ksplit /\ pos[t].ic = T.m0
  BY <1>1, <1>4 DEF Progress, Position, Blocks
<1>7. Recs' = Recs
  BY <1>1 DEF Recs
<1>8. Position(t)'
  <2> HIDE DEF Recs, T
  <2> QED BY <1>1, <1>3, <1>4, <1>6, <1>7 DEF Position, InBlock
<1>9. ASSUME NEW c \in Rect(T) PROVE Value(t, c)' = Value(t, c)
  <2>1. ~Completed(t)'
    BY <1>1, <1>3, <1>4 DEF Completed
  <2>2. Multiplied(t, c)' = Multiplied(t, c)
    BY <1>1, <1>3 DEF Multiplied
  <2>3. Blocked(t, c)' = Blocked(t, c)
    <3> HIDE DEF Recs
    <3> QED BY <1>1, <1>7, <2>2 DEF Blocked, Before
  <2> QED BY <1>1, <1>3, <1>4, <2>1, <2>3 DEF Value, Blocks
<1> HIDE DEF g
<1>10. \A c \in Rect(task[t]) : At(c, shape.ldc) \in Addr =>
          Value(t, c)' = IF c \in {} THEN g[c] ELSE Value(t, c)
  BY <1>9
<1> HIDE DEF T
<1> QED BY <1>1, <1>2, <1>3, <1>5, <1>8, <1>10, GoRight

\* What a cell of a slice holds.
LEMMA Holding ==
    ASSUME RightInv, NEW t \in Threads, at[t] \in Inside,
           NEW c \in Rect(task[t]), At(c, shape.ldc) \in Addr
    PROVE  C[At(c, shape.ldc)] = Value(t, c)
<1>1. /\ Progress /\ t \in Crew /\ Recs[t] = task[t] /\ c \in All(shape)
      /\ Divided(Recs, Count, shape) /\ Holds(C, shape, Values)
  BY Working DEF Progress
<1>2. Owner(Recs, Count, c) = t
  <2> HIDE DEF Recs, Count
  <2> QED BY <1>1, Owners DEF Crew
<1>3. Values[c] = Value(t, c)
  <2> HIDE DEF Recs, Count
  <2> QED BY <1>1, <1>2 DEF Values
<1> QED BY <1>1, <1>3 DEF Holds

\* A block has columns and depth, and goes no further than the slice and K.
LEMMA BlockTypes ==
    ASSUME NEW T, NEW p, InBlock(T, p), T.n1 \in Int, T.nthr \in Nat \ {0},
           T.s.K \in Nat \ {0}
    PROVE  /\ BlockN(T, p) \in Nat \ {0} /\ BlockN(T, p) <= NC
           /\ IF p.jc + NC < T.n1 THEN BlockN(T, p) = NC ELSE p.jc + BlockN(T, p) = T.n1
           /\ KcEff(T, p) \in Nat \ {0}
           /\ Reach(T, p) \in Nat /\ p.pc < Reach(T, p) /\ Reach(T, p) <= T.s.K
           /\ IF p.pc + KcEff(T, p) < T.s.K THEN Reach(T, p) = p.pc + KcEff(T, p)
              ELSE Reach(T, p) = T.s.K
           /\ BlockK(T, p) = Interval(p.pc, Reach(T, p))
<1> DEFINE n == BlockN(T, p)  k == KcEff(T, p)
<1>1. NC \in Nat \ {0} /\ KC_MIN \in Nat \ {0} /\ KC_MAX \in Nat /\ L3_PANEL_FLOATS \in Nat
  BY TileAssumption
<1>2. /\ n \in Nat \ {0} /\ n <= NC
      /\ IF p.jc + NC < T.n1 THEN n = NC ELSE p.jc + n = T.n1
  BY <1>1 DEF BlockN, imin, InBlock
<1>3. k \in Nat \ {0}
  <2> DEFINE d == T.nthr * n
             q == L3_PANEL_FLOATS \div d
  <2> HIDE DEF n
  <2>1. d \in Nat \ {0}
    BY <1>2
  <2> HIDE DEF d
  <2>2. q \in Int
    BY <1>1, <2>1
  <2>3. k = imax(imin(q, KC_MAX), KC_MIN)
    BY DEF KcEff, q, d, n
  <2> HIDE DEF q, k
  <2> QED BY <1>1, <2>2, <2>3 DEF imax, imin
<1>4. BlockK(T, p) = Interval(p.pc, Reach(T, p)) /\ Reach(T, p) = p.pc + imin(T.s.K - p.pc, k)
  BY DEF BlockK, Reach
<1> HIDE DEF n, k
<1>5. /\ Reach(T, p) \in Nat /\ p.pc < Reach(T, p) /\ Reach(T, p) <= T.s.K
      /\ IF p.pc + k < T.s.K THEN Reach(T, p) = p.pc + k ELSE Reach(T, p) = T.s.K
  BY <1>3, <1>4 DEF imin, InBlock
<1> QED BY <1>2, <1>3, <1>4, <1>5 DEF n, k

\* What thread t is at when it is at a block.
LEMMA AtBlock ==
    ASSUME RightInv, NEW t \in Threads, at[t] \in Blocks
    PROVE  LET T == task[t]
               p == pos[t] IN
           /\ InBlock(T, p) /\ ~T.ksplit /\ T.s = shape /\ shape.K \in Nat \ {0}
           /\ T.m0 \in Int /\ T.m1 \in Int /\ T.n0 \in Int /\ T.n1 \in Int
           /\ T.nthr \in Nat \ {0} /\ T.s.K \in Nat \ {0}
           /\ Recs[t] = T /\ ~Completed(t) /\ Progress /\ t \in Crew
           /\ at[t] \in Inside \ {"reduce", "meet_reduce"}
           /\ p = [jc |-> p.jc, pc |-> p.pc, ic |-> p.ic] /\ DOMAIN pos = Threads
<1>1. at[t] \in Inside \ {"reduce", "meet_reduce"}
  BY DEF Blocks, Inside
<1>2. Progress /\ t \in Crew /\ Recs[t] = task[t] /\ ~Completed(t)
      /\ task[t].s = shape
      /\ task[t].m0 \in Int /\ task[t].m1 \in Int /\ task[t].n0 \in Int /\ task[t].n1 \in Int
      /\ task[t].nthr \in Nat \ {0} /\ shape.K \in Nat \ {0}
  BY <1>1, Working
<1>3. Position(t)
  BY <1>2 DEF Progress
<1>4. InBlock(task[t], pos[t]) /\ ~task[t].ksplit
  <2> HIDE DEF Recs
  <2> QED BY <1>2, <1>3 DEF Position
<1>5. pos[t] = [jc |-> pos[t].jc, pc |-> pos[t].pc, ic |-> pos[t].ic] /\ DOMAIN pos = Threads
  BY DEF RightInv, TeamInv, Records
<1> QED BY <1>1, <1>2, <1>4, <1>5

\* The panel read is the panel of the block.
LEMMA BlockTerms ==
    ASSUME RightInv, NEW t \in Threads, at[t] = "micro", NEW j \in Int,
           pos[t].jc <= j, j < pos[t].jc + BlockN(task[t], pos[t])
    PROVE  Terms(task[t], pos[t], j) = BlockK(task[t], pos[t])
<1> DEFINE T == task[t]
           p == pos[t]
           n == BlockN(T, p)
           i == (j - p.jc) \div NR
<1>1. InBlock(T, p) /\ T.n1 \in Int /\ T.nthr \in Nat \ {0} /\ T.s.K \in Nat \ {0}
  BY AtBlock DEF Blocks
<1>2. n \in Nat \ {0} /\ n <= NC /\ p.jc \in Int /\ NR \in Nat \ {0} /\ NC \in Nat
  <2> HIDE DEF T, p
  <2> QED BY <1>1, BlockTypes, TileAssumption DEF InBlock
<1>3. i \in 0 .. NC - 1 /\ i * NR < n
  <2> DEFINE d == j - p.jc
  <2>1. d \in Nat /\ d < n
    BY <1>2
  <2> HIDE DEF d, n, p
  <2>2. d \div NR \in Nat /\ d \div NR <= d /\ (d \div NR) * NR <= d /\ (d \div NR) * NR \in Nat
    BY <1>2, <2>1, Z3
  <2> QED BY <1>2, <2>1, <2>2 DEF d
<1>4. T.shared => sharedB[i] = BlockId(p)
  <2>1. TeamInStep /\ DOMAIN sharedB = 0 .. NC - 1
    BY TeamsHold DEF RightInv, TeamInv, Records
  <2> HIDE DEF i
  <2> QED BY <1>3, <2>1 DEF TeamInStep
<1> QED BY <1>4 DEF Terms

\* One row block: its cells get the depths of the block.
LEMMA MicroRight ==
    ASSUME RightInv, NEW t \in Threads, Micro(t) PROVE Right' /\ Promised
<1> DEFINE T == task[t]
           p == pos[t]
           p2 == pos'[t]
           n == BlockN(T, p)
           to == imin(p.ic + MC, T.m1)
           cells == Cells(p.ic, to, p.jc, p.jc + n)
           f == [c \in cells |-> Interval(0, Reach(T, p))]
           more == p.ic + MC < T.m1
           value(c) == IF p.pc = 0 THEN Terms(T, p, c[2])
                       ELSE Add(C[At(c, T.s.ldc)], Terms(T, p, c[2]))
<1>1. /\ at[t] = "micro" /\ at[t] \in Blocks
      /\ C' = Stored(C, 0, cells, T.s.ldc, value)
      /\ IF more THEN GoTo(t, "micro") /\ pos' = [pos EXCEPT ![t].ic = p.ic + MC]
         ELSE GoTo(t, AfterReading(T)) /\ UNCHANGED pos
      /\ UNCHANGED <<ceiling, shape, calls, task, poolN, slot, gen, scratch>>
  BY DEF Micro, call, pool, Blocks
<1>2. /\ InBlock(T, p) /\ ~T.ksplit /\ T.s = shape /\ shape.K \in Nat \ {0}
      /\ T.m0 \in Int /\ T.m1 \in Int /\ T.n0 \in Int /\ T.n1 \in Int
      /\ T.nthr \in Nat \ {0} /\ T.s.K \in Nat \ {0}
      /\ Recs[t] = T /\ ~Completed(t) /\ Progress /\ t \in Crew
      /\ at[t] \in Inside \ {"reduce", "meet_reduce"}
      /\ p = [jc |-> p.jc, pc |-> p.pc, ic |-> p.ic] /\ DOMAIN pos = Threads
  BY <1>1, AtBlock
<1>3. /\ n \in Nat \ {0} /\ p.jc \in Int /\ p.ic \in Int /\ p.pc \in Nat
      /\ Reach(T, p) \in Nat /\ p.pc < Reach(T, p)
      /\ BlockK(T, p) = Interval(p.pc, Reach(T, p))
      /\ T.n0 <= p.jc /\ T.m0 <= p.ic /\ p.jc + n <= T.n1
      /\ MC \in Nat \ {0} /\ to \in Int /\ to <= T.m1
      /\ IF more THEN to = p.ic + MC ELSE to = T.m1
  <2>1. InBlock(T, p) /\ T.n1 \in Int /\ T.nthr \in Nat \ {0} /\ T.s.K \in Nat \ {0}
        /\ T.m1 \in Int
    BY <1>2
  <2>2. MC \in Nat \ {0} /\ NC \in Nat \ {0}
    BY TileAssumption
  <2> HIDE DEF T, p, n, to
  <2>3. /\ n \in Nat \ {0} /\ Reach(T, p) \in Nat /\ p.pc < Reach(T, p)
        /\ BlockK(T, p) = Interval(p.pc, Reach(T, p))
        /\ IF p.jc + NC < T.n1 THEN n = NC ELSE p.jc + n = T.n1
    BY <2>1, BlockTypes DEF n
  <2>4. p.jc + n <= T.n1
    BY <2>1, <2>2, <2>3 DEF InBlock
  <2>5. to \in Int /\ to <= T.m1 /\ (IF more THEN to = p.ic + MC ELSE to = T.m1)
    BY <2>1, <2>2 DEF InBlock, to, imin
  <2> QED BY <2>1, <2>2, <2>3, <2>4, <2>5 DEF InBlock
<1>4. PICK where \in {"micro", "meet_next", "next"} :
         /\ GoTo(t, where) /\ (more <=> where = "micro")
         /\ p2 = [jc |-> p.jc, pc |-> p.pc, ic |-> IF more THEN p.ic + MC ELSE p.ic]
         /\ \A u \in Threads \ {t} : pos'[u] = pos[u]
  <2>1. CASE more
    <3>1. GoTo(t, "micro") /\ pos' = [pos EXCEPT ![t].ic = p.ic + MC]
      BY <1>1, <2>1
    <3>2. p2 = [p EXCEPT !.ic = p.ic + MC] /\ \A u \in Threads \ {t} : pos'[u] = pos[u]
      BY <1>2, <3>1
    <3>3. p2 = [jc |-> p.jc, pc |-> p.pc, ic |-> p.ic + MC]
      BY <1>2, <3>2
    <3> HIDE DEF more, p2
    <3> QED BY <2>1, <3>1, <3>2, <3>3
  <2>2. CASE ~more
    <3>1. GoTo(t, AfterReading(T)) /\ UNCHANGED pos /\ AfterReading(T) \in {"meet_next", "next"}
      BY <1>1, <2>2 DEF AfterReading
    <3> HIDE DEF more
    <3> QED BY <1>2, <2>2, <3>1
  <2> QED BY <2>1, <2>2
<1>5. at'[t] = where /\ UNCHANGED done
      /\ where \in Blocks /\ where \in Inside \ {"reduce", "meet_reduce"}
      /\ Recs' = Recs /\ shape' = shape
  BY <1>1, <1>4 DEF GoTo, RightInv, Inv, Types, Inside, Blocks, Recs
<1>6. \A c \in Rect(T) : c[1] \in Int /\ c[2] \in Int /\ T.m0 <= c[1] /\ c[1] < T.m1
                         /\ T.n0 <= c[2] /\ c[2] < T.n1
  BY <1>2, IntervalLemma DEF Rect, Cells
<1>7. /\ cells \subseteq Rect(T)
      /\ \A c \in Rect(T) : c \in cells <=> /\ p.ic <= c[1] /\ c[1] < to
                                            /\ p.jc <= c[2] /\ c[2] < p.jc + n
  <2> HIDE DEF T, p, n, to
  <2> DEFINE a == p.ic  b == p.jc  e == p.jc + n  m0 == T.m0  m1 == T.m1  n0 == T.n0  n1 == T.n1
  <2>1. a \in Int /\ b \in Int /\ e \in Int /\ to \in Int /\ m0 \in Int /\ m1 \in Int
        /\ n0 \in Int /\ n1 \in Int /\ m0 <= a /\ to <= m1 /\ n0 <= b /\ e <= n1
    BY <1>2, <1>3
  <2>2. cells = Interval(a, to) \X Interval(b, e) /\ Rect(T) = Interval(m0, m1) \X Interval(n0, n1)
    BY DEF Rect, Cells
  <2> HIDE DEF a, b, e, m0, m1, n0, n1, cells
  <2>3. /\ Interval(a, to) \subseteq Interval(m0, m1) /\ Interval(b, e) \subseteq Interval(n0, n1)
        /\ \A i \in Interval(m0, m1) : i \in Interval(a, to) <=> a <= i /\ i < to
        /\ \A j \in Interval(n0, n1) : j \in Interval(b, e) <=> b <= j /\ j < e
    BY <2>1 DEF Interval
  <2>4. cells \subseteq Rect(T)
    BY <2>2, <2>3
  <2>5. \A c \in Rect(T) : c \in cells <=> a <= c[1] /\ c[1] < to /\ b <= c[2] /\ c[2] < e
    BY <2>2, <2>3
  <2> QED BY <2>4, <2>5 DEF a, b, e
<1> HIDE DEF n, to
\* What a cell of the row block held, and what it gets.
<1>8. ASSUME NEW c \in cells, At(c, shape.ldc) \in Addr PROVE value(c) = Interval(0, Reach(T, p))
  <2>1. c \in Rect(T) /\ c[1] \in Int /\ c[2] \in Int /\ p.ic <= c[1]
        /\ p.jc <= c[2] /\ c[2] < p.jc + n
    BY <1>6, <1>7, <1>8
  <2>2. Terms(T, p, c[2]) = Interval(p.pc, Reach(T, p))
    BY <1>1, <1>3, <2>1, BlockTerms DEF n
  <2>3. C[At(c, shape.ldc)] = Before(p)
    <3>1. C[At(c, shape.ldc)] = Value(t, c)
      BY <1>2, <1>8, <2>1, Holding
    <3>2. ~Multiplied(t, c)
      BY <1>1, <1>3, <2>1 DEF Multiplied
    <3>3. ~(c[2] < p.jc) /\ ~(c[2] >= p.jc + n)
      BY <1>3, <2>1
    <3>4. Blocked(t, c) = Before(p)
      <4> HIDE DEF Recs, T, p
      <4> QED BY <1>2, <3>2, <3>3 DEF Blocked, n, T, p
    <3> QED BY <1>1, <1>2, <3>1, <3>4 DEF Value
  <2> HIDE DEF T, p
  <2>4. CASE p.pc = 0
    BY <2>2, <2>4
  <2>5. CASE p.pc # 0
    <3>1. Add(Interval(0, p.pc), Interval(p.pc, Reach(T, p))) = Interval(0, Reach(T, p))
      BY <1>3, AddTerms
    <3> QED BY <1>2, <2>2, <2>3, <2>5, <3>1 DEF Before
  <2> QED BY <2>4, <2>5
<1>9. Stores(t, cells, f)
  <2>1. DOMAIN C = Addr
    BY <1>2 DEF Progress, Holds
  <2>2. C' = [x \in DOMAIN C |-> IF \E c \in cells : 0 + At(c, shape.ldc) = x
                                 THEN value(CHOOSE c \in cells : 0 + At(c, shape.ldc) = x)
                                 ELSE C[x]]
    BY <1>1, <1>2 DEF Stored
  <2>3. \A c \in cells : At(c, shape.ldc) \in Int
    <3> SUFFICES ASSUME NEW c \in cells PROVE At(c, shape.ldc) \in Int
      OBVIOUS
    <3>1. c \in All(shape) /\ shape \in Shapes
      BY <1>2, <1>7, Working
    <3> QED BY <3>1, AddressInt
  <2>4. ASSUME NEW x \in Addr, \E c \in cells : 0 + At(c, shape.ldc) = x
        PROVE  value(CHOOSE c \in cells : 0 + At(c, shape.ldc) = x)
               = f[CHOOSE c \in cells : 0 + At(c, shape.ldc) = x]
    <3> DEFINE d == CHOOSE c \in cells : 0 + At(c, shape.ldc) = x
    <3>1. d \in cells /\ 0 + At(d, shape.ldc) = x
      BY <2>4
    <3> HIDE DEF d, cells, value
    <3>2. At(d, shape.ldc) \in Addr
      BY <2>3, <3>1
    <3>3. value(d) = Interval(0, Reach(T, p))
      BY <1>8, <3>1, <3>2
    <3> QED BY <3>1, <3>3 DEF d
  <2> HIDE DEF value, f, cells
  <2>5. C' = Written(C, 0, cells, shape.ldc, f)
    BY <2>1, <2>2, <2>4 DEF Written
  <2> QED BY <1>2, <1>7, <2>5 DEF Stores
<1>10. BlockN(T, p2) = n /\ Reach(T, p2) = Reach(T, p) /\ p2.jc = p.jc /\ p2.pc = p.pc
       /\ (more => p2.ic = to) /\ (~more => p2.ic = p.ic)
  <2>1. p2.jc = p.jc /\ p2.pc = p.pc /\ p2.ic = IF more THEN p.ic + MC ELSE p.ic
    <3> HIDE DEF more, p2
    <3> QED BY <1>4
  <2>2. BlockN(T, p2) = n
    <3> HIDE DEF p2, p, T
    <3> QED BY <2>1 DEF BlockN, n
  <2>3. KcEff(T, p2) = KcEff(T, p)
    <3> HIDE DEF p2, p, T
    <3> QED BY <2>2 DEF KcEff, n
  <2>4. Reach(T, p2) = Reach(T, p)
    <3> HIDE DEF p2, p, T
    <3> QED BY <2>1, <2>3 DEF Reach
  <2> HIDE DEF p2
  <2> QED BY <1>3, <2>1, <2>2, <2>4
<1>11. Position(t)'
  <2>1. InBlock(T, p2)
    <3> HIDE DEF p2, p, T
    <3> QED BY <1>2, <1>3, <1>10 DEF InBlock, more
  <2>2. at'[t] \notin {"pack", "meet_micro", "small"} /\ Recs'[t] = T
    BY <1>2, <1>4, <1>5
  <2> HIDE DEF Recs, T
  <2> QED BY <1>2, <2>1, <2>2 DEF Position
<1>12. ASSUME NEW c \in Rect(T)
       PROVE  Value(t, c)' = IF c \in cells THEN f[c] ELSE Value(t, c)
  <2>1. ~Completed(t)' /\ Recs'[t] = T /\ at'[t] \in Blocks
    BY <1>1, <1>2, <1>5 DEF Completed, Blocks
  <2>2. c[1] \in Int /\ c[2] \in Int /\ c[1] < T.m1
    BY <1>6, <1>12
  <2>3. Multiplied(t, c)' <=> c[1] < to
    BY <1>3, <1>4, <1>5, <1>10, <2>2 DEF Multiplied
  <2>4. Multiplied(t, c) <=> c[1] < p.ic
    BY <1>1 DEF Multiplied
  <2>5. c \in cells <=> p.ic <= c[1] /\ c[1] < to /\ p.jc <= c[2] /\ c[2] < p.jc + n
    BY <1>7, <1>12
  <2>6. c \in cells => f[c] = Interval(0, Reach(T, p))
    OBVIOUS
  <2>7. Value(t, c) = IF c[2] < p.jc THEN Interval(0, T.s.K)
                      ELSE IF c[2] >= p.jc + n THEN Old
                      ELSE IF c[1] < p.ic THEN Interval(0, Reach(T, p)) ELSE Before(p)
    <3> HIDE DEF Recs
    <3> QED BY <1>1, <1>2, <2>4 DEF Value, Blocked, n
  <2>8. Value(t, c)' = IF c[2] < p.jc THEN Interval(0, T.s.K)
                       ELSE IF c[2] >= p.jc + n THEN Old
                       ELSE IF c[1] < to THEN Interval(0, Reach(T, p)) ELSE Before(p)
    <3>1. Before(p2) = Before(p)
      <4> HIDE DEF p, p2
      <4> QED BY <1>10 DEF Before
    <3>2. Blocked(t, c)' = IF c[2] < p2.jc THEN Interval(0, T.s.K)
                           ELSE IF c[2] >= p2.jc + BlockN(T, p2) THEN Old
                           ELSE IF Multiplied(t, c)' THEN Interval(0, Reach(T, p2)) ELSE Before(p2)
      <4> HIDE DEF Recs, T
      <4> QED BY <2>1 DEF Blocked
    <3> HIDE DEF Recs, T, p2, p
    <3> QED BY <1>10, <2>1, <2>3, <3>1, <3>2 DEF Value
  <2> HIDE DEF f, cells, T, p
  <2> QED BY <1>3, <2>2, <2>5, <2>6, <2>7, <2>8
<1> HIDE DEF f, cells
<1>13. \A c \in Rect(task[t]) : At(c, shape.ldc) \in Addr =>
              Value(t, c)' = IF c \in cells THEN f[c] ELSE Value(t, c)
  BY <1>12
<1> QED
  <2>1. GoTo(t, where) /\ \A u \in Threads \ {t} : pos'[u] = pos[u]
    BY <1>4
  <2>2. UNCHANGED <<ceiling, shape, calls, task, poolN, slot, gen, scratch>>
    BY <1>1
  <2> HIDE DEF T, p, p2, more
  <2> QED BY <1>2, <1>5, <1>9, <1>11, <1>13, <2>1, <2>2, GoRight

\* The next block of the slice, or its end.
LEMMA AdvanceRight ==
    ASSUME RightInv, NEW t \in Threads, Advance(t) PROVE Right' /\ Promised
<1> DEFINE T == task[t]
           p == pos[t]
           n == BlockN(T, p)
           g == [c \in {} |-> Old]
           deeper == p.pc + KcEff(T, p) < T.s.K
           beyond == p.jc + NC < T.n1
           Went(q) == GoTo(t, "pack") /\ pos' = [pos EXCEPT ![t] = q]
           q1 == [jc |-> p.jc, pc |-> p.pc + KcEff(T, p), ic |-> T.m0]
           q2 == [jc |-> p.jc + NC, pc |-> 0, ic |-> T.m0]
<1>1. /\ at[t] = "next" /\ at[t] \in Blocks
      /\ IF deeper THEN Went(q1) ELSE IF beyond THEN Went(q2) ELSE Finish(t) /\ UNCHANGED pos
      /\ UNCHANGED <<ceiling, shape, calls, C, task, poolN, slot, gen, scratch>>
  BY DEF Advance, call, pool, Blocks
<1>2. /\ InBlock(T, p) /\ ~T.ksplit /\ T.s = shape /\ shape.K \in Nat \ {0}
      /\ T.m0 \in Int /\ T.m1 \in Int /\ T.n0 \in Int /\ T.n1 \in Int
      /\ T.nthr \in Nat \ {0} /\ T.s.K \in Nat \ {0}
      /\ Recs[t] = T /\ ~Completed(t) /\ Progress /\ t \in Crew
      /\ at[t] \in Inside \ {"reduce", "meet_reduce"} /\ DOMAIN pos = Threads
  BY <1>1, AtBlock
<1>3. /\ n \in Nat \ {0} /\ KcEff(T, p) \in Nat \ {0} /\ NC \in Nat \ {0}
      /\ p.jc \in Int /\ p.ic \in Int /\ p.pc \in Nat /\ T.n0 <= p.jc /\ T.m0 < T.m1
      /\ IF beyond THEN n = NC ELSE p.jc + n = T.n1
      /\ IF deeper THEN Reach(T, p) = p.pc + KcEff(T, p) ELSE Reach(T, p) = T.s.K
  <2> HIDE DEF T, p, n
  <2>1. NC \in Nat \ {0}
    BY TileAssumption
  <2> QED BY <1>2, <2>1, BlockTypes DEF InBlock, n
<1>4. \A c \in Rect(T) : c[1] \in Int /\ c[2] \in Int /\ T.m0 <= c[1] /\ c[1] < T.m1
                         /\ T.n0 <= c[2] /\ c[2] < T.n1
  BY <1>2, IntervalLemma DEF Rect, Cells
<1>5. Stores(t, {}, g)
  BY <1>1, <1>2, StoresNothing
<1>6. Recs' = Recs /\ shape' = shape
  BY <1>1 DEF Recs
<1>7. ASSUME NEW c \in Rect(T)
      PROVE  Value(t, c) = IF c[2] < p.jc THEN Interval(0, T.s.K)
                           ELSE IF c[2] >= p.jc + n THEN Old ELSE Interval(0, Reach(T, p))
  <2>1. Multiplied(t, c)
    BY <1>1 DEF Multiplied
  <2> HIDE DEF Recs
  <2> QED BY <1>1, <1>2, <2>1 DEF Value, Blocked, n
\* The next block holds what is said of it.
<1>8. ASSUME NEW q, Went(q), q.ic = T.m0, InBlock(T, q),
             \A c \in Rect(T) :
                Value(t, c) = IF c[2] < q.jc THEN Interval(0, T.s.K)
                              ELSE IF c[2] >= q.jc + BlockN(T, q) THEN Old ELSE Before(q)
      PROVE  Right' /\ Promised
  <2>1. GoTo(t, "pack") /\ pos'[t] = q /\ \A u \in Threads \ {t} : pos'[u] = pos[u]
    BY <1>2, <1>8
  <2>2. at'[t] = "pack" /\ ~Completed(t)' /\ at'[t] \in Blocks
        /\ "pack" \in Inside \ {"reduce", "meet_reduce"}
    BY <1>1, <1>2, <2>1 DEF GoTo, Completed, RightInv, Inv, Types, Blocks, Inside
  <2>3. Recs'[t] = T
    BY <1>2, <1>6
  <2>4. Position(t)'
    <3> HIDE DEF Recs, T
    <3> QED BY <1>2, <1>8, <2>1, <2>2, <2>3 DEF Position
  <2>5. ASSUME NEW c \in Rect(T) PROVE Value(t, c)' = Value(t, c)
    <3>1. ~Multiplied(t, c)'
      BY <1>2, <1>4, <1>8, <2>1, <2>2, <2>5 DEF Multiplied
    <3>2. Blocked(t, c)' = Value(t, c)
      <4> HIDE DEF Recs, T
      <4> QED BY <1>8, <2>1, <2>3, <2>5, <3>1 DEF Blocked, Before
    <3> QED BY <2>2, <3>2 DEF Value
  <2> HIDE DEF g, Went
  <2>6. \A c \in Rect(task[t]) : At(c, shape.ldc) \in Addr =>
           Value(t, c)' = IF c \in {} THEN g[c] ELSE Value(t, c)
    BY <2>5
  <2> HIDE DEF T, p
  <2> QED BY <1>1, <1>2, <1>5, <2>1, <2>2, <2>4, <2>6, GoRight
<1>9. CASE deeper
  <2>1. Went(q1) /\ q1.ic = T.m0 /\ q1.jc = p.jc /\ q1.pc = Reach(T, p) /\ q1.pc # 0
    BY <1>1, <1>3, <1>9
  <2>2. InBlock(T, q1)
    <3>1. p.jc < T.n1
      BY <1>2 DEF InBlock
    <3> HIDE DEF T, p
    <3> QED BY <1>2, <1>3, <1>9, <3>1 DEF InBlock
  <2> HIDE DEF q1, Went
  <2>3. BlockN(T, q1) = n
    <3> HIDE DEF T, p
    <3> QED BY <2>1 DEF BlockN, n
  <2>4. Before(q1) = Interval(0, Reach(T, p))
    <3> HIDE DEF T, p
    <3> QED BY <2>1 DEF Before
  <2> HIDE DEF T, p, n
  <2> QED BY <1>7, <1>8, <2>1, <2>2, <2>3, <2>4
<1>10. CASE ~deeper /\ beyond
  <2>1. Went(q2) /\ q2.ic = T.m0 /\ q2.jc = p.jc + NC /\ q2.pc = 0 /\ n = NC
        /\ Reach(T, p) = T.s.K
    BY <1>1, <1>3, <1>10
  <2>2. InBlock(T, q2)
    <3> HIDE DEF T, p
    <3> QED BY <1>2, <1>3, <1>10 DEF InBlock
  <2> HIDE DEF q2, Went
  <2>3. Before(q2) = Old
    BY <2>1 DEF Before
  <2>4. \A c \in Rect(T) :
           Value(t, c) = IF c[2] < q2.jc THEN Interval(0, T.s.K)
                         ELSE IF c[2] >= q2.jc + BlockN(T, q2) THEN Old ELSE Before(q2)
    <3> SUFFICES ASSUME NEW c \in Rect(T)
                 PROVE  Value(t, c) = IF c[2] < q2.jc THEN Interval(0, T.s.K) ELSE Old
      BY <2>3
    <3>1. c[2] \in Int
      BY <1>4
    <3>2. Value(t, c) = IF c[2] < p.jc THEN Interval(0, T.s.K)
                        ELSE IF c[2] >= p.jc + n THEN Old ELSE Interval(0, Reach(T, p))
      BY <1>7
    <3> HIDE DEF T, p, n
    <3> QED BY <1>3, <2>1, <3>1, <3>2
  <2> HIDE DEF T, p, n
  <2> QED BY <1>8, <2>1, <2>2, <2>4
<1>11. CASE ~deeper /\ ~beyond
  <2>1. Finish(t) /\ UNCHANGED pos /\ p.jc + n = T.n1 /\ Reach(T, p) = T.s.K
    BY <1>1, <1>3, <1>11
  <2>2. ~Banded(t)
    <3> HIDE DEF Recs
    <3> QED BY <1>2 DEF Banded
  <2>3. ASSUME NEW c \in Rect(T) PROVE Value(t, c) = Interval(0, shape.K)
    <3>1. c[2] \in Int /\ c[2] < T.n1
      BY <1>4, <2>3
    <3>2. Value(t, c) = IF c[2] < p.jc THEN Interval(0, T.s.K)
                        ELSE IF c[2] >= p.jc + n THEN Old ELSE Interval(0, Reach(T, p))
      BY <1>7, <2>3
    <3>3. ~(c[2] >= p.jc + n)
      <4> HIDE DEF T, p, n
      <4> QED BY <1>3, <2>1, <3>1
    <3> QED BY <1>2, <2>1, <3>2, <3>3
  <2> HIDE DEF g
  <2>4. \A c \in Rect(task[t]) : At(c, shape.ldc) \in Addr =>
           (IF c \in {} THEN g[c] ELSE Value(t, c)) = Interval(0, shape.K)
    BY <2>3
  <2>5. at[t] \in Running /\ UNCHANGED <<ceiling, shape, calls, task, poolN, slot, gen, scratch>>
    BY <1>1 DEF Running
  <2>6. \A u \in Threads \ {t} : pos'[u] = pos[u]
    BY <2>1
  <2> HIDE DEF T, p, n
  <2> QED BY <1>5, <2>1, <2>2, <2>4, <2>5, <2>6, FinishRight
<1> QED BY <1>9, <1>10, <1>11

\* Threads may go on together, as long as their slices hold what they held.
LEMMA KeptRight ==
    ASSUME RightInv, Calling, Calling',
           UNCHANGED <<ceiling, shape, calls, C, pos, poolN, slot, scratch, gen, done>>,
           Recs' = Recs, Count' = Count, at'[0] = "join" <=> at[0] = "join",
           \A u \in Crew :
              \/ at'[u] = at[u]
              \/ at[u] = "meet_reduce" /\ at'[u] = "reduce"
              \/ at[u] = "meet_micro" /\ at'[u] = "micro"
              \/ at[u] = "meet_next" /\ at'[u] = "next"
              \/ {at[u], at'[u]} \subseteq Resting \cup {"load", "enter"},
           \A u \in Crew : at'[u] = "reduce" =>
              at[u] = "reduce" \/ \A v \in Interval(0, Recs[u].nthr) : Summed(v)
    PROVE  Right' /\ Promised
<1>1. Progress /\ Right /\ Crew' = Crew /\ Divided(Recs, Count, shape)
  BY DEF RightInv, Right, Progress, Crew
<1>2. \A u \in Crew : Completed(u)' = Completed(u)
  BY DEF Completed
<1>3. \A u \in Crew :
         /\ at'[u] \in Blocks <=> at[u] \in Blocks
         /\ at'[u] \in {"meet_next", "next"} <=> at[u] \in {"meet_next", "next"}
         /\ at'[u] \in {"pack", "meet_micro"} => at[u] \in {"pack", "meet_micro"}
         /\ at'[u] = "small" => at[u] = "small"
         /\ at'[u] \in {"meet_reduce", "reduce"} <=> at[u] \in {"meet_reduce", "reduce"}
  BY DEF Blocks, Resting
<1>4. ASSUME NEW u \in Crew
      PROVE  /\ \A c : Value(u, c)' = Value(u, c)
             /\ Position(u)' /\ Panel(u)' /\ Summed(u)' = Summed(u)
  <2>1. Summed(u)' = Summed(u)
    BY <1>2, <1>3 DEF Summed
  <2>2. \A c : Multiplied(u, c)' = Multiplied(u, c)
    BY <1>3 DEF Multiplied
  <2>3. Position(u) /\ Panel(u)
    BY <1>1 DEF Progress
  <2> HIDE DEF Recs, Count, Completed, Summed, Crew
  <2>4. \A c : Blocked(u, c)' = Blocked(u, c)
    BY <2>2 DEF Blocked, Before
  <2>5. \A c : Value(u, c)' = Value(u, c)
    BY <1>2, <1>3, <2>4 DEF Value
  <2>6. Position(u)'
    BY <1>3, <2>3 DEF Position
  <2>7. Panel(u)'
    BY <2>1, <2>3 DEF Panel, PanelIn, Banded
  <2> QED BY <2>1, <2>5, <2>6, <2>7
<1>5. Holds(C, shape, Values)'
  <2> HIDE DEF Recs, Count
  <2>1. \A c \in All(shape) : Owner(Recs, Count, c) \in Crew
    BY <1>1, Owners DEF Crew
  <2>2. \A c : Owner(Recs, Count, c)' = Owner(Recs, Count, c)
    BY DEF Owner
  <2>3. \A c \in All(shape) : \A o \in Crew : Value(o, c)' = Value(o, c)
    BY <1>4
  <2>4. \A c \in All(shape) : Values'[c] = Values[c]
    <3> SUFFICES ASSUME NEW c \in All(shape) PROVE Values'[c] = Values[c]
      OBVIOUS
    <3>1. PICK o \in Crew : o = Owner(Recs, Count, c)
      BY <2>1
    <3>2. Values'[c] = Value(o, c)'
      <4>1. Owner(Recs, Count, c)' = o /\ c \in All(shape)'
        BY <2>2, <3>1
      <4> QED BY <4>1 DEF Values
    <3>3. Values[c] = Value(o, c)
      BY <3>1 DEF Values
    <3> QED BY <2>3, <3>2, <3>3
  <2>5. Holds(C, shape, Values)
    BY <1>1 DEF Progress
  <2> HIDE DEF Values
  <2>6. Holds(C, shape, Values')
    BY <2>4, <2>5, HoldsSame
  <2> QED BY <2>6
<1>6. ASSUME NEW u \in Crew, at'[u] = "reduce", NEW v \in Interval(0, Recs[u].nthr)
      PROVE  Summed(v)'
  <2>1. Summed(v)
    BY <1>1, <1>6 DEF Progress
  <2>2. v \in Crew
    <3> HIDE DEF Recs, Count
    <3> QED BY <1>1, <1>6 DEF Divided, Crew, Interval
  <2> QED BY <1>4, <2>1, <2>2
<1>7. Progress'
  <2>1. Divided(Recs, Count, shape)'
    <3> HIDE DEF Recs, Count
    <3> QED BY <1>1
  <2> HIDE DEF Recs, Count, Crew
  <2> QED BY <1>1, <1>4, <1>5, <1>6, <2>1 DEF Progress
<1>8. Busy /\ Busy'
  BY DEF Busy, Calling, Serial
<1>9. Right'
  BY <1>1, <1>7, <1>8 DEF Right, Calling, Serial
<1> QED BY <1>8, <1>9, Unseen

\* The barrier opens.
LEMMA MeetRight ==
    ASSUME RightInv, NEW t \in Threads, Meet(t) PROVE Right' /\ Promised
<1> DEFINE waiting == arrived \cup {t}
<1>1. /\ UNCHANGED <<ceiling, shape, calls, C, task, pos, poolN, slot, scratch, gen, done>>
      /\ at[t] \in Meets /\ Inv /\ TeamInv
  BY DEF Meet, call, pool, signal, Meets, RightInv
<1>2. ~Alone(t) /\ at[t] \in Inside
  BY <1>1, Meeting DEF Meets, Inside
<1>3. Calling /\ Progress /\ ~task[0].solo /\ Recs = slot /\ Count = poolN
      /\ Divided(Recs, Count, shape)
  <2>1. Parallel /\ at[0] \notin Serial
    BY <1>1, <1>2, InsideAgrees
  <2>2. ~task[0].solo
    BY <2>1 DEF Parallel, Serial
  <2> QED BY <1>2, <2>2, Working DEF Recs, Count
<1>4. Recs' = Recs /\ Count' = Count /\ Crew' = Crew
  BY <1>1 DEF Recs, Count, Crew
<1>5. CASE UNCHANGED at
  BY <1>1, <1>3, <1>4, <1>5, KeptRight DEF Calling
<1>6. CASE ~UNCHANGED at
  <2> HIDE DEF waiting
  <2>1. /\ barrierN \in Nat /\ waiting = 0 .. barrierN - 1
        /\ \A u \in Threads :
              /\ u \in waiting => at[u] \in Meets /\ at'[u] = After(at[u])
              /\ u \notin waiting => at'[u] = at[u] /\ at[u] \notin Meets
    BY <1>1, <1>6, Opening DEF waiting
  <2>2. \A u \in Threads :
           \/ at'[u] = at[u]
           \/ at[u] = "meet_reduce" /\ at'[u] = "reduce" /\ u \in waiting
           \/ at[u] = "meet_micro" /\ at'[u] = "micro"
           \/ at[u] = "meet_next" /\ at'[u] = "next"
    BY <2>1 DEF Meets, After
  <2>3. Crew \subseteq Threads
    <3> HIDE DEF Recs, Count
    <3> QED BY <1>3, ThreadsAssumption DEF Divided, Crew, Threads, Interval
  <2>4. Calling' /\ (at'[0] = "join" <=> at[0] = "join")
    BY <1>3, <2>2, ThreadsLemma DEF Calling, Serial
  <2>5. ASSUME NEW u \in Crew, at'[u] = "reduce", at[u] # "reduce",
               NEW v \in Interval(0, Recs[u].nthr)
        PROVE  Summed(v)
    <3>1. u \in waiting /\ at[u] = "meet_reduce" /\ u \in Threads
      BY <2>2, <2>3, <2>5
    <3>2. task[u] = slot[u] /\ slot[u].nthr = barrierN /\ slot[u].ksplit
      BY <1>1, <3>1, Meeting DEF Meets
    <3>3. v \in waiting
      BY <1>3, <2>1, <2>5, <3>2 DEF Interval
    <3>4. v \in Crew /\ Recs[v].ksplit = Recs[u].ksplit
      <4> HIDE DEF Recs, Count
      <4>1. v \in Crew
        BY <1>3, <2>5 DEF Divided, Crew, Interval
      <4> QED BY <1>3, <4>1 DEF Divided, Crew
    <3>5. v \in Threads /\ at[v] \in Meets /\ slot[v].ksplit
      BY <1>3, <2>1, <2>3, <3>2, <3>3, <3>4
    <3>6. at[v] = "meet_reduce"
      BY <1>1, <3>5, Meeting
    <3> QED BY <3>6 DEF Summed
  <2> HIDE DEF Recs, Count, Crew, Calling
  <2>6. \A u \in Crew : at'[u] = "reduce" =>
              at[u] = "reduce" \/ \A v \in Interval(0, Recs[u].nthr) : Summed(v)
    BY <2>5
  <2>7. \A u \in Crew :
              \/ at'[u] = at[u]
              \/ at[u] = "meet_reduce" /\ at'[u] = "reduce"
              \/ at[u] = "meet_micro" /\ at'[u] = "micro"
              \/ at[u] = "meet_next" /\ at'[u] = "next"
              \/ {at[u], at'[u]} \subseteq Resting \cup {"load", "enter"}
    BY <2>2, <2>3
  <2> QED BY <1>1, <1>3, <1>4, <2>4, <2>6, <2>7, KeptRight
<1> QED BY <1>5, <1>6

\* What workers do between slices, and nothing.
LEMMA WaitRight ==
    ASSUME RightInv,
           \/ UNCHANGED vars
           \/ \E w \in Workers : SeeWork(w) \/ Load(w) \/ Sleep(w) \/ SpuriousWakeup(w)
    PROVE  Right' /\ Promised
<1>1. /\ UNCHANGED <<ceiling, shape, calls, C, pos, poolN, slot, scratch, gen, done>>
      /\ at'[0] = at[0] /\ task'[0] = task[0]
      /\ \A u \in Threads : at'[u] = at[u]
                            \/ {at[u], at'[u]} \subseteq Resting \cup {"load", "enter"}
      /\ task' = task \/ \E w \in Workers : at[w] = "load"
  <2>1. CASE UNCHANGED vars
    BY <2>1 DEF vars, call, pool, signal
  <2>2. CASE \E w \in Workers : SeeWork(w) \/ Load(w) \/ Sleep(w) \/ SpuriousWakeup(w)
    <3>1. PICK w \in Workers : SeeWork(w) \/ Load(w) \/ Sleep(w) \/ SpuriousWakeup(w)
      BY <2>2
    <3>2. UNCHANGED <<ceiling, shape, calls, C, pos, poolN, slot, scratch, gen, done>>
      BY <3>1 DEF SeeWork, Load, Sleep, SpuriousWakeup, GoTo, call, pool
    <3>3. PICK where \in {"load", "enter", "asleep", "woken"} :
             at' = [at EXCEPT ![w] = where] /\ at[w] \in Resting \cup {"load", "enter"}
      BY <3>1 DEF SeeWork, Load, Sleep, SpuriousWakeup, GoTo, Resting
    <3>4. task'[0] = task[0] /\ (task' = task \/ at[w] = "load")
      BY <3>1, ThreadsLemma DEF SeeWork, Load, Sleep, SpuriousWakeup, RightInv, Inv
    <3>5. \A u \in Threads \ {w} : at'[u] = at[u]
      BY <3>3 DEF RightInv, Inv, Types
    <3>6. w \in Threads /\ w # 0 /\ 0 \in Threads /\ at'[w] = where
      BY <3>3, ThreadsLemma DEF RightInv, Inv, Types
    <3>7. \A u \in Threads : at'[u] = at[u]
                            \/ {at[u], at'[u]} \subseteq Resting \cup {"load", "enter"}
      BY <3>3, <3>5, <3>6 DEF Resting
    <3> QED BY <3>2, <3>4, <3>5, <3>6, <3>7
  <2> QED BY <2>1, <2>2
<1>2. CASE ~Calling
  <2>1. ~Calling' /\ (Busy' <=> Busy) /\ Right
    BY <1>1, <1>2 DEF Calling, Busy, RightInv
  <2>2. Right'
    BY <1>1, <1>2, <2>1 DEF Right, Calling, Serial
  <2> QED BY <1>1, <2>2, Unseen
<1>3. CASE Calling
  <2>1. Calling' /\ at[0] \notin Serial
    BY <1>1, <1>3 DEF Calling
  <2>2. task[0].solo => task' = task
    <3> SUFFICES ASSUME task[0].solo, NEW w \in Workers, at[w] = "load" PROVE FALSE
      BY <1>1
    <3>1. AllDone
      BY <2>1 DEF RightInv, TeamInv, Records, Inv, CallerState
    <3> QED BY <3>1, RestingWorkers DEF RightInv, Resting
  <2>3. Recs' = Recs /\ Count' = Count
    BY <1>1, <2>2 DEF Recs, Count
  <2>4. Crew \subseteq Threads
    <3>1. Divided(Recs, Count, shape)
      BY <1>3 DEF RightInv, Right, Progress
    <3> HIDE DEF Recs, Count
    <3> QED BY <3>1, ThreadsAssumption DEF Divided, Crew, Threads, Interval
  <2>5. \A u \in Crew : at'[u] = at[u]
                        \/ {at[u], at'[u]} \subseteq Resting \cup {"load", "enter"}
    BY <1>1, <2>4
  <2>6. \A u \in Crew : at'[u] = "reduce" => at[u] = "reduce"
    BY <2>5 DEF Resting
  <2> HIDE DEF Recs, Count, Crew, Calling
  <2> QED BY <1>1, <1>3, <2>1, <2>3, <2>5, <2>6, KeptRight
<1> QED BY <1>2, <1>3

\* A call arrives, or returns before any slice is run.
LEMMA SerialRight ==
    ASSUME RightInv, (\E s \in Shapes : Call(s)) \/ GuardShape \/ Tiny
    PROVE  Right' /\ Promised
<1>1. shape \in Shapes /\ Right /\ 0 \in Threads /\ DOMAIN at = Threads
  BY ThreadsLemma DEF RightInv, TeamInv, Records, Inv, Types
<1>2. ASSUME NEW s \in Shapes, Call(s) PROVE Right' /\ Promised
  <2>1. /\ at[0] = "idle" /\ at'[0] = "guard" /\ shape' = s /\ calls' = calls + 1
        /\ C' = Untouched /\ UNCHANGED <<ceiling, poolN, slot, scratch>>
    BY <1>1, <1>2 DEF Call, GoTo, pool, Untouched
  <2>2. Right'
    BY <1>1, <2>1 DEF Right, Calling, Serial
  <2> QED BY <2>1, <2>2, Called DEF Busy
<1>3. CASE GuardShape \/ Tiny
  <2>1. /\ at[0] \in {"guard", "entry"} /\ C = Untouched
        /\ UNCHANGED <<ceiling, shape, calls, poolN, slot, scratch>>
    BY <1>1, <1>3 DEF GuardShape, Tiny, call, pool, Right
  <2>2. CASE at'[0] = "entry" /\ UNCHANGED C /\ ~Empty(shape) /\ shape.K > 0
    <3>1. Right'
      BY <1>1, <2>1, <2>2 DEF Right, Calling, Serial, Busy
    <3> QED BY <2>1, <2>2, <3>1, Unseen DEF Busy
  <2>3. CASE at'[0] = "idle" /\ C' = Product(shape)
    <3>1. Right'
      BY <1>1, <2>1, <2>3 DEF Right, Calling, Serial, Busy
    <3> QED BY <1>1, <2>1, <2>3, <3>1, Returned DEF Busy
  <2>4. CASE GuardShape
    <3>1. CASE ~(Empty(shape) \/ shape.K <= 0)
      <4>1. shape.K > 0
        BY <1>1, <3>1, ShapesAssumption
      <4> QED BY <1>1, <2>2, <2>4, <3>1, <4>1 DEF GuardShape, GoTo
    <3>2. CASE Empty(shape)
      <4>1. Product(shape) = Untouched
        BY <3>2 DEF Product, ProductIn, Untouched
      <4> QED BY <1>1, <2>1, <2>3, <2>4, <3>2, <4>1 DEF GuardShape, GoTo
    <3>3. CASE ~Empty(shape) /\ shape.K <= 0
      <4>1. Interval(0, shape.K) = {}
        BY <1>1, <3>3, ShapesAssumption DEF Interval
      <4>2. C' = Stored(C, 0, Cells(0, shape.M, 0, shape.N), shape.ldc, LAMBDA c : {})
            /\ at'[0] = "idle"
        BY <1>1, <2>4, <3>3 DEF GuardShape, GoTo
      <4>3. C' = Product(shape)
        BY <2>1, <3>3, <4>1, <4>2 DEF Product, ProductIn, Untouched, Stored
      <4> QED BY <2>3, <4>2, <4>3
    <3> QED BY <3>1, <3>2, <3>3
  <2>5. CASE Tiny
    <3>1. ~Empty(shape)
      BY <1>1, <2>5 DEF Tiny, Right
    <3>2. /\ C' = Stored(C, 0, Cells(0, shape.M, 0, shape.N), shape.ldc,
                         LAMBDA c : Interval(0, shape.K))
          /\ at'[0] = "idle"
      BY <1>1, <2>5 DEF Tiny, GoTo
    <3>3. C' = Product(shape)
      BY <2>1, <3>1, <3>2 DEF Product, ProductIn, Untouched
    <3> QED BY <2>3, <3>2, <3>3
  <2> QED BY <1>3, <2>4, <2>5
<1> QED BY <1>2, <1>3

\* The slices of a call begin.
LEMMA StartRight ==
    ASSUME RightInv, at[0] \in {"entry", "publish"}, at'[0] = "enter",
           UNCHANGED <<ceiling, shape, calls, C, poolN, slot, scratch>>,
           Divided(Recs', Count', shape),
           \A u \in Interval(0, Count') : ~Completed(u)' /\ at'[u] \in Resting \cup {"enter"}
    PROVE  Right' /\ Promised
<1>1. Right /\ shape \in Shapes /\ C = Untouched /\ ~Empty(shape) /\ shape.K > 0
  BY DEF RightInv, TeamInv, Records, Right
<1>2. Calling' /\ Busy /\ Busy' /\ Crew' = Interval(0, Count')
  BY DEF Calling, Busy, Serial, Crew
<1>3. \A u \in Interval(0, Count') :
         at'[u] \notin Blocks \cup {"small", "reduce", "meet_reduce"} /\ ~Completed(u)'
  BY DEF Resting, Blocks
<1>4. \A u \in Interval(0, Count') : /\ Position(u)' /\ Panel(u)' /\ at'[u] # "reduce"
                                     /\ \A c : Value(u, c)' = Old
  <2> SUFFICES ASSUME NEW u \in Interval(0, Count')
               PROVE  /\ Position(u)' /\ Panel(u)' /\ at'[u] # "reduce"
                      /\ \A c : Value(u, c)' = Old
    OBVIOUS
  <2>1. at'[u] \notin Blocks \cup {"small", "reduce", "meet_reduce"} /\ ~Completed(u)'
    BY <1>3
  <2>2. at'[u] \notin {"pack", "meet_micro"}
    BY <2>1 DEF Blocks
  <2>3. ~Summed(u)'
    BY <2>1 DEF Summed
  <2> QED BY <2>1, <2>2, <2>3 DEF Position, Panel, Value
<1>5. Holds(C, shape, Values)'
  <2>1. Holds(C', shape, [c \in All(shape) |-> Old])
    BY <1>1, UntouchedHolds
  <2>2. \A c \in All(shape) : Values'[c] = Old
    <3> SUFFICES ASSUME NEW c \in All(shape) PROVE Values'[c] = Old
      OBVIOUS
    <3> HIDE DEF Recs, Count
    <3>1. PICK o \in Interval(0, Count') : o = Owner(Recs', Count', c)
      BY Owners
    <3>2. Value(o, c)' = Old
      BY <1>4
    <3>3. Owner(Recs, Count, c)' = o /\ c \in All(shape)'
      BY <3>1
    <3>4. Values'[c] = Value(o, c)'
      BY <3>3 DEF Values
    <3> QED BY <3>2, <3>4
  <2> HIDE DEF Values
  <2>3. Holds(C', shape, Values')
    BY <2>1, <2>2, HoldsSame
  <2> QED BY <2>3
<1>6. Progress'
  <2>1. Divided(Recs, Count, shape)'
    <3> HIDE DEF Recs, Count
    <3> QED OBVIOUS
  <2> HIDE DEF Recs, Count, Crew
  <2> QED BY <1>2, <1>4, <1>5, <2>1 DEF Progress
<1>7. Right'
  BY <1>1, <1>2, <1>6 DEF Right, Calling, Serial
<1> QED BY <1>2, <1>7, Unseen

\* One slice on the calling thread.
LEMMA AloneRight ==
    ASSUME RightInv, Solo \/ NoMemory PROVE Right' /\ Promised
<1>1. /\ at[0] = "entry" /\ task' = [task EXCEPT ![0] = SoloTask(shape)]
      /\ at' = [at EXCEPT ![0] = "enter"]
      /\ UNCHANGED <<ceiling, shape, calls, C, poolN, slot, scratch>>
  BY DEF Solo, NoMemory, GoTo, call, pool
<1>2. /\ at'[0] = "enter" /\ task'[0] = SoloTask(shape)
      /\ shape \in Shapes /\ ~Empty(shape) /\ shape.K > 0
  BY <1>1, ThreadsLemma DEF RightInv, Inv, Types, TeamInv, Records, Right
<1>3. Recs' = task' /\ Count' = 1
  BY <1>2 DEF SoloTask, Recs, Count
<1>4. Divided(task', 1, shape)
  <2> DEFINE R == task'  T == R[0]
  <2>1. /\ T.s = shape /\ T.tid = 0 /\ T.nthr = 1 /\ T.ksplit = FALSE
        /\ T.m0 = 0 /\ T.m1 = shape.M /\ T.n0 = 0 /\ T.n1 = shape.N
    BY <1>2 DEF SoloTask
  <2>2. shape.M \in Int /\ shape.N \in Int
    BY <1>2, ShapesAssumption
  <2>3. Rect(T) = All(shape)
    BY <2>1 DEF Rect, All
  <2>4. Interval(0, 1) = {0} /\ 1 <= MAX_THREADS
    BY ThreadsAssumption DEF Interval
  <2> HIDE DEF T, R
  <2>5. \A t \in Interval(0, 1) : R[t] = T /\ t = 0
    BY <2>4 DEF T
  <2>6. R[0] = T /\ 0 \in Interval(0, 1) /\ 1 \in Nat \ {0}
    BY <2>4 DEF T
  <2>7. \A t \in Interval(0, 1) :
           /\ R[t].s = shape /\ R[t].tid = t
           /\ R[t].nthr = R[0].nthr /\ R[t].ksplit = R[0].ksplit
           /\ R[t].m0 \in Int /\ R[t].m1 \in Int /\ R[t].n0 \in Int /\ R[t].n1 \in Int
           /\ Rect(R[t]) \subseteq All(shape)
           /\ ~(t >= R[t].nthr)
    BY <2>1, <2>2, <2>3, <2>5, <2>6
  <2>8. /\ \A t, u \in Interval(0, 1) : t = u
        /\ \A c \in All(shape) : \E t \in Interval(0, 1) : c \in Rect(R[t])
        /\ R[0].nthr \in Nat \ {0} /\ R[0].nthr <= 1 /\ R[0].ksplit = FALSE
    BY <2>1, <2>3, <2>5, <2>6
  <2>9. Divided(R, 1, shape)
    BY <2>4, <2>6, <2>7, <2>8 DEF Divided
  <2> QED BY <2>9 DEF R
<1>5. \A u \in Interval(0, 1) : ~Completed(u)' /\ at'[u] \in Resting \cup {"enter"}
  BY <1>2 DEF Interval, Completed
<1> HIDE DEF Recs, Count, Completed
<1>6. Divided(Recs', Count', shape)
  BY <1>3, <1>4
<1>7. \A u \in Interval(0, Count') : ~Completed(u)' /\ at'[u] \in Resting \cup {"enter"}
  BY <1>3, <1>5
<1> QED BY <1>1, <1>2, <1>6, <1>7, StartRight

\* The records divide the product.
LEMMA DispatchRight ==
    ASSUME RightInv, Dispatch PROVE Right' /\ Promised
<1>1. PICK cold \in BOOLEAN :
         LET g == Grid(shape, ThreadsFor(shape, cold))
             n == IF poolN = 0 THEN ceiling ELSE poolN
         IN  /\ ThreadsFor(shape, cold) > 1
             /\ poolN' = n
             /\ slot' = [t \in Threads |-> IF t < n THEN TaskFor(shape, g, t) ELSE slot[t]]
  BY DEF Dispatch
<1>2. /\ at[0] = "entry" /\ at'[0] = "publish"
      /\ UNCHANGED <<ceiling, shape, calls, C>> /\ DOMAIN scratch' = DOMAIN scratch
  BY ThreadsLemma DEF Dispatch, call
<1>3. /\ Right /\ shape \in Shapes /\ ~Empty(shape) /\ shape.K > 0
      /\ ceiling \in 1 .. MAX_THREADS /\ poolN \in {0, ceiling}
  BY <1>2 DEF RightInv, Inv, Types, TeamInv, Records, Right
<1> DEFINE nt == ThreadsFor(shape, cold)
<1>4. poolN' = ceiling /\ ceiling \in Nat /\ ceiling <= MAX_THREADS /\ ceiling >= 1
  BY <1>1, <1>3, ThreadsAssumption
<1>5. nt \in Nat \ {0}
  BY <1>3, ThreadsForTypes
<1>6. nt <= ceiling
  <2> DEFINE q == Work(shape) \div WORK_PER_THREAD
  <2>1. q \in Int
    <3>1. shape.M \in Int /\ shape.N \in Int /\ shape.K \in Int /\ WORK_PER_THREAD \in Nat \ {0}
      BY <1>3, ShapesAssumption, TileAssumption
    <3>2. shape.M * shape.N \in Int
      BY <3>1
    <3>3. Work(shape) \in Int
      BY <3>1, <3>2 DEF Work
    <3> QED BY <3>1, <3>3
  <2>2. nt = 1 \/ nt = AtLeast1(imin(q, ceiling))
    BY DEF ThreadsFor
  <2> HIDE DEF q, nt
  <2> QED BY <1>4, <2>1, <2>2 DEF AtLeast1, imin, imax
<1>7. Divided(slot', ceiling, shape)
  <2> DEFINE R == slot'
  <2>1. \A t \in Interval(0, ceiling) : R[t] = TaskFor(shape, Grid(shape, nt), t)
    <3> SUFFICES ASSUME NEW t \in Interval(0, ceiling)
                 PROVE  slot'[t] = TaskFor(shape, Grid(shape, nt), t)
      OBVIOUS
    <3>1. t < ceiling /\ t \in Threads
      BY <1>4, IntervalLemma, ThreadsAssumption DEF Threads
    <3> QED BY <1>1, <1>3, <3>1
  <2>2. shape.M > 0 /\ shape.N > 0
    BY <1>3, ShapesAssumption DEF Empty
  <2> HIDE DEF R, nt
  <2>3. Divided(R, ceiling, shape)
    BY <1>3, <1>4, <1>5, <1>6, <2>1, <2>2, Tiling
  <2> QED BY <2>3 DEF R
<1>8. Divided(slot, poolN, shape)'
  BY <1>2, <1>4, <1>7
<1>9. Right'
  BY <1>2, <1>3, <1>4, <1>8 DEF Right, Calling, Serial, Busy
<1> QED BY <1>2, <1>9, Unseen DEF Busy

\* Nobody has run the new records.
LEMMA PublishRight ==
    ASSUME RightInv, Publish PROVE Right' /\ Promised
<1>1. /\ at[0] = "publish" /\ gen' = gen + 1 /\ task' = [task EXCEPT ![0] = slot[0]]
      /\ at' = [t \in Threads |-> IF t = 0 THEN "enter"
                                  ELSE IF at[t] = "asleep" THEN "woken" ELSE at[t]]
      /\ UNCHANGED <<ceiling, shape, calls, C, poolN, slot, scratch, done>>
  BY DEF Publish, call, pool
<1>2. /\ at'[0] = "enter" /\ task'[0] = slot[0] /\ ~slot[0].solo
      /\ Divided(slot, poolN, shape) /\ Inv
  BY <1>1, ThreadsLemma DEF RightInv, Inv, CallerState, Right
<1>3. Recs' = slot /\ Count' = poolN
  BY <1>1, <1>2 DEF Recs, Count
<1>4. ASSUME NEW u \in Interval(0, poolN)
      PROVE  ~Completed(u)' /\ at'[u] \in Resting \cup {"enter"}
  <2>1. CASE u = 0
    BY <1>2, <2>1 DEF Completed
  <2>2. CASE u # 0
    <3>1. u \in Workers
      BY <1>2, <2>2, ThreadsAssumption DEF Divided, Interval, Workers, Threads
    <3>2. AllDone
      BY <1>1, <1>2 DEF Inv, CallerState, Serial
    <3>3. at[u] \in Resting /\ done[u] <= gen /\ done[u] \in Nat /\ gen \in Nat
      BY <1>2, <3>1, <3>2, RestingWorkers, ThreadsLemma DEF Inv, Types, WorkerState
    <3>4. at'[u] \in Resting
      BY <1>1, <2>2, <3>1, <3>3, ThreadsLemma DEF Resting
    <3>5. done'[u] # gen'
      BY <1>1, <3>3
    <3> QED BY <2>2, <3>4, <3>5 DEF Completed
  <2> QED BY <2>1, <2>2
<1> HIDE DEF Recs, Count, Completed
<1>5. Divided(Recs', Count', shape)
  BY <1>2, <1>3
<1>6. \A u \in Interval(0, Count') : ~Completed(u)' /\ at'[u] \in Resting \cup {"enter"}
  BY <1>3, <1>4
<1> QED BY <1>1, <1>2, <1>5, <1>6, StartRight

\* All slices have been run, and the call returns.
LEMMA JoinRight ==
    ASSUME RightInv, Join PROVE Right' /\ Promised
<1>1. /\ at[0] = "join" /\ at' = [at EXCEPT ![0] = "idle"]
      /\ \A w \in Interval(1, poolN) : done[w] = gen
      /\ UNCHANGED <<ceiling, shape, calls, C, poolN, slot, scratch>>
  BY DEF Join, GoTo, call, pool
<1>2. /\ at'[0] = "idle" /\ ~task[0].solo /\ Right /\ Calling /\ Busy
  BY <1>1, ThreadsLemma
     DEF RightInv, Inv, Types, TeamInv, Records, Calling, Serial, Busy
<1>3. Progress /\ Recs = slot /\ Count = poolN /\ ~Empty(shape)
  BY <1>1, <1>2 DEF Right, Recs, Count
<1>4. poolN \in Nat /\ Crew = Interval(0, poolN)
  BY <1>3, ThreadsAssumption DEF RightInv, Inv, Types, Crew
<1>5. \A u \in Crew : Completed(u)
  <2> SUFFICES ASSUME NEW u \in Interval(0, poolN) PROVE Completed(u)
    BY <1>4
  <2>1. u = 0 \/ u \in Interval(1, poolN)
    BY <1>4 DEF Interval
  <2> QED BY <1>1, <2>1 DEF Completed
<1> DEFINE none == {}
           g == [c \in none |-> Old]
<1>6. 0 \in Crew
  <2>1. poolN >= 1
    <3>1. Divided(Recs, Count, shape)
      BY <1>3 DEF Progress
    <3> QED BY <1>3, <1>4, <3>1 DEF Divided
  <2> QED BY <1>4, <2>1 DEF Interval
<1>7. Stores(0, none, g)
  BY <1>1, <1>3, StoresNothing
<1>8. shape \in Shapes /\ \A c : c \notin none
  BY DEF RightInv, TeamInv, Records
<1> HIDE DEF none, g
<1>9. Holds(C', shape, [c \in All(shape) |-> IF c \in none THEN g[c] ELSE Values[c]])
  BY <1>3, <1>6, <1>7, <1>8, Filling
<1>10. \A u \in Crew : \A c \in Rect(Recs[u]) : At(c, shape.ldc) \in Addr =>
          (IF c \in none THEN g[c] ELSE Value(u, c)) = Interval(0, shape.K)
  BY <1>5, <1>8 DEF Value
<1>11. C' = Product(shape)
  <2> HIDE DEF Recs, Count, Crew
  <2> QED BY <1>3, <1>9, <1>10, Completing
<1>12. Right'
  BY <1>1, <1>2 DEF Right, Calling, Serial, Busy
<1>13. ~Busy'
  BY <1>2 DEF Busy
<1> QED BY <1>1, <1>2, <1>11, <1>12, <1>13, Returned

LEMMA NextRight == RightInv /\ [Next]_vars => RightInv' /\ Promised
<1> SUFFICES ASSUME RightInv, [Next]_vars PROVE Right' /\ Promised
  BY NextInv, NextTeam DEF RightInv
<1>1. ASSUME NEW s \in Shapes, Call(s) PROVE Right' /\ Promised
  BY <1>1, SerialRight
<1>2. CASE Caller
  BY <1>2, SerialRight, AloneRight, DispatchRight, PublishRight, JoinRight DEF Caller
<1>3. ASSUME NEW w \in Workers, Worker(w) \/ Sleep(w) \/ SpuriousWakeup(w)
      PROVE  Right' /\ Promised
  BY <1>3, WaitRight DEF Worker
<1>4. ASSUME NEW t \in Threads, Run(t) PROVE Right' /\ Promised
  BY <1>4, EnterRight, SmallRight, SumRight, ReduceRight, PackRight, MicroRight, AdvanceRight,
     MeetRight DEF Run
<1>5. CASE UNCHANGED vars
  BY <1>5, WaitRight
<1> QED BY <1>1, <1>2, <1>3, <1>4, <1>5 DEF Next

\* Whatever path, partition and interleaving a call takes, it returns with every
\* element of the product the sum of all its terms, each once, and the rest of the
\* caller's buffer untouched (the entry, __y_gemm_run and the kernels it calls in
\* src/cpu_gemm.rs).
THEOREM PoolProducts == Spec => KeepsContract
<1>1. Init => Contract!Init
  BY ThreadsLemma DEF Init, Contract!Init, Busy
<1>2. RightInv /\ [Next]_vars => RightInv' /\ [Contract!Next]_Contract!vars
  BY NextRight DEF Promised
<1> QED BY <1>1, <1>2, InitRight, PTL DEF Spec, KeepsContract
=============================================================================
