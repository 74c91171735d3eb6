------------------------ MODULE SharedProfileProofs -------------------------
(***************************************************************************)
(* The theorems about SharedProfile: what is under the name of the profile *)
(* is whole, a deletion that meets nothing under way is final, every       *)
(* choice respects its process's mode, and a measurement is fair and sound. *)
(***************************************************************************)
EXTENDS SharedProfile, FiniteSetTheorems, FunctionTheorems, SequenceTheorems, TLAPS

Proper(f) == f.content = "whole" /\ f.probed
Current(f) == f.gen = config.gen /\ \A l \in f.lines : l.gen = config.gen
Fits(f) == \A l \in f.lines : <<l.tile, l.shape>> \in Emittable

\* What t is about to publish, its temporary and its place in a call.
At(t, pcs) == thread[t].pc \in pcs
Owns(t) == At(t, {"write", "rename"})

\* Temporaries: names are below NEXT and no two threads have the same one.
TempsOwned ==
    /\ \A t \in Threads : Owns(t) =>
          /\ thread[t].temp \in TempNames
          /\ thread[t].temp[1] = ProcessOf(t)
          /\ thread[t].temp[2] < serial[ProcessOf(t)]
    /\ \A t, u \in Threads : Owns(t) /\ Owns(u) /\ t # u =>
          thread[t].temp # thread[u].temp

\* A call that is under way has a shape.
ShapesNamed ==
    \A t \in Threads :
        \/ At(t, {"load", "measure", "timing", "store", "borrow"})
        \/ At(t, {"create", "write", "rename"}) /\ thread[t].publishes # "probe"
        => thread[t].shape \in Shapes

\* A text on its way into the profile is whole: in memory, then on the disk.
TextsWhole ==
    /\ profile # NoFile => Proper(profile)
    /\ \A t \in Threads :
          /\ At(t, {"create", "write", "rename"}) => Proper(thread[t].buffer)
          /\ At(t, {"rename"}) => temps[thread[t].temp] = thread[t].buffer

\* After a quiet deletion nothing under way is older than it.
TextsCurrent ==
    quiet =>
        /\ profile # NoFile => Current(profile)
        /\ \A t \in Threads :
              /\ At(t, {"timing"}) => thread[t].since = config.gen
              /\ At(t, {"store"}) => thread[t].line.gen = config.gen
              /\ At(t, {"create", "write", "rename"}) => Current(thread[t].buffer)

\* A thread is at a phase only if its mode sends it there, and what it brings to
\* the profile holds tiles that can be emitted at their shapes.
Permitted(r, mode) ==
    /\ r.pc = "load" => MayUseCache(mode)
    /\ r.pc \in {"measure", "timing", "store"} => MayMeasure(mode)
    /\ r.pc = "store" => <<r.line.tile, r.line.shape>> \in Emittable
    /\ r.pc \in {"create", "write", "rename"} =>
          /\ Fits(r.buffer)
          /\ r.publishes # "probe" => r.publishes = "tuning" /\ MayMeasure(mode)
PhasesAllowed ==
    /\ Fits(profile)
    /\ \A t \in Threads : Permitted(thread[t], ModeOf(t))

WholeInv == TypeOK /\ TempsOwned /\ ShapesNamed /\ TextsWhole

----------------------------------------------------------------------------
(* Types *)

ThreadTypes ==
    [pc: Pcs, hw: Cards \cup {NoCard}, calls: Nat,
     shape: Shapes \cup {None}, precision: Precisions \cup {None},
     line: Lines, since: 0..MaxGen, buffer: Files,
     temp: TempNames \cup {<<0, 0>>}, publishes: {"nothing", "probe", "tuning"}]

LEMMA Constructors ==
    /\ NoFile \in Files /\ Torn \in Files /\ NoLine \in Lines
    /\ \A hw \in Cards \cup {NoCard}, n \in Nat :
          /\ Fresh(hw, n) \in ThreadTypes
          /\ [Fresh(hw, n) EXCEPT !.pc = "dead"] \in ThreadTypes
          /\ [Fresh(hw, n) EXCEPT !.pc = "check"] \in ThreadTypes
<1>1. 0 \in 0..MaxGen
  BY BoundAssumption
<1>2. NoFile \in Files /\ Torn \in Files /\ NoLine \in Lines
  BY <1>1 DEF NoFile, Torn, Files, NoLine, Lines
<1>3. ASSUME NEW hw \in Cards \cup {NoCard}, NEW n \in Nat
      PROVE  Fresh(hw, n) \in ThreadTypes
  BY <1>1, <1>2, <1>3 DEF Fresh, ThreadTypes, Pcs
<1> QED
  BY <1>2, <1>3 DEF ThreadTypes, Pcs

LEMMA ProcessTypes ==
    ASSUME setting \in Settings, NEW t \in Threads
    PROVE  ProcessOf(t) \in Processes
BY DEF ProcessOf, Processes

\* What a call may put into the in-process cache.
LEMMA ChoiceTypes ==
    ASSUME TypeOK, NEW t \in Threads, NEW line \in Lines,
           NEW from \in {"disk", "near", "measured", "analytic"},
           Remember(t, Choice(t, from, line))
    PROVE  cache' \in [Processes -> [Shapes ->
                   [from: {"none", "disk", "near", "measured", "analytic"},
                    line: Lines, precision: Precisions \cup {None},
                    card: Cards \cup {NoCard}]]]
<1> DEFINE C == [from: {"none", "disk", "near", "measured", "analytic"},
                 line: Lines, precision: Precisions \cup {None},
                 card: Cards \cup {NoCard}]
<1>1. Choice(t, from, line) \in C
  BY DEF Choice, TypeOK
<1>2. ProcessOf(t) \in Processes
  BY ProcessTypes DEF TypeOK
<1>3. cache \in [Processes -> [Shapes -> C]]
  BY DEF TypeOK
<1> HIDE DEF C
<1>4. cache' \in [Processes -> [Shapes -> C]]
  BY <1>1, <1>2, <1>3 DEF Remember
<1> QED
  BY <1>4 DEF C

LEMMA ReturnTypes ==
    ASSUME TypeOK, NEW t \in Threads, Return(t)
    PROVE  thread' \in [Threads -> ThreadTypes]
<1>1. thread \in [Threads -> ThreadTypes]
  BY DEF TypeOK, ThreadTypes
<1>2. Fresh(thread[t].hw, thread[t].calls) \in ThreadTypes
  BY <1>1, Constructors DEF ThreadTypes
<1> QED
  BY <1>1, <1>2 DEF Return, Become

LEMMA KillTypes ==
    ASSUME TypeOK, NEW p, Kill(p)
    PROVE  thread' \in [Threads -> ThreadTypes]
<1>1. thread \in [Threads -> ThreadTypes]
  BY DEF TypeOK, ThreadTypes
<1>2. [Fresh(NoCard, 0) EXCEPT !.pc = "dead"] \in ThreadTypes
  BY Constructors
<1> QED
  BY <1>1, <1>2 DEF Kill

LEMMA WithLineTypes ==
    ASSUME NEW f \in Files, NEW line \in Lines
    PROVE  WithLine(f, line) \in Files
BY DEF WithLine, Files

LEMMA TypeInit == Init => TypeOK
<1> SUFFICES ASSUME Init PROVE TypeOK
  OBVIOUS
<1>1. [Fresh(NoCard, 0) EXCEPT !.pc = "check"] \in ThreadTypes
  BY Constructors
<1>2. thread \in [Threads -> ThreadTypes]
  BY <1>1 DEF Init
<1>3. NoChoice \in [from: {"none", "disk", "near", "measured", "analytic"},
                    line: Lines, precision: Precisions \cup {None},
                    card: Cards \cup {NoCard}]
  BY Constructors DEF NoChoice
<1>4. config \in [card: Cards, gen: 0..MaxGen] /\ 0 \in 0..MaxSerial
  BY BoundAssumption DEF Init
<1> QED
  BY <1>2, <1>3, <1>4, Constructors DEF Init, TypeOK, ThreadTypes

\* A step of one thread: what becomes of it, and of the others.
LEMMA Becoming ==
    ASSUME thread \in [Threads -> ThreadTypes], NEW t \in Threads,
           NEW r \in ThreadTypes, Become(t, r)
    PROVE  /\ thread' \in [Threads -> ThreadTypes]
           /\ thread'[t] = r
           /\ \A u \in Threads \ {t} : thread'[u] = thread[u]
BY DEF Become

LEMMA BecomeTypes ==
    ASSUME thread \in [Threads -> ThreadTypes], NEW t \in Threads,
           NEW r \in ThreadTypes, Become(t, r)
    PROVE  thread' \in [Threads -> ThreadTypes]
BY Becoming

\* The records a thread can become.
LEMMA RecordTypes ==
    ASSUME NEW r \in ThreadTypes, NEW pc \in Pcs
    PROVE  /\ [r EXCEPT !.pc = pc] \in ThreadTypes
           /\ \A hw \in Cards \cup {NoCard} :
                 /\ [r EXCEPT !.pc = pc, !.hw = hw] \in ThreadTypes
                 /\ \A f \in Files :
                       [r EXCEPT !.pc = "create", !.hw = hw, !.publishes = "probe",
                                 !.buffer = f] \in ThreadTypes
           /\ \A n \in Nat : [r EXCEPT !.pc = pc, !.calls = n] \in ThreadTypes
           /\ \A n \in TempNames : [r EXCEPT !.pc = pc, !.temp = n] \in ThreadTypes
           /\ \A n \in Nat, s \in Shapes, precision \in Precisions :
                 [r EXCEPT !.calls = n, !.shape = s, !.precision = precision,
                           !.pc = pc] \in ThreadTypes
           /\ \A g \in 0..MaxGen : [r EXCEPT !.pc = pc, !.since = g] \in ThreadTypes
           /\ \A l \in Lines : [r EXCEPT !.pc = pc, !.line = l] \in ThreadTypes
           /\ \A f \in Files :
                 [r EXCEPT !.pc = pc, !.publishes = "tuning", !.buffer = f]
                    \in ThreadTypes
<1> USE DEF ThreadTypes
<1>1. [r EXCEPT !.pc = pc] \in ThreadTypes
  OBVIOUS
<1>2. \A hw \in Cards \cup {NoCard} : [r EXCEPT !.pc = pc, !.hw = hw] \in ThreadTypes
  OBVIOUS
<1>3. \A hw \in Cards \cup {NoCard}, f \in Files :
         [r EXCEPT !.pc = "create", !.hw = hw, !.publishes = "probe", !.buffer = f]
            \in ThreadTypes
  BY DEF Pcs
<1>4. \A n \in Nat : [r EXCEPT !.pc = pc, !.calls = n] \in ThreadTypes
  OBVIOUS
<1>5. \A n \in TempNames : [r EXCEPT !.pc = pc, !.temp = n] \in ThreadTypes
  OBVIOUS
<1>6. \A n \in Nat, s \in Shapes, precision \in Precisions :
         [r EXCEPT !.calls = n, !.shape = s, !.precision = precision,
                   !.pc = pc] \in ThreadTypes
  OBVIOUS
<1>7. \A g \in 0..MaxGen : [r EXCEPT !.pc = pc, !.since = g] \in ThreadTypes
  OBVIOUS
<1>8. \A l \in Lines : [r EXCEPT !.pc = pc, !.line = l] \in ThreadTypes
  OBVIOUS
<1>9. \A f \in Files :
         [r EXCEPT !.pc = pc, !.publishes = "tuning", !.buffer = f] \in ThreadTypes
  OBVIOUS
<1> HIDE DEF ThreadTypes
<1> QED
  BY <1>1, <1>2, <1>3, <1>4, <1>5, <1>6, <1>7, <1>8, <1>9

\* A step within the phases moves a thread only.
LEMMA GotoTypes ==
    ASSUME thread \in [Threads -> ThreadTypes], NEW t \in Threads,
           NEW pc \in Pcs, Goto(t, pc)
    PROVE  thread' \in [Threads -> ThreadTypes]
<1>1. [thread[t] EXCEPT !.pc = pc] \in ThreadTypes
  BY RecordTypes
<1> QED
  BY <1>1, Becoming DEF Goto

LEMMA TypeStep ==
    ASSUME TypeOK, TempsOwned, ShapesNamed, [Next]_vars
    PROVE  TypeOK'
<1> DEFINE C == [Processes -> [Shapes ->
                   [from: {"none", "disk", "near", "measured", "analytic"},
                    line: Lines, precision: Precisions \cup {None},
                    card: Cards \cup {NoCard}]]]
<1>th. thread \in [Threads -> ThreadTypes]
  BY DEF TypeOK, ThreadTypes
<1>goal. ASSUME /\ setting' \in Settings
                /\ config' \in [card: Cards, gen: 0..MaxGen]
                /\ quiet' \in BOOLEAN
                /\ profile' \in Files
                /\ temps' \in [TempNames -> Files]
                /\ serial' \in [Processes -> 0..MaxSerial],
                cache' \in C,
                thread' \in [Threads -> ThreadTypes]
         PROVE  TypeOK'
  BY <1>goal DEF TypeOK, ThreadTypes
<1> HIDE DEF C
<1>now. /\ setting \in Settings
        /\ config \in [card: Cards, gen: 0..MaxGen]
        /\ quiet \in BOOLEAN
        /\ profile \in Files
        /\ temps \in [TempNames -> Files]
        /\ serial \in [Processes -> 0..MaxSerial]
        /\ cache \in C
  BY DEF TypeOK, C
<1>p. \A t \in Threads : ProcessOf(t) \in Processes
  BY <1>now, ProcessTypes
<1>c. NoFile \in Files /\ Torn \in Files /\ NoLine \in Lines
  BY Constructors
<1>pcs. Pcs = {"ready", "check", "read", "probe", "create", "write", "rename",
               "hit", "load", "measure", "timing", "store", "borrow", "dead"}
  BY DEF Pcs
<1>tt. ASSUME NEW t \in Threads
       PROVE  /\ thread[t] \in ThreadTypes
              /\ thread[t].calls + 1 \in Nat
              /\ thread[t].line \in Lines /\ thread[t].buffer \in Files
              /\ thread[t].shape \in Shapes \cup {None}
              /\ thread[t].precision \in Precisions \cup {None}
              /\ thread[t].hw \in Cards \cup {NoCard}
              /\ thread[t].since \in 0..MaxGen
              /\ thread[t].temp \in TempNames \cup {<<0, 0>>}
  <2>1. thread[t] \in ThreadTypes
    BY <1>th
  <2> QED
    BY <2>1 DEF ThreadTypes
<1>use. ASSUME NEW t \in Threads, UseMeasured(t)
        PROVE  cache' \in C /\ thread' \in [Threads -> ThreadTypes]
  BY <1>use, <1>tt, ChoiceTypes, ReturnTypes DEF UseMeasured, C
<1>1. ASSUME NEW t \in Threads, Check(t) PROVE TypeOK'
  <2>1. thread' \in [Threads -> ThreadTypes]
    BY <1>1, <1>th, <1>pcs, GotoTypes DEF Check
  <2> QED
    BY <1>1, <2>1, <1>now, <1>goal DEF Check, fileVars
<1>2. ASSUME NEW t \in Threads, Read(t) PROVE TypeOK'
  <2>1. profile.card \in Cards \cup {NoCard}
    BY <1>now DEF Files
  <2>2. PICK hw \in Cards \cup {NoCard} :
           Become(t, [thread[t] EXCEPT !.pc = "ready", !.hw = hw])
    BY <1>2, <2>1 DEF Read
  <2>3. thread' \in [Threads -> ThreadTypes]
    <3>1. [thread[t] EXCEPT !.pc = "ready", !.hw = hw] \in ThreadTypes
      BY <1>tt, <1>pcs, RecordTypes
    <3> QED
      BY <2>2, <3>1, <1>th, BecomeTypes
  <2> QED
    BY <1>2, <2>3, <1>now, <1>goal DEF Read, fileVars
<1>3. ASSUME NEW t \in Threads, Probe(t) PROVE TypeOK'
  <2> DEFINE F(card) == [content |-> "whole", probed |-> TRUE, card |-> card,
                         gen |-> config.gen, lines |-> {}]
  <2>1. PICK card \in Cards \cup {NoCard} :
           Become(t, [thread[t] EXCEPT !.pc = "create", !.hw = card,
                                       !.publishes = "probe", !.buffer = F(card)])
    BY <1>3, <1>now DEF Probe
  <2>2. F(card) \in Files
    BY <1>now DEF Files
  <2> HIDE DEF F
  <2>3. thread' \in [Threads -> ThreadTypes]
    <3>1. [thread[t] EXCEPT !.pc = "create", !.hw = card,
                            !.publishes = "probe", !.buffer = F(card)] \in ThreadTypes
      BY <2>2, <1>tt, <1>pcs, RecordTypes
    <3> QED
      BY <2>1, <3>1, <1>th, BecomeTypes
  <2> QED
    BY <1>3, <2>3, <1>now, <1>goal DEF Probe, fileVars
<1>4. ASSUME NEW t \in Threads, CompileAgain(t) PROVE TypeOK'
  <2>1. thread' \in [Threads -> ThreadTypes]
    <3>1. Become(t, [thread[t] EXCEPT !.pc = "check", !.calls = thread[t].calls + 1])
      BY <1>4 DEF CompileAgain
    <3>2. [thread[t] EXCEPT !.pc = "check", !.calls = thread[t].calls + 1] \in ThreadTypes
      BY <1>tt, <1>pcs, RecordTypes
    <3> QED
      BY <3>1, <3>2, <1>th, BecomeTypes
  <2> QED
    BY <1>4, <2>1, <1>now, <1>goal DEF CompileAgain, fileVars
<1>5. ASSUME NEW t \in Threads, CreateTemp(t) PROVE TypeOK'
  <2>1. serial[ProcessOf(t)] \in 0..MaxSerial /\ serial[ProcessOf(t)] + 1 \in 0..MaxSerial
    BY <1>5, <1>now, <1>p, BoundAssumption DEF CreateTemp
  <2>2. TempName(t) \in TempNames
    BY <2>1, <1>p DEF TempName, TempNames
  <2>3. thread' \in [Threads -> ThreadTypes]
    <3>1. Become(t, [thread[t] EXCEPT !.pc = "write", !.temp = TempName(t)])
      BY <1>5 DEF CreateTemp
    <3>2. [thread[t] EXCEPT !.pc = "write", !.temp = TempName(t)] \in ThreadTypes
      BY <2>2, <1>tt, <1>pcs, RecordTypes
    <3> QED
      BY <3>1, <3>2, <1>th, BecomeTypes
  <2>4. temps' \in [TempNames -> Files] /\ serial' \in [Processes -> 0..MaxSerial]
    BY <1>5, <2>1, <2>2, <1>now, <1>p, <1>c DEF CreateTemp
  <2> QED
    BY <1>5, <2>3, <2>4, <1>now, <1>goal DEF CreateTemp
<1>6. ASSUME NEW t \in Threads, WriteTemp(t) PROVE TypeOK'
  <2>1. temps' \in [TempNames -> Files]
    BY <1>6, <1>tt, <1>now DEF WriteTemp
  <2>2. thread' \in [Threads -> ThreadTypes]
    BY <1>6, <1>th, <1>pcs, GotoTypes DEF WriteTemp
  <2> QED
    BY <1>6, <2>1, <2>2, <1>now, <1>goal DEF WriteTemp
<1>7. ASSUME NEW t \in Threads, Rename(t) PROVE TypeOK'
  <2>1. temps' \in [TempNames -> Files]
    BY <1>7, <1>now, <1>c DEF Rename
  <2>2. thread[t].temp \in TempNames
    BY <1>7 DEF Rename, TempsOwned, Owns, At
  <2>3. profile' \in Files
    BY <1>7, <2>2, <1>now DEF Rename
  <2>4. cache' \in C /\ thread' \in [Threads -> ThreadTypes]
    BY <1>7, <1>use, <1>now, ReturnTypes DEF Rename
  <2> QED
    BY <1>7, <2>1, <2>3, <2>4, <1>now, <1>goal DEF Rename
<1>8. ASSUME NEW t \in Threads, PublishError(t) PROVE TypeOK'
  <2>1. temps' \in [TempNames -> Files]
    BY <1>8, <1>now, <1>c DEF PublishError
  <2>2. cache' \in C /\ thread' \in [Threads -> ThreadTypes]
    BY <1>8, <1>use, <1>now, KillTypes DEF PublishError
  <2> QED
    BY <1>8, <2>1, <2>2, <1>now, <1>goal DEF PublishError
<1>9. ASSUME NEW t \in Threads, NEW s \in Shapes, NEW precision \in setting.precisions,
             Autotune(t, s, precision)
      PROVE  TypeOK'
  <2>1. precision \in Precisions
    BY <1>now, SettingsAssumption
  <2> DEFINE next == IF MayUseCache(ModeOf(t)) THEN "load"
                     ELSE IF MayMeasure(ModeOf(t)) THEN "measure" ELSE "borrow"
             pc == IF cache[ProcessOf(t)][s].from = "none" THEN next ELSE "hit"
  <2>2. pc \in Pcs
    BY <1>pcs
  <2>3. Become(t, [thread[t] EXCEPT !.calls = @ + 1, !.shape = s,
                                    !.precision = precision, !.pc = pc])
    BY <1>9 DEF Autotune
  <2> HIDE DEF next, pc
  <2>4. thread' \in [Threads -> ThreadTypes]
    <3>1. [thread[t] EXCEPT !.calls = thread[t].calls + 1, !.shape = s,
                            !.precision = precision, !.pc = pc] \in ThreadTypes
      BY <2>1, <2>2, <1>tt, RecordTypes
    <3> QED
      BY <2>3, <3>1, <1>th, BecomeTypes
  <2> QED
    BY <1>9, <2>4, <1>now, <1>goal DEF Autotune, fileVars
<1>10. ASSUME NEW t \in Threads, AnswerFromCache(t) PROVE TypeOK'
  BY <1>10, <1>now, <1>goal, ReturnTypes DEF AnswerFromCache, Hit, fileVars
<1>11. ASSUME NEW t \in Threads, LoadPersisted(t) PROVE TypeOK'
  <2>1. Persisted(t) \subseteq Lines
    BY <1>now DEF Persisted, Files
  <2>2. cache' \in C
    BY <1>11, <2>1, <1>now, ChoiceTypes DEF LoadPersisted, C
  <2>3. thread' \in [Threads -> ThreadTypes]
    BY <1>11, <1>th, <1>pcs, GotoTypes, ReturnTypes DEF LoadPersisted
  <2> QED
    BY <1>11, <2>2, <2>3, <1>now, <1>goal DEF LoadPersisted, fileVars
<1>12. ASSUME NEW t \in Threads, StartTiming(t) PROVE TypeOK'
  <2>1. config.gen \in 0..MaxGen
    BY <1>now
  <2>2. thread' \in [Threads -> ThreadTypes]
    <3>1. Become(t, [thread[t] EXCEPT !.pc = "timing", !.since = config.gen])
      BY <1>12 DEF StartTiming
    <3>2. [thread[t] EXCEPT !.pc = "timing", !.since = config.gen] \in ThreadTypes
      BY <2>1, <1>tt, <1>pcs, RecordTypes
    <3> QED
      BY <3>1, <3>2, <1>th, BecomeTypes
  <2> QED
    BY <1>12, <2>2, <1>now, <1>goal DEF StartTiming, fileVars
<1>13. ASSUME TimeBatch PROVE TypeOK'
  BY <1>13, <1>th, <1>now, <1>goal DEF TimeBatch, fileVars
<1>14. ASSUME NEW t \in Threads, Measured(t) PROVE TypeOK'
  <2>1. PICK tile \in TilesAt[thread[t].shape] :
           Become(t, [thread[t] EXCEPT !.pc = "store",
                        !.line = [Wanted(t) EXCEPT !.tile = tile,
                                                   !.gen = thread[t].since]])
    BY <1>14 DEF Measured
  <2>2. tile \in Tiles
    <3>1. thread[t].shape \in Shapes
      BY <1>14 DEF Measured, ShapesNamed, At
    <3> QED
      BY <3>1, TilesAssumption
  <2>3. [Wanted(t) EXCEPT !.tile = tile, !.gen = thread[t].since] \in Lines
    BY <2>2, <1>tt DEF Wanted, Lines
  <2>4. thread' \in [Threads -> ThreadTypes]
    <3> DEFINE line == [Wanted(t) EXCEPT !.tile = tile, !.gen = thread[t].since]
    <3>1. Become(t, [thread[t] EXCEPT !.pc = "store", !.line = line])
      BY <2>1
    <3>2. line \in Lines
      BY <2>3
    <3> HIDE DEF line
    <3>3. [thread[t] EXCEPT !.pc = "store", !.line = line] \in ThreadTypes
      BY <3>2, <1>tt, <1>pcs, RecordTypes
    <3> QED
      BY <3>1, <3>3, <1>th, BecomeTypes
  <2> QED
    BY <1>14, <2>4, <1>now, <1>goal DEF Measured, fileVars
<1>15. ASSUME NEW t \in Threads, NotMeasured(t) PROVE TypeOK'
  <2>1. thread' \in [Threads -> ThreadTypes]
    BY <1>15, <1>th, <1>pcs, GotoTypes DEF NotMeasured
  <2> QED
    BY <1>15, <2>1, <1>now, <1>goal DEF NotMeasured, fileVars
<1>16. ASSUME NEW t \in Threads, Store(t) PROVE TypeOK'
  <2>1. WithLine(profile, thread[t].line) \in Files
    BY <1>now, <1>tt, WithLineTypes
  <2>2. cache' \in C /\ thread' \in [Threads -> ThreadTypes]
    <3>1. CASE UseMeasured(t)
      BY <3>1, <1>use
    <3>2. CASE /\ Become(t, [thread[t] EXCEPT
                                !.pc = "create", !.publishes = "tuning",
                                !.buffer = WithLine(profile, thread[t].line)])
               /\ UNCHANGED cache
      <4> DEFINE text == WithLine(profile, thread[t].line)
      <4>1. Become(t, [thread[t] EXCEPT !.pc = "create", !.publishes = "tuning",
                                        !.buffer = text])
        BY <3>2
      <4>2. text \in Files
        BY <2>1
      <4> HIDE DEF text
      <4>3. [thread[t] EXCEPT !.pc = "create", !.publishes = "tuning",
                              !.buffer = text] \in ThreadTypes
        BY <4>2, <1>tt, <1>pcs, RecordTypes
      <4> QED
        BY <3>2, <4>1, <4>3, <1>th, <1>now, BecomeTypes
    <3> QED
      BY <1>16, <3>1, <3>2 DEF Store
  <2> QED
    BY <1>16, <2>2, <1>now, <1>goal DEF Store, fileVars
<1>17. ASSUME NEW t \in Threads, Borrow(t) PROVE TypeOK'
  <2>1. Nearest(t) \subseteq Lines
    BY <1>now DEF Nearest, Borrowable, Files
  <2>2. cache' \in C
    BY <1>17, <2>1, <1>c, <1>now, ChoiceTypes DEF Borrow, C
  <2> QED
    BY <1>17, <2>2, <1>now, <1>goal, ReturnTypes DEF Borrow, fileVars
<1>18. ASSUME Reconfigure PROVE TypeOK'
  <2>1. config' \in [card: Cards, gen: 0..MaxGen]
    <3>1. PICK c \in Cards : config' = [card |-> c, gen |-> config.gen + 1]
      BY <1>18 DEF Reconfigure
    <3>2. config.gen + 1 \in 0..MaxGen
      BY <1>18, <1>now, BoundAssumption DEF Reconfigure
    <3> QED
      BY <3>1, <3>2
  <2>2. quiet' \in BOOLEAN
    BY <1>18 DEF Reconfigure
  <2> QED
    BY <1>18, <2>1, <2>2, <1>th, <1>c, <1>now, <1>goal DEF Reconfigure
<1>19. ASSUME NEW p \in Processes, Crash(p) PROVE TypeOK'
  BY <1>19, <1>now, <1>goal, KillTypes DEF Crash, fileVars
<1>20. ASSUME UNCHANGED vars PROVE TypeOK'
  BY <1>20, <1>th, <1>now, <1>goal DEF vars, fileVars
<1> QED
  BY <1>1, <1>2, <1>3, <1>4, <1>5, <1>6, <1>7, <1>8, <1>9, <1>10, <1>11, <1>12,
     <1>13, <1>14, <1>15, <1>16, <1>17, <1>18, <1>19, <1>20 DEF Next, Step

----------------------------------------------------------------------------
(* The profile is whole *)

Publishers == {"create", "write", "rename"}
Named == {"load", "measure", "timing", "store", "borrow"}

\* A step of t that does not take it towards a publication.
Aside(t) ==
    /\ thread'[t].pc \notin Publishing
    /\ thread'[t].pc \in Named => thread'[t].shape \in Shapes
    /\ \A u \in Threads \ {t} : thread'[u] = thread[u]

LEMMA TypedThread == ASSUME TypeOK PROVE thread \in [Threads -> ThreadTypes]
BY DEF TypeOK, ThreadTypes

\* What the two common moves of a thread leave behind.
LEMMA GotoEffect ==
    ASSUME TypeOK, NEW t \in Threads, NEW pc \in Pcs, Goto(t, pc)
    PROVE  /\ thread'[t] = [thread[t] EXCEPT !.pc = pc]
           /\ thread'[t].pc = pc
           /\ thread'[t].shape = thread[t].shape
           /\ thread'[t].buffer = thread[t].buffer
           /\ thread'[t].temp = thread[t].temp
           /\ thread'[t].line = thread[t].line
           /\ thread'[t].publishes = thread[t].publishes
           /\ \A u \in Threads \ {t} : thread'[u] = thread[u]
<1>1. thread[t] \in ThreadTypes
  BY TypedThread
<1>2. [thread[t] EXCEPT !.pc = pc] \in ThreadTypes
  BY <1>1, RecordTypes
<1>3. /\ thread'[t] = [thread[t] EXCEPT !.pc = pc]
      /\ \A u \in Threads \ {t} : thread'[u] = thread[u]
  BY <1>2, TypedThread, Becoming DEF Goto
<1> QED
  BY <1>1, <1>3 DEF ThreadTypes

LEMMA ReturnEffect ==
    ASSUME TypeOK, NEW t \in Threads, Return(t)
    PROVE  thread'[t].pc = "ready" /\ Aside(t)
<1>1. thread[t].hw \in Cards \cup {NoCard} /\ thread[t].calls \in Nat
  BY TypedThread DEF ThreadTypes
<1>2. Fresh(thread[t].hw, thread[t].calls) \in ThreadTypes
  BY <1>1, Constructors
<1>3. /\ thread'[t] = Fresh(thread[t].hw, thread[t].calls)
      /\ \A u \in Threads \ {t} : thread'[u] = thread[u]
  BY <1>2, TypedThread, Becoming DEF Return
<1> QED
  BY <1>3 DEF Fresh, Aside, Publishing, Named

LEMMA KillEffect ==
    ASSUME TypeOK, NEW p, Kill(p), NEW u \in Threads
    PROVE  \/ thread'[u] = thread[u]
           \/ ProcessOf(u) = p /\ thread'[u].pc = "dead"
<1>1. thread'[u] = IF ProcessOf(u) = p
                   THEN [Fresh(NoCard, 0) EXCEPT !.pc = "dead"] ELSE thread[u]
  BY DEF Kill
<1>2. [Fresh(NoCard, 0) EXCEPT !.pc = "dead"].pc = "dead"
  BY DEF Fresh
<1> QED
  BY <1>1, <1>2

\* The steps that leave every publication alone.
LEMMA Harmless ==
    ASSUME WholeInv, UNCHANGED <<setting, temps, serial>>,
           profile' \in {profile, NoFile},
           \A u \in Threads : \/ thread'[u] = thread[u]
                             \/ /\ thread'[u].pc \notin Publishers
                                /\ thread'[u].pc \in Named => thread'[u].shape \in Shapes
    PROVE  TempsOwned' /\ ShapesNamed' /\ TextsWhole'
<1> USE DEF WholeInv
<1>1. TempsOwned'
  BY DEF TempsOwned, Owns, At, ProcessOf, Publishers
<1>2. ShapesNamed'
  BY DEF ShapesNamed, At, Publishers, Named
<1>3. TextsWhole'
  BY DEF TextsWhole, At, Proper, Publishers
<1> QED
  BY <1>1, <1>2, <1>3

LEMMA AsideSteps ==
    ASSUME TypeOK, ShapesNamed, NEW t \in Threads,
           \/ Check(t) \/ Read(t) \/ CompileAgain(t) \/ AnswerFromCache(t)
           \/ \E s \in Shapes, precision \in setting.precisions :
                 Autotune(t, s, precision)
           \/ LoadPersisted(t) \/ NotMeasured(t) \/ Borrow(t)
    PROVE  Aside(t) /\ UNCHANGED <<setting, fileVars, config, quiet>>
<1>th. thread \in [Threads -> ThreadTypes] /\ thread[t] \in ThreadTypes
  BY TypedThread
<1>pcs. Pcs = {"ready", "check", "read", "probe", "create", "write", "rename",
               "hit", "load", "measure", "timing", "store", "borrow", "dead"}
  BY DEF Pcs
<1>1. CASE Check(t)
  BY <1>1, <1>pcs, GotoEffect DEF Check, Aside, Publishing, Named
<1>2. CASE Read(t)
  <2>1. PICK hw : Become(t, [thread[t] EXCEPT !.pc = "ready", !.hw = hw])
    BY <1>2 DEF Read
  <2>2. /\ thread'[t] = [thread[t] EXCEPT !.pc = "ready", !.hw = hw]
        /\ \A u \in Threads \ {t} : thread'[u] = thread[u]
    BY <2>1, <1>th DEF Become
  <2>3. thread'[t].pc = "ready"
    BY <2>2, <1>th DEF ThreadTypes
  <2> QED
    BY <1>2, <2>2, <2>3 DEF Read, Aside, Publishing, Named
<1>3. CASE CompileAgain(t)
  <2>1. /\ thread'[t] = [thread[t] EXCEPT !.pc = "check", !.calls = @ + 1]
        /\ \A u \in Threads \ {t} : thread'[u] = thread[u]
    BY <1>3, <1>th DEF CompileAgain, Become
  <2>2. thread'[t].pc = "check"
    BY <2>1, <1>th DEF ThreadTypes
  <2> QED
    BY <1>3, <2>1, <2>2 DEF CompileAgain, Aside, Publishing, Named
<1>4. CASE AnswerFromCache(t)
  BY <1>4, ReturnEffect DEF AnswerFromCache, Hit
<1>5. CASE \E s \in Shapes, precision \in setting.precisions :
              Autotune(t, s, precision)
  <2>1. PICK s \in Shapes, precision \in setting.precisions : Autotune(t, s, precision)
    BY <1>5
  <2>2. PICK pc \in {"hit", "load", "measure", "borrow"} :
           Become(t, [thread[t] EXCEPT !.calls = @ + 1, !.shape = s,
                                       !.precision = precision, !.pc = pc])
    BY <2>1 DEF Autotune
  <2>3. /\ thread'[t] = [thread[t] EXCEPT !.calls = @ + 1, !.shape = s,
                                          !.precision = precision, !.pc = pc]
        /\ \A u \in Threads \ {t} : thread'[u] = thread[u]
    BY <2>2, <1>th DEF Become
  <2>4. thread'[t].pc = pc /\ thread'[t].shape = s
    BY <2>3, <1>th DEF ThreadTypes
  <2> QED
    BY <2>1, <2>3, <2>4 DEF Autotune, Aside, Publishing, Named
<1>6. CASE LoadPersisted(t)
  <2>1. CASE Return(t)
    BY <1>6, <2>1, ReturnEffect DEF LoadPersisted
  <2>2. CASE Goto(t, IF MayMeasure(ModeOf(t)) THEN "measure" ELSE "borrow")
    <3>1. thread[t].shape \in Shapes
      BY <1>6 DEF LoadPersisted, ShapesNamed, At
    <3> QED
      BY <1>6, <2>2, <3>1, <1>pcs, GotoEffect
         DEF LoadPersisted, Aside, Publishing, Named
  <2> QED
    BY <1>6, <2>1, <2>2 DEF LoadPersisted
<1>7. CASE NotMeasured(t)
  <2>1. thread[t].shape \in Shapes
    BY <1>7 DEF NotMeasured, ShapesNamed, At
  <2> QED
    BY <1>7, <2>1, <1>pcs, GotoEffect DEF NotMeasured, Aside, Publishing
<1>8. CASE Borrow(t)
  BY <1>8, ReturnEffect DEF Borrow
<1> QED
  BY <1>1, <1>2, <1>3, <1>4, <1>5, <1>6, <1>7, <1>8

\* A measurement notes the generation it starts under, and its line keeps it.
LEMMA TimingEffect ==
    ASSUME TypeOK, ShapesNamed, NEW t \in Threads, StartTiming(t)
    PROVE  /\ thread'[t].pc = "timing" /\ thread'[t].since = config.gen
           /\ thread'[t].shape \in Shapes
           /\ \A u \in Threads \ {t} : thread'[u] = thread[u]
<1>1. thread \in [Threads -> ThreadTypes] /\ thread[t] \in ThreadTypes
  BY TypedThread
<1>2. /\ thread'[t] = [thread[t] EXCEPT !.pc = "timing", !.since = config.gen]
      /\ \A u \in Threads \ {t} : thread'[u] = thread[u]
  BY <1>1 DEF StartTiming, Become
<1>3. thread[t].shape \in Shapes
  BY DEF StartTiming, ShapesNamed, At
<1> QED
  BY <1>1, <1>2, <1>3 DEF ThreadTypes

LEMMA MeasuredEffect ==
    ASSUME TypeOK, ShapesNamed, NEW t \in Threads, Measured(t)
    PROVE  /\ thread'[t].pc = "store" /\ thread'[t].line.gen = thread[t].since
           /\ thread'[t].shape \in Shapes
           /\ \A u \in Threads \ {t} : thread'[u] = thread[u]
<1>1. PICK tile \in TilesAt[thread[t].shape] :
         Become(t, [thread[t] EXCEPT
                      !.pc = "store",
                      !.line = [Wanted(t) EXCEPT !.tile = tile,
                                                 !.gen = thread[t].since]])
  BY DEF Measured
<1> DEFINE line == [Wanted(t) EXCEPT !.tile = tile, !.gen = thread[t].since]
<1>2. line.gen = thread[t].since
  BY DEF Wanted
<1>3. Become(t, [thread[t] EXCEPT !.pc = "store", !.line = line])
  BY <1>1
<1> HIDE DEF line
<1>4. thread \in [Threads -> ThreadTypes] /\ thread[t] \in ThreadTypes
  BY TypedThread
<1>5. /\ thread'[t] = [thread[t] EXCEPT !.pc = "store", !.line = line]
      /\ \A u \in Threads \ {t} : thread'[u] = thread[u]
  BY <1>3, <1>4 DEF Become
<1>6. thread[t].shape \in Shapes
  BY DEF Measured, ShapesNamed, At
<1> QED
  BY <1>2, <1>4, <1>5, <1>6 DEF ThreadTypes

\* The steps that take a text to the profile move no other thread.
LEMMA ProbeEffect ==
    ASSUME TypeOK, NEW t \in Threads, Probe(t)
    PROVE  /\ thread'[t].pc = "create" /\ thread'[t].publishes = "probe"
           /\ \E card \in Cards \cup {NoCard} :
                thread'[t].buffer = [content |-> "whole", probed |-> TRUE,
                                     card |-> card, gen |-> config.gen, lines |-> {}]
           /\ \A u \in Threads \ {t} : thread'[u] = thread[u]
<1> DEFINE F(card) == [content |-> "whole", probed |-> TRUE, card |-> card,
                       gen |-> config.gen, lines |-> {}]
<1>1. PICK card \in Cards \cup {NoCard} :
         Become(t, [thread[t] EXCEPT !.pc = "create", !.hw = card,
                                     !.publishes = "probe", !.buffer = F(card)])
  BY DEF Probe, TypeOK
<1> HIDE DEF F
<1>2. thread \in [Threads -> ThreadTypes] /\ thread[t] \in ThreadTypes
  BY TypedThread
<1>3. /\ thread'[t] = [thread[t] EXCEPT !.pc = "create", !.hw = card,
                                        !.publishes = "probe", !.buffer = F(card)]
      /\ \A u \in Threads \ {t} : thread'[u] = thread[u]
  BY <1>1, <1>2 DEF Become
<1>4. /\ thread'[t].pc = "create" /\ thread'[t].publishes = "probe"
      /\ thread'[t].buffer = F(card)
  BY <1>2, <1>3 DEF ThreadTypes
<1> QED
  BY <1>3, <1>4 DEF F

LEMMA StoreEffect ==
    ASSUME TypeOK, NEW t \in Threads, Store(t)
    PROVE  \/ Aside(t) /\ UseMeasured(t)
           \/ /\ profile.content # "none"
              /\ thread'[t].pc = "create" /\ thread'[t].publishes = "tuning"
              /\ thread'[t].shape = thread[t].shape
              /\ thread'[t].buffer = WithLine(profile, thread[t].line)
              /\ \A u \in Threads \ {t} : thread'[u] = thread[u]
              /\ UNCHANGED cache
<1>1. CASE UseMeasured(t)
  BY <1>1, ReturnEffect DEF UseMeasured
<1>2. CASE /\ profile.content # "none"
           /\ Become(t, [thread[t] EXCEPT
                            !.pc = "create", !.publishes = "tuning",
                            !.buffer = WithLine(profile, thread[t].line)])
           /\ UNCHANGED cache
  <2>1. thread \in [Threads -> ThreadTypes] /\ thread[t] \in ThreadTypes
    BY TypedThread
  <2>2. /\ thread'[t] = [thread[t] EXCEPT
                            !.pc = "create", !.publishes = "tuning",
                            !.buffer = WithLine(profile, thread[t].line)]
        /\ \A u \in Threads \ {t} : thread'[u] = thread[u]
    BY <1>2, <2>1 DEF Become
  <2>3. /\ thread'[t].pc = "create" /\ thread'[t].publishes = "tuning"
        /\ thread'[t].shape = thread[t].shape
        /\ thread'[t].buffer = WithLine(profile, thread[t].line)
    BY <2>1, <2>2 DEF ThreadTypes
  <2> QED
    BY <1>2, <2>2, <2>3
<1> QED
  BY <1>1, <1>2 DEF Store

LEMMA CreateEffect ==
    ASSUME TypeOK, NEW t \in Threads, CreateTemp(t)
    PROVE  /\ thread'[t].pc = "write" /\ thread'[t].temp = TempName(t)
           /\ thread'[t].buffer = thread[t].buffer
           /\ thread'[t].shape = thread[t].shape
           /\ thread'[t].publishes = thread[t].publishes
           /\ \A u \in Threads \ {t} : thread'[u] = thread[u]
<1>1. thread \in [Threads -> ThreadTypes] /\ thread[t] \in ThreadTypes
  BY TypedThread
<1>2. /\ thread'[t] = [thread[t] EXCEPT !.pc = "write", !.temp = TempName(t)]
      /\ \A u \in Threads \ {t} : thread'[u] = thread[u]
  BY <1>1 DEF CreateTemp, Become
<1> QED
  BY <1>1, <1>2 DEF ThreadTypes

\* Publications in progress stay private: the three steps of an atomic write.
LEMMA WholeStep ==
    ASSUME WholeInv, [Next]_vars
    PROVE  WholeInv'
<1> USE DEF WholeInv
<1>type. TypeOK'
  BY TypeStep
<1>now. /\ TypeOK /\ TempsOwned /\ ShapesNamed /\ TextsWhole
        /\ temps \in [TempNames -> Files]
        /\ serial \in [Processes -> 0..MaxSerial]
        /\ setting \in Settings
        /\ thread \in [Threads -> ThreadTypes]
  BY TypedThread DEF TypeOK
<1>p. \A t \in Threads : /\ ProcessOf(t) \in Processes
                         /\ serial[ProcessOf(t)] \in Nat
  BY <1>now, ProcessTypes, BoundAssumption
<1>pcs. Pcs = {"ready", "check", "read", "probe", "create", "write", "rename",
               "hit", "load", "measure", "timing", "store", "borrow", "dead"}
  BY DEF Pcs
<1>1. ASSUME NEW t \in Threads,
             Aside(t), UNCHANGED <<setting, fileVars>>
      PROVE  WholeInv'
  BY <1>1, <1>type, Harmless DEF Aside, fileVars, Publishers, Publishing
<1>2. ASSUME NEW t \in Threads, Probe(t) PROVE WholeInv'
  <2>1. UNCHANGED <<setting, profile, temps, serial>>
    BY <1>2 DEF Probe, fileVars
  <2>2. Proper(thread'[t].buffer)
    <3>1. PICK card \in Cards \cup {NoCard} :
             thread'[t].buffer = [content |-> "whole", probed |-> TRUE, card |-> card,
                                  gen |-> config.gen, lines |-> {}]
      BY <1>2, ProbeEffect
    <3> QED
      BY <3>1 DEF Proper
  <2>3. TempsOwned'
    BY <1>2, <1>now, <2>1, ProbeEffect DEF TempsOwned, Owns, At, ProcessOf
  <2>4. ShapesNamed'
    BY <1>2, <1>now, ProbeEffect DEF ShapesNamed, At
  <2>5. TextsWhole'
    BY <1>2, <1>now, <2>1, <2>2, ProbeEffect DEF TextsWhole, At, Proper
  <2> QED
    BY <2>3, <2>4, <2>5, <1>type
<1>3. ASSUME NEW t \in Threads, CreateTemp(t) PROVE WholeInv'
  <2>1. /\ UNCHANGED <<setting, profile>>
        /\ TempName(t) = <<ProcessOf(t), serial[ProcessOf(t)]>>
        /\ temps' = [temps EXCEPT ![TempName(t)] = Torn]
        /\ serial' = [serial EXCEPT ![ProcessOf(t)] = @ + 1]
    BY <1>3 DEF CreateTemp, TempName
  <2>2. TempName(t) \in TempNames
    BY <1>3, <1>p, <1>now, BoundAssumption DEF CreateTemp, TempName, TempNames
  <2>3. \A u \in Threads : serial[ProcessOf(u)] <= serial'[ProcessOf(u)]
    BY <2>1, <1>now, <1>p
  <2>4. serial[ProcessOf(t)] < serial'[ProcessOf(t)]
    BY <2>1, <1>now, <1>p
  <2>5. ASSUME NEW u \in Threads \ {t}, Owns(u)
        PROVE  thread[u].temp # TempName(t)
    BY <2>1, <2>5, <1>now, <1>p DEF TempsOwned
  <2>6. ASSUME NEW u \in Threads, Owns(u)'
        PROVE  /\ (thread[u].temp \in TempNames)'
               /\ (thread[u].temp[1] = ProcessOf(u))'
               /\ (thread[u].temp[2] < serial[ProcessOf(u)])'
    <3>1. CASE u = t
      BY <1>3, <2>1, <2>2, <2>4, <3>1, CreateEffect DEF ProcessOf
    <3>2. CASE u # t
      <4>1. thread'[u] = thread[u] /\ Owns(u)
        BY <1>3, <2>6, <3>2, CreateEffect DEF Owns, At
      <4>2. /\ thread[u].temp \in TempNames /\ thread[u].temp[1] = ProcessOf(u)
            /\ thread[u].temp[2] < serial[ProcessOf(u)]
        BY <4>1, <1>now DEF TempsOwned
      <4>3. thread[u].temp[2] \in Nat
        BY <4>2, BoundAssumption DEF TempNames
      <4>4. serial'[ProcessOf(u)] \in Nat /\ ProcessOf(u)' = ProcessOf(u)
        BY <1>type, <1>p, <2>1, BoundAssumption DEF TypeOK, ProcessOf
      <4>5. thread[u].temp[2] < serial'[ProcessOf(u)]
        BY <4>2, <4>3, <4>4, <2>3, <1>p
      <4> QED
        BY <4>1, <4>2, <4>4, <4>5
    <3> QED
      BY <3>1, <3>2
  <2>7. ASSUME NEW u \in Threads, NEW v \in Threads, Owns(u)', Owns(v)', u # v
        PROVE  thread'[u].temp # thread'[v].temp
    BY <1>3, <2>5, <2>7, <1>now, CreateEffect DEF TempsOwned, Owns, At
  <2>8. TempsOwned'
    BY <2>6, <2>7 DEF TempsOwned
  <2>9. ShapesNamed'
    BY <1>3, <1>now, CreateEffect DEF ShapesNamed, At, CreateTemp
  <2>10. \A u \in Threads \ {t} : At(u, {"rename"}) =>
            temps'[thread[u].temp] = temps[thread[u].temp]
    BY <2>1, <2>5, <1>now DEF TempsOwned, Owns, At
  <2>11. /\ thread[t].pc = "create" /\ thread'[t].pc = "write"
         /\ thread'[t].buffer = thread[t].buffer
         /\ \A u \in Threads \ {t} : thread'[u] = thread[u]
    BY <1>3, CreateEffect DEF CreateTemp
  <2>12. Proper(thread[t].buffer)
    BY <2>11, <1>now DEF TextsWhole, At
  <2>13. TextsWhole'
    BY <2>1, <2>10, <2>11, <2>12, <1>now DEF TextsWhole, At, Proper
  <2> QED
    BY <2>8, <2>9, <2>13, <1>type
<1>4. ASSUME NEW t \in Threads, WriteTemp(t) PROVE WholeInv'
  <2>1. /\ UNCHANGED <<setting, profile, serial>>
        /\ temps' = [temps EXCEPT ![thread[t].temp] = thread[t].buffer]
        /\ thread[t].pc = "write" /\ Goto(t, "rename")
    BY <1>4 DEF WriteTemp
  <2>2. /\ thread'[t].pc = "rename" /\ thread'[t].temp = thread[t].temp
        /\ thread'[t].buffer = thread[t].buffer /\ thread'[t].shape = thread[t].shape
        /\ thread'[t].publishes = thread[t].publishes
        /\ \A u \in Threads \ {t} : thread'[u] = thread[u]
    BY <2>1, <1>now, <1>pcs, GotoEffect
  <2>3. TempsOwned'
    BY <2>1, <2>2, <1>now DEF TempsOwned, Owns, At, ProcessOf
  <2>4. ShapesNamed'
    BY <2>1, <2>2, <1>now DEF ShapesNamed, At
  <2>5. temps'[thread[t].temp] = thread[t].buffer
    BY <2>1, <1>now DEF TempsOwned, Owns, At
  <2>6. \A u \in Threads \ {t} : At(u, {"rename"}) =>
            temps'[thread[u].temp] = temps[thread[u].temp]
    BY <2>1, <1>now DEF TempsOwned, Owns, At
  <2>7. TextsWhole'
    BY <2>1, <2>2, <2>5, <2>6, <1>now DEF TextsWhole, At, Proper
  <2> QED
    BY <2>3, <2>4, <2>7, <1>type
<1>5. ASSUME NEW t \in Threads, Rename(t) PROVE WholeInv'
  <2>1. /\ UNCHANGED <<setting, serial>>
        /\ profile' = temps[thread[t].temp]
        /\ temps' = [temps EXCEPT ![thread[t].temp] = NoFile]
        /\ thread[t].pc = "rename" /\ Return(t)
    BY <1>5 DEF Rename, UseMeasured
  <2>2. thread'[t].pc = "ready" /\ \A u \in Threads \ {t} : thread'[u] = thread[u]
    BY <2>1, <1>now, ReturnEffect DEF Aside
  <2>3. TempsOwned'
    BY <2>1, <2>2, <1>now DEF TempsOwned, Owns, At, ProcessOf
  <2>4. ShapesNamed'
    BY <2>1, <2>2, <1>now DEF ShapesNamed, At
  <2>5. Proper(profile')
    BY <2>1, <1>now DEF TextsWhole, At
  <2>6. \A u \in Threads \ {t} : At(u, {"rename"}) =>
            temps'[thread[u].temp] = temps[thread[u].temp]
    BY <2>1, <1>now DEF TempsOwned, Owns, At
  <2>7. TextsWhole'
    BY <2>1, <2>2, <2>5, <2>6, <1>now DEF TextsWhole, At, Proper
  <2> QED
    BY <2>3, <2>4, <2>7, <1>type
<1>6. ASSUME NEW t \in Threads, PublishError(t) PROVE WholeInv'
  <2>1. /\ UNCHANGED <<setting, serial, profile>>
        /\ temps' = [temps EXCEPT ![thread[t].temp] = NoFile]
        /\ thread[t].pc \in {"write", "rename"}
        /\ Kill(ProcessOf(t)) \/ Return(t)
    BY <1>6 DEF PublishError, UseMeasured
  <2>2. \A u \in Threads : \/ u # t /\ thread'[u] = thread[u]
                           \/ thread'[u].pc \in {"ready", "dead"}
    <3>1. CASE Return(t)
      BY <3>1, <1>now, ReturnEffect DEF Aside
    <3>2. CASE Kill(ProcessOf(t))
      <4>1. thread'[t].pc = "dead"
        BY <3>2, <2>1, <1>now, <1>type, KillEffect DEF Kill, Fresh
      <4> QED
        BY <3>2, <4>1, <1>now, KillEffect
    <3> QED
      BY <2>1, <3>1, <3>2
  <2>3. TempsOwned'
    BY <2>1, <2>2, <1>now DEF TempsOwned, Owns, At, ProcessOf
  <2>4. ShapesNamed'
    BY <2>1, <2>2, <1>now DEF ShapesNamed, At
  <2>6. \A u \in Threads \ {t} : At(u, {"rename"}) =>
            temps'[thread[u].temp] = temps[thread[u].temp]
    BY <2>1, <1>now DEF TempsOwned, Owns, At
  <2>7. TextsWhole'
    BY <2>1, <2>2, <2>6, <1>now DEF TextsWhole, At, Proper
  <2> QED
    BY <2>3, <2>4, <2>7, <1>type
<1>7. ASSUME NEW t \in Threads, Store(t) PROVE WholeInv'
  <2>1. UNCHANGED <<setting, profile, temps, serial, fileVars>> /\ thread[t].pc = "store"
    BY <1>7 DEF Store, fileVars
  <2>2. CASE Aside(t)
    BY <1>1, <2>1, <2>2
  <2>3. CASE /\ profile.content # "none"
             /\ thread'[t].pc = "create" /\ thread'[t].publishes = "tuning"
             /\ thread'[t].shape = thread[t].shape
             /\ thread'[t].buffer = WithLine(profile, thread[t].line)
             /\ \A u \in Threads \ {t} : thread'[u] = thread[u]
    <3>1. profile \in Files /\ profile # NoFile
      BY <2>3 DEF TypeOK, NoFile
    <3>2. Proper(WithLine(profile, thread[t].line))
      BY <3>1, <1>now DEF TextsWhole, Proper, WithLine, Files
    <3>3. TempsOwned'
      BY <2>1, <2>3, <1>now DEF TempsOwned, Owns, At, ProcessOf
    <3>4. ShapesNamed'
      BY <2>1, <2>3, <1>now DEF ShapesNamed, At
    <3>5. TextsWhole'
      BY <2>1, <2>3, <3>2, <1>now DEF TextsWhole, At, Proper
    <3> QED
      BY <3>3, <3>4, <3>5, <1>type
  <2> QED
    BY <1>7, <2>2, <2>3, StoreEffect
<1>8. ASSUME Reconfigure PROVE WholeInv'
  BY <1>8, <1>type, Harmless DEF Reconfigure
<1>9. ASSUME NEW p \in Processes, Crash(p) PROVE WholeInv'
  <2>1. \A u \in Threads : thread'[u] = thread[u] \/ thread'[u].pc = "dead"
    BY <1>9, KillEffect DEF Crash
  <2> QED
    BY <1>9, <2>1, <1>type, Harmless DEF Crash, fileVars, Publishers, Named
<1>10. CASE TimeBatch \/ UNCHANGED vars
  BY <1>10, <1>type, Harmless DEF TimeBatch, vars, fileVars
<1>11. ASSUME NEW t \in Threads, StartTiming(t) PROVE WholeInv'
  BY <1>11, <1>type, TimingEffect, Harmless DEF StartTiming, fileVars, Publishers
<1>12. ASSUME NEW t \in Threads, Measured(t) PROVE WholeInv'
  BY <1>12, <1>type, MeasuredEffect, Harmless DEF Measured, fileVars, Publishers
<1> QED
  BY <1>1, <1>2, <1>3, <1>4, <1>5, <1>6, <1>7, <1>8, <1>9, <1>10, <1>11, <1>12,
     AsideSteps DEF Next, Step

LEMMA WholeInit == Init => WholeInv
<1> SUFFICES ASSUME Init PROVE WholeInv
  OBVIOUS
<1>1. \A t \in Threads : thread[t].pc = "check"
  BY DEF Init, Fresh
<1> QED
  BY <1>1, TypeInit
     DEF Init, WholeInv, TempsOwned, ShapesNamed, TextsWhole, Owns, At

LEMMA WholeInductive == Spec => []WholeInv
<1> QED
  BY WholeInit, WholeStep, PTL DEF Spec

\* Whatever the compilations, crashes, failed writes and changes of configuration,
\* the profile under its name is whole and holds a complete probe.
THEOREM ProfileAlwaysWhole == Spec => []ProfileWhole
<1>1. WholeInv => ProfileWhole
  BY DEF WholeInv, TextsWhole, Proper, ProfileWhole
<1> QED
  BY <1>1, WholeInductive, PTL

----------------------------------------------------------------------------
(* The profile is of the present configuration *)

\* A step that takes no thread towards a publication leaves nothing old.
LEMMA StillCurrent ==
    ASSUME TextsCurrent, UNCHANGED <<config, quiet>>, profile' \in {profile, NoFile},
           \A u \in Threads : thread'[u] = thread[u] \/ thread'[u].pc \notin Publishing
    PROVE  TextsCurrent'
BY DEF TextsCurrent, At, Current, Publishing

\* Nor does a step of one thread that is itself current.
LEMMA StillCurrentBut ==
    ASSUME TextsCurrent, UNCHANGED <<config, quiet, profile>>, NEW t \in Threads,
           \A u \in Threads \ {t} : thread'[u] = thread[u],
           quiet =>
              \/ thread'[t].pc = "timing" /\ thread'[t].since = config.gen
              \/ thread'[t].pc = "store" /\ thread'[t].line.gen = config.gen
              \/ thread'[t].pc \in Publishers /\ Current(thread'[t].buffer)
    PROVE  TextsCurrent'
BY DEF TextsCurrent, At, Current, Publishers

\* What is read back was current, and so is what is published.
LEMMA CurrentStep ==
    ASSUME WholeInv, TextsCurrent, [Next]_vars
    PROVE  TextsCurrent'
<1>now. TypeOK /\ TempsOwned /\ ShapesNamed /\ TextsWhole
  BY DEF WholeInv
<1>pcs. "rename" \in Pcs
  BY DEF Pcs
<1>1. ASSUME NEW t \in Threads, Aside(t),
             UNCHANGED <<profile, config, quiet>>
      PROVE  TextsCurrent'
  BY <1>1, StillCurrent DEF Aside
<1>2. ASSUME NEW t \in Threads, Probe(t) PROVE TextsCurrent'
  <2>1. UNCHANGED <<config, quiet, profile>>
    BY <1>2 DEF Probe, fileVars
  <2>2. PICK card \in Cards \cup {NoCard} :
           thread'[t].buffer = [content |-> "whole", probed |-> TRUE, card |-> card,
                                gen |-> config.gen, lines |-> {}]
    BY <1>2, <1>now, ProbeEffect
  <2>3. Current(thread'[t].buffer)
    BY <2>2 DEF Current
  <2> QED
    BY <1>2, <1>now, <2>1, <2>3, ProbeEffect, StillCurrentBut DEF Publishers
<1>3. ASSUME NEW t \in Threads, CreateTemp(t) PROVE TextsCurrent'
  <2>1. UNCHANGED <<config, quiet, profile>> /\ thread[t].pc = "create"
    BY <1>3 DEF CreateTemp
  <2>2. quiet => Current(thread[t].buffer)
    BY <2>1 DEF TextsCurrent, At
  <2> QED
    BY <1>3, <1>now, <2>1, <2>2, CreateEffect, StillCurrentBut DEF Publishers
<1>4. ASSUME NEW t \in Threads, WriteTemp(t) PROVE TextsCurrent'
  <2>1. /\ UNCHANGED <<config, quiet, profile>>
        /\ thread[t].pc = "write" /\ Goto(t, "rename")
    BY <1>4 DEF WriteTemp
  <2>2. quiet => Current(thread[t].buffer)
    BY <2>1 DEF TextsCurrent, At
  <2> QED
    BY <1>now, <1>pcs, <2>1, <2>2, GotoEffect, StillCurrentBut DEF Publishers
<1>5. ASSUME NEW t \in Threads, Rename(t) PROVE TextsCurrent'
  <2>1. /\ UNCHANGED <<config, quiet>>
        /\ profile' = temps[thread[t].temp]
        /\ thread[t].pc = "rename" /\ Return(t)
    BY <1>5 DEF Rename, UseMeasured
  <2>2. thread'[t].pc = "ready" /\ \A u \in Threads \ {t} : thread'[u] = thread[u]
    BY <2>1, <1>now, ReturnEffect DEF Aside
  <2>3. profile' = thread[t].buffer
    BY <2>1, <1>now DEF TextsWhole, At
  <2>4. quiet => Current(thread[t].buffer)
    BY <2>1 DEF TextsCurrent, At
  <2> QED
    BY <2>1, <2>2, <2>3, <2>4 DEF TextsCurrent, At, Current
<1>6. ASSUME NEW t \in Threads, PublishError(t) PROVE TextsCurrent'
  <2>1. UNCHANGED <<config, quiet, profile>> /\ (Kill(ProcessOf(t)) \/ Return(t))
    BY <1>6 DEF PublishError, UseMeasured
  <2>2. CASE Return(t)
    BY <2>1, <2>2, <1>now, <1>1, ReturnEffect
  <2>3. CASE Kill(ProcessOf(t))
    BY <2>1, <2>3, <1>now, KillEffect, StillCurrent DEF Publishing
  <2> QED
    BY <2>1, <2>2, <2>3
<1>7. ASSUME NEW t \in Threads, Store(t) PROVE TextsCurrent'
  <2>1. UNCHANGED <<config, quiet, profile>> /\ thread[t].pc = "store"
    BY <1>7 DEF Store, fileVars
  <2>2. CASE Aside(t)
    BY <1>1, <2>1, <2>2
  <2>3. CASE /\ profile.content # "none" /\ thread'[t].pc = "create"
             /\ thread'[t].buffer = WithLine(profile, thread[t].line)
             /\ \A u \in Threads \ {t} : thread'[u] = thread[u]
    <3>1. profile \in Files /\ profile # NoFile
      BY <2>3, <1>now DEF TypeOK, NoFile
    <3>2. quiet => Current(profile) /\ thread[t].line.gen = config.gen
      BY <3>1, <2>1 DEF TextsCurrent, At
    <3>3. quiet => Current(WithLine(profile, thread[t].line))
      BY <3>1, <3>2 DEF Current, WithLine, Files
    <3> QED
      BY <2>1, <2>3, <3>3, StillCurrentBut DEF Publishers
  <2> QED
    BY <1>7, <1>now, <2>2, <2>3, StoreEffect
<1>8. ASSUME NEW t \in Threads, StartTiming(t) PROVE TextsCurrent'
  BY <1>8, <1>now, TimingEffect, StillCurrentBut DEF StartTiming, fileVars
<1>9. ASSUME NEW t \in Threads, Measured(t) PROVE TextsCurrent'
  <2>1. quiet => thread[t].since = config.gen
    BY <1>9 DEF Measured, TextsCurrent, At
  <2> QED
    BY <1>9, <1>now, <2>1, MeasuredEffect, StillCurrentBut DEF Measured, fileVars
<1>10. ASSUME Reconfigure PROVE TextsCurrent'
  <2>1. /\ profile' = NoFile /\ UNCHANGED thread
        /\ quiet' = \A t \in Threads : thread[t].pc \notin Publishing
    BY <1>10 DEF Reconfigure
  <2> QED
    BY <2>1 DEF TextsCurrent, At, Publishing
<1>11. ASSUME NEW p \in Processes, Crash(p) PROVE TextsCurrent'
  <2>1. UNCHANGED <<config, quiet, profile>> /\ Kill(p)
    BY <1>11 DEF Crash, fileVars
  <2> QED
    BY <2>1, <1>now, KillEffect, StillCurrent DEF Publishing
<1>12. CASE TimeBatch \/ UNCHANGED vars
  BY <1>12, StillCurrent DEF TimeBatch, vars, fileVars
<1> QED
  BY <1>1, <1>2, <1>3, <1>4, <1>5, <1>6, <1>7, <1>8, <1>9, <1>10, <1>11, <1>12,
     <1>now, AsideSteps DEF Next, Step, fileVars

\* Deleting the profile between compilations is final: neither the old probe nor
\* a tile measured before it is in the file again.
THEOREM DeletesAreFinal == Spec => []DeleteDiscards
<1>1. Init => TextsCurrent
  <2> SUFFICES ASSUME Init PROVE TextsCurrent
    OBVIOUS
  <2>1. \A t \in Threads : thread[t].pc = "check"
    BY DEF Init, Fresh
  <2> QED
    BY <2>1 DEF Init, TextsCurrent, At
<1>2. TextsCurrent => DeleteDiscards
  BY DEF TextsCurrent, Current, DeleteDiscards
<1> QED
  BY <1>1, <1>2, WholeInductive, CurrentStep, PTL DEF Spec

----------------------------------------------------------------------------
(* Choices respect the mode *)

\* ChoiceAllowed, of one entry of the in-process cache.
Allowed(c, mode, s) ==
    /\ mode = "analytic" => c.from \in {"none", "analytic"}
    /\ mode = "cached" => c.from # "measured"
    /\ mode = "remeasure" => c.from \notin {"disk", "near"}
    /\ c.from \in {"disk", "near"} =>
          /\ c.line.precision = c.precision /\ c.line.card = c.card
          /\ <<c.line.tile, s>> \in Emittable
          /\ Distance[c.line.shape][s] <= IF c.from = "disk" THEN 100 ELSE 200

LEMMA ChoiceAllowedIs ==
    ChoiceAllowed <=> \A t \in Threads, s \in Shapes :
                          Allowed(cache[ProcessOf(t)][s], ModeOf(t), s)
BY DEF ChoiceAllowed, Allowed

\* A step of one thread that stays permitted, and writes nothing unfit.
LEMMA StillPermitted ==
    ASSUME PhasesAllowed, UNCHANGED setting, NEW t \in Threads,
           profile' = profile \/ Fits(profile'),
           Permitted(thread'[t], ModeOf(t)),
           \A u \in Threads \ {t} : thread'[u] = thread[u]
    PROVE  PhasesAllowed'
<1>1. Fits(profile')
  BY DEF PhasesAllowed
<1>2. ASSUME NEW u \in Threads PROVE Permitted(thread'[u], ModeOf(u))
  BY DEF PhasesAllowed
<1>3. \A u \in Threads : ModeOf(u)' = ModeOf(u)
  BY DEF ModeOf, ProcessOf
<1> QED
  BY <1>1, <1>2, <1>3 DEF PhasesAllowed, Fits, Permitted

\* Threads that move do so into a phase every mode permits.
LEMMA StillPermittedAll ==
    ASSUME PhasesAllowed, UNCHANGED setting, profile' \in {profile, NoFile},
           \A u \in Threads : thread'[u] = thread[u] \/ thread'[u].pc = "dead"
    PROVE  PhasesAllowed'
<1>1. Fits(profile')
  <2>1. Fits(NoFile)
    BY DEF Fits, NoFile
  <2> QED
    BY <2>1 DEF PhasesAllowed
<1>2. ASSUME NEW u \in Threads PROVE Permitted(thread'[u], ModeOf(u))
  BY DEF PhasesAllowed, Permitted
<1>3. \A u \in Threads : ModeOf(u)' = ModeOf(u)
  BY DEF ModeOf, ProcessOf
<1> QED
  BY <1>1, <1>2, <1>3 DEF PhasesAllowed, Fits, Permitted

\* The phases a step that publishes nothing leads to.
LEMMA AsidePermitted ==
    ASSUME TypeOK, ShapesNamed, PhasesAllowed, NEW t \in Threads,
           \/ Check(t) \/ Read(t) \/ CompileAgain(t) \/ AnswerFromCache(t)
           \/ \E s \in Shapes, precision \in setting.precisions :
                 Autotune(t, s, precision)
           \/ LoadPersisted(t) \/ NotMeasured(t) \/ Borrow(t)
    PROVE  Permitted(thread'[t], ModeOf(t))
<1>th. thread \in [Threads -> ThreadTypes] /\ thread[t] \in ThreadTypes
  BY TypedThread
<1>pcs. Pcs = {"ready", "check", "read", "probe", "create", "write", "rename",
               "hit", "load", "measure", "timing", "store", "borrow", "dead"}
  BY DEF Pcs
<1>1. thread'[t].pc \notin Publishing
  BY AsideSteps DEF Aside
<1>2. SUFFICES /\ thread'[t].pc = "load" => MayUseCache(ModeOf(t))
               /\ thread'[t].pc = "measure" => MayMeasure(ModeOf(t))
  BY <1>1, <1>2 DEF Permitted, Publishing
<1>3. CASE Check(t)
  BY <1>3, <1>pcs, GotoEffect DEF Check
<1>4. CASE Read(t)
  <2>1. PICK hw : Become(t, [thread[t] EXCEPT !.pc = "ready", !.hw = hw])
    BY <1>4 DEF Read
  <2>2. thread'[t] = [thread[t] EXCEPT !.pc = "ready", !.hw = hw]
    BY <2>1, <1>th DEF Become
  <2>3. thread'[t].pc = "ready"
    BY <2>2, <1>th DEF ThreadTypes
  <2> QED
    BY <2>3
<1>5. CASE CompileAgain(t)
  <2>1. thread'[t] = [thread[t] EXCEPT !.pc = "check", !.calls = @ + 1]
    BY <1>5, <1>th DEF CompileAgain, Become
  <2>2. thread'[t].pc = "check"
    BY <2>1, <1>th DEF ThreadTypes
  <2> QED
    BY <2>2
<1>6. CASE AnswerFromCache(t)
  BY <1>6, ReturnEffect DEF AnswerFromCache, Hit
<1>7. ASSUME NEW s \in Shapes, NEW precision \in setting.precisions,
             Autotune(t, s, precision)
      PROVE  /\ thread'[t].pc = "load" => MayUseCache(ModeOf(t))
             /\ thread'[t].pc = "measure" => MayMeasure(ModeOf(t))
  <2> DEFINE next == IF MayUseCache(ModeOf(t)) THEN "load"
                     ELSE IF MayMeasure(ModeOf(t)) THEN "measure" ELSE "borrow"
             pc == IF cache[ProcessOf(t)][s].from = "none" THEN next ELSE "hit"
  <2>1. /\ pc = "load" => MayUseCache(ModeOf(t))
        /\ pc = "measure" => MayMeasure(ModeOf(t))
    OBVIOUS
  <2>2. Become(t, [thread[t] EXCEPT !.calls = @ + 1, !.shape = s,
                                    !.precision = precision, !.pc = pc])
    BY <1>7 DEF Autotune
  <2> HIDE DEF next, pc
  <2>3. thread'[t] = [thread[t] EXCEPT !.calls = @ + 1, !.shape = s,
                                       !.precision = precision, !.pc = pc]
    BY <2>2, <1>th DEF Become
  <2>4. thread'[t].pc = pc
    BY <2>3, <1>th DEF ThreadTypes
  <2> QED
    BY <2>1, <2>4
<1>8. CASE LoadPersisted(t)
  <2>1. CASE Return(t)
    BY <2>1, ReturnEffect
  <2>2. CASE Goto(t, IF MayMeasure(ModeOf(t)) THEN "measure" ELSE "borrow")
    BY <2>2, <1>pcs, GotoEffect
  <2> QED
    BY <1>8, <2>1, <2>2 DEF LoadPersisted
<1>9. CASE NotMeasured(t)
  BY <1>9, <1>pcs, GotoEffect DEF NotMeasured
<1>10. CASE Borrow(t)
  BY <1>10, ReturnEffect DEF Borrow
<1> QED
  BY <1>3, <1>4, <1>5, <1>6, <1>7, <1>8, <1>9, <1>10

\* A measured tile can be emitted at the shape it was measured for.
LEMMA MeasuredFits ==
    ASSUME TypeOK, ShapesNamed, NEW t \in Threads, Measured(t)
    PROVE  <<thread'[t].line.tile, thread'[t].line.shape>> \in Emittable
<1>1. PICK tile \in TilesAt[thread[t].shape] :
         Become(t, [thread[t] EXCEPT
                      !.pc = "store",
                      !.line = [Wanted(t) EXCEPT !.tile = tile,
                                                 !.gen = thread[t].since]])
  BY DEF Measured
<1> DEFINE line == [Wanted(t) EXCEPT !.tile = tile, !.gen = thread[t].since]
<1>2. line.tile = tile /\ line.shape = thread[t].shape
  BY DEF Wanted
<1>3. thread[t].shape \in Shapes
  BY DEF Measured, ShapesNamed, At
<1>4. <<tile, thread[t].shape>> \in Emittable
  BY <1>1, <1>3, TilesAssumption
<1>5. Become(t, [thread[t] EXCEPT !.pc = "store", !.line = line])
  BY <1>1
<1> HIDE DEF line
<1>6. thread \in [Threads -> ThreadTypes] /\ thread[t] \in ThreadTypes
  BY TypedThread
<1>7. thread'[t] = [thread[t] EXCEPT !.pc = "store", !.line = line]
  BY <1>5, <1>6 DEF Become
<1>8. thread'[t].line = line
  BY <1>6, <1>7 DEF ThreadTypes
<1> QED
  BY <1>2, <1>4, <1>8

LEMMA PhaseStep ==
    ASSUME WholeInv, PhasesAllowed, [Next]_vars
    PROVE  PhasesAllowed'
<1>now. TypeOK /\ TempsOwned /\ ShapesNamed /\ TextsWhole
  BY DEF WholeInv
<1>pcs. "rename" \in Pcs
  BY DEF Pcs
<1>t. \A t \in Threads : Permitted(thread[t], ModeOf(t))
  BY DEF PhasesAllowed
<1>1. ASSUME NEW t \in Threads,
             \/ Check(t) \/ Read(t) \/ CompileAgain(t) \/ AnswerFromCache(t)
             \/ \E s \in Shapes, precision \in setting.precisions :
                   Autotune(t, s, precision)
             \/ LoadPersisted(t) \/ NotMeasured(t) \/ Borrow(t)
      PROVE  PhasesAllowed'
  <2>1. UNCHANGED <<setting, profile>>
        /\ \A u \in Threads \ {t} : thread'[u] = thread[u]
    BY <1>1, <1>now, AsideSteps DEF Aside, fileVars
  <2>2. Permitted(thread'[t], ModeOf(t))
    BY <1>1, <1>now, AsidePermitted
  <2> QED
    BY <2>1, <2>2, StillPermitted
<1>2. ASSUME NEW t \in Threads, Probe(t) PROVE PhasesAllowed'
  <2>1. UNCHANGED <<setting, profile>>
    BY <1>2 DEF Probe, fileVars
  <2>2. PICK card \in Cards \cup {NoCard} :
           thread'[t].buffer = [content |-> "whole", probed |-> TRUE, card |-> card,
                                gen |-> config.gen, lines |-> {}]
    BY <1>2, <1>now, ProbeEffect
  <2>3. Fits(thread'[t].buffer)
    BY <2>2 DEF Fits
  <2>4. thread'[t].pc = "create" /\ thread'[t].publishes = "probe"
    BY <1>2, <1>now, ProbeEffect
  <2>5. Permitted(thread'[t], ModeOf(t))
    BY <2>3, <2>4 DEF Permitted
  <2> QED
    BY <1>2, <1>now, <2>1, <2>5, ProbeEffect, StillPermitted
<1>3. ASSUME NEW t \in Threads, CreateTemp(t) PROVE PhasesAllowed'
  <2>1. UNCHANGED <<setting, profile>> /\ thread[t].pc = "create"
    BY <1>3 DEF CreateTemp
  <2>2. Permitted(thread'[t], ModeOf(t))
    BY <1>3, <1>now, <1>t, <2>1, CreateEffect DEF Permitted
  <2> QED
    BY <1>3, <1>now, <2>1, <2>2, CreateEffect, StillPermitted
<1>4. ASSUME NEW t \in Threads, WriteTemp(t) PROVE PhasesAllowed'
  <2>1. UNCHANGED <<setting, profile>> /\ thread[t].pc = "write" /\ Goto(t, "rename")
    BY <1>4 DEF WriteTemp
  <2>2. Permitted(thread'[t], ModeOf(t))
    BY <1>now, <1>t, <1>pcs, <2>1, GotoEffect DEF Permitted
  <2> QED
    BY <1>now, <1>pcs, <2>1, <2>2, GotoEffect, StillPermitted
<1>5. ASSUME NEW t \in Threads, Rename(t) PROVE PhasesAllowed'
  <2>1. /\ UNCHANGED setting /\ profile' = temps[thread[t].temp]
        /\ thread[t].pc = "rename" /\ Return(t)
    BY <1>5 DEF Rename, UseMeasured
  <2>2. Fits(profile')
    BY <2>1, <1>now, <1>t DEF TextsWhole, At, Permitted
  <2>3. thread'[t].pc = "ready" /\ \A u \in Threads \ {t} : thread'[u] = thread[u]
    BY <2>1, <1>now, ReturnEffect DEF Aside
  <2>4. Permitted(thread'[t], ModeOf(t))
    BY <2>3 DEF Permitted
  <2> QED
    BY <2>1, <2>2, <2>3, <2>4, StillPermitted
<1>6. ASSUME NEW t \in Threads, PublishError(t) PROVE PhasesAllowed'
  <2>1. UNCHANGED <<setting, profile>> /\ (Kill(ProcessOf(t)) \/ Return(t))
    BY <1>6 DEF PublishError, UseMeasured
  <2>2. CASE Return(t)
    <3>1. thread'[t].pc = "ready" /\ \A u \in Threads \ {t} : thread'[u] = thread[u]
      BY <2>2, <1>now, ReturnEffect DEF Aside
    <3>2. Permitted(thread'[t], ModeOf(t))
      BY <3>1 DEF Permitted
    <3> QED
      BY <2>1, <3>1, <3>2, StillPermitted
  <2>3. CASE Kill(ProcessOf(t))
    BY <2>1, <2>3, <1>now, KillEffect, StillPermittedAll
  <2> QED
    BY <2>1, <2>2, <2>3
<1>7. ASSUME NEW t \in Threads, Store(t) PROVE PhasesAllowed'
  <2>1. UNCHANGED <<setting, profile>> /\ thread[t].pc = "store"
    BY <1>7 DEF Store, fileVars
  <2>2. CASE UseMeasured(t)
    <3>1. thread'[t].pc = "ready" /\ \A u \in Threads \ {t} : thread'[u] = thread[u]
      BY <2>2, <1>now, ReturnEffect DEF UseMeasured, Aside
    <3>2. Permitted(thread'[t], ModeOf(t))
      BY <3>1 DEF Permitted
    <3> QED
      BY <2>1, <3>1, <3>2, StillPermitted
  <2>3. CASE /\ thread'[t].pc = "create" /\ thread'[t].publishes = "tuning"
             /\ thread'[t].buffer = WithLine(profile, thread[t].line)
             /\ \A u \in Threads \ {t} : thread'[u] = thread[u]
    <3>1. /\ <<thread[t].line.tile, thread[t].line.shape>> \in Emittable
          /\ MayMeasure(ModeOf(t))
      BY <2>1, <1>t DEF Permitted
    <3>2. profile \in Files /\ Fits(profile)
      BY <1>now DEF TypeOK, PhasesAllowed
    <3>3. Fits(WithLine(profile, thread[t].line))
      BY <3>1, <3>2 DEF Fits, WithLine, Files
    <3>4. Permitted(thread'[t], ModeOf(t))
      BY <2>3, <3>1, <3>3 DEF Permitted
    <3> QED
      BY <2>1, <2>3, <3>4, StillPermitted
  <2> QED
    BY <1>7, <1>now, <2>2, <2>3, StoreEffect
<1>8. ASSUME NEW t \in Threads, StartTiming(t) PROVE PhasesAllowed'
  <2>1. UNCHANGED <<setting, profile>> /\ thread[t].pc = "measure"
    BY <1>8 DEF StartTiming, fileVars
  <2>2. Permitted(thread'[t], ModeOf(t))
    BY <1>8, <1>now, <1>t, <2>1, TimingEffect DEF Permitted
  <2> QED
    BY <1>8, <1>now, <2>1, <2>2, TimingEffect, StillPermitted
<1>9. ASSUME NEW t \in Threads, Measured(t) PROVE PhasesAllowed'
  <2>1. UNCHANGED <<setting, profile>> /\ thread[t].pc = "timing"
    BY <1>9 DEF Measured, fileVars
  <2>2. MayMeasure(ModeOf(t))
    BY <1>t, <2>1 DEF Permitted
  <2>3. Permitted(thread'[t], ModeOf(t))
    BY <1>9, <1>now, <2>2, MeasuredEffect, MeasuredFits DEF Permitted
  <2> QED
    BY <1>9, <1>now, <2>1, <2>3, MeasuredEffect, StillPermitted
<1>10. ASSUME Reconfigure PROVE PhasesAllowed'
  BY <1>10, StillPermittedAll DEF Reconfigure
<1>11. ASSUME NEW p \in Processes, Crash(p) PROVE PhasesAllowed'
  <2>1. UNCHANGED <<setting, profile>> /\ Kill(p)
    BY <1>11 DEF Crash, fileVars
  <2> QED
    BY <2>1, <1>now, KillEffect, StillPermittedAll
<1>12. CASE TimeBatch \/ UNCHANGED vars
  BY <1>12, StillPermittedAll DEF TimeBatch, vars, fileVars
<1> QED
  BY <1>1, <1>2, <1>3, <1>4, <1>5, <1>6, <1>7, <1>8, <1>9, <1>10, <1>11, <1>12
     DEF Next, Step

\* What a call keeps is kept for its own process and shape.
LEMMA RememberAllowed ==
    ASSUME TypeOK, ChoiceAllowed, UNCHANGED setting, NEW t \in Threads, NEW c,
           Remember(t, c), thread[t].shape \in Shapes,
           Allowed(c, ModeOf(t), thread[t].shape)
    PROVE  ChoiceAllowed'
<1> DEFINE p == ProcessOf(t)
           s == thread[t].shape
<1>1. cache \in [Processes -> [Shapes ->
                  [from: {"none", "disk", "near", "measured", "analytic"},
                   line: Lines, precision: Precisions \cup {None},
                   card: Cards \cup {NoCard}]]]
      /\ \A u \in Threads : ProcessOf(u) \in Processes
  BY ProcessTypes DEF TypeOK
<1>2. \A q \in Processes, r \in Shapes :
         cache'[q][r] = IF q = p /\ r = s THEN c ELSE cache[q][r]
  BY <1>1 DEF Remember
<1>3. \A u \in Threads : ProcessOf(u)' = ProcessOf(u) /\ ModeOf(u)' = ModeOf(u)
  BY DEF ModeOf, ProcessOf
<1>4. \A u \in Threads : ProcessOf(u) = p => ModeOf(u) = ModeOf(t)
  BY DEF ModeOf
<1>5. ASSUME NEW u \in Threads, NEW r \in Shapes
      PROVE  Allowed(cache'[ProcessOf(u)][r], ModeOf(u), r)
  <2>1. CASE ProcessOf(u) = p /\ r = s
    BY <2>1, <1>1, <1>2, <1>4
  <2>2. CASE ~(ProcessOf(u) = p /\ r = s)
    BY <2>2, <1>1, <1>2, ChoiceAllowedIs
  <2> QED
    BY <2>1, <2>2
<1> QED
  BY <1>3, <1>5 DEF ChoiceAllowed, Allowed

LEMMA ChoiceStep ==
    ASSUME WholeInv, PhasesAllowed, ChoiceAllowed, [Next]_vars
    PROVE  ChoiceAllowed'
<1>now. TypeOK /\ ShapesNamed /\ Fits(profile)
        /\ \A t \in Threads : Permitted(thread[t], ModeOf(t))
  BY DEF WholeInv, PhasesAllowed
<1>1. ASSUME UNCHANGED <<setting, cache>> PROVE ChoiceAllowed'
  <2>1. \A t \in Threads : ProcessOf(t)' = ProcessOf(t) /\ ModeOf(t)' = ModeOf(t)
    BY <1>1 DEF ProcessOf, ModeOf
  <2> QED
    BY <1>1, <2>1 DEF ChoiceAllowed
<1>2. ASSUME NEW t \in Threads, UNCHANGED setting, UseMeasured(t),
             \/ thread[t].pc = "store"
             \/ thread[t].pc \in {"write", "rename"} /\ thread[t].publishes = "tuning"
      PROVE  ChoiceAllowed'
  <2>1. MayMeasure(ModeOf(t)) /\ thread[t].shape \in Shapes
    BY <1>2, <1>now DEF Permitted, ShapesNamed, At
  <2>2. Allowed(Choice(t, "measured", thread[t].line), ModeOf(t), thread[t].shape)
    BY <2>1 DEF Allowed, Choice, MayMeasure
  <2> QED
    BY <1>2, <1>now, <2>1, <2>2, RememberAllowed DEF UseMeasured
<1>3. ASSUME NEW t \in Threads, LoadPersisted(t) PROVE ChoiceAllowed'
  <2>1. UNCHANGED setting /\ thread[t].pc = "load"
    BY <1>3 DEF LoadPersisted
  <2>2. thread[t].shape \in Shapes /\ MayUseCache(ModeOf(t))
    BY <2>1, <1>now DEF Permitted, ShapesNamed, At
  <2>3. ASSUME NEW l \in Persisted(t)
        PROVE  Allowed(Choice(t, "disk", l), ModeOf(t), thread[t].shape)
    <3>1. /\ l.shape = thread[t].shape /\ l.precision = thread[t].precision
          /\ l.card = thread[t].hw /\ l \in profile.lines
      BY DEF Persisted, PersistKey, Wanted
    <3>2. <<l.tile, thread[t].shape>> \in Emittable
      BY <3>1, <1>now DEF Fits
    <3>3. Distance[l.shape][thread[t].shape] <= 100
      <4>1. Distance[thread[t].shape][thread[t].shape] = 100
        BY <2>2, DistanceAssumption
      <4> QED
        BY <3>1, <4>1
    <3> QED
      BY <2>2, <3>1, <3>2, <3>3 DEF Allowed, Choice, MayUseCache
  <2> QED
    BY <1>1, <1>3, <1>now, <2>1, <2>2, <2>3, RememberAllowed DEF LoadPersisted
<1>4. ASSUME NEW t \in Threads, Borrow(t) PROVE ChoiceAllowed'
  <2>1. UNCHANGED setting /\ thread[t].pc = "borrow"
    BY <1>4 DEF Borrow
  <2>2. thread[t].shape \in Shapes
    BY <2>1, <1>now DEF ShapesNamed, At
  <2>3. ASSUME NEW l \in Nearest(t), MayUseCache(ModeOf(t))
        PROVE  Allowed(Choice(t, "near", l), ModeOf(t), thread[t].shape)
    BY <2>3 DEF Allowed, Choice, MayUseCache, Nearest, Borrowable, Reachable
  <2>4. Allowed(Choice(t, "analytic", NoLine), ModeOf(t), thread[t].shape)
    BY DEF Allowed, Choice
  <2> QED
    BY <1>4, <1>now, <2>1, <2>2, <2>3, <2>4, RememberAllowed DEF Borrow
<1>5. ASSUME NEW t \in Threads, Rename(t) PROVE ChoiceAllowed'
  BY <1>1, <1>2, <1>5 DEF Rename
<1>6. ASSUME NEW t \in Threads, PublishError(t) PROVE ChoiceAllowed'
  BY <1>1, <1>2, <1>6 DEF PublishError
<1>7. ASSUME NEW t \in Threads, Store(t) PROVE ChoiceAllowed'
  BY <1>1, <1>2, <1>7 DEF Store
<1>8. ASSUME NEW t \in Threads,
             \/ Check(t) \/ Read(t) \/ Probe(t) \/ CompileAgain(t)
             \/ CreateTemp(t) \/ WriteTemp(t) \/ AnswerFromCache(t)
             \/ \E s \in Shapes, precision \in setting.precisions :
                   Autotune(t, s, precision)
             \/ StartTiming(t) \/ Measured(t) \/ NotMeasured(t)
      PROVE  ChoiceAllowed'
  BY <1>1, <1>8 DEF Check, Read, Probe, CompileAgain, CreateTemp, WriteTemp,
     AnswerFromCache, Autotune, StartTiming, Measured, NotMeasured
<1>9. CASE \/ TimeBatch \/ Reconfigure \/ UNCHANGED vars
           \/ \E p \in Processes : Crash(p)
  BY <1>1, <1>9 DEF TimeBatch, Reconfigure, Crash, vars
<1> QED
  BY <1>3, <1>4, <1>5, <1>6, <1>7, <1>8, <1>9 DEF Next, Step

\* Every tile a process keeps was obtained as its tuning mode allows, and one from
\* the profile was measured for its precision and card, at a shape close enough.
THEOREM ChoicesAllowed == Spec => []ChoiceAllowed
<1>1. Init => PhasesAllowed /\ ChoiceAllowed
  <2> SUFFICES ASSUME Init PROVE PhasesAllowed /\ ChoiceAllowed
    OBVIOUS
  <2>1. \A t \in Threads : thread[t].pc = "check"
    BY DEF Init, Fresh
  <2>2. PhasesAllowed
    BY <2>1 DEF Init, PhasesAllowed, Fits, NoFile, Permitted
  <2>3. \A p \in Processes, s \in Shapes : cache[p][s].from = "none"
    BY DEF Init, NoChoice
  <2>4. \A t \in Threads : ProcessOf(t) \in Processes
    BY ProcessTypes DEF Init
  <2> QED
    BY <2>2, <2>3, <2>4 DEF ChoiceAllowed
<1> QED
  BY <1>1, WholeInductive, PhaseStep, ChoiceStep, PTL DEF Spec

----------------------------------------------------------------------------
(* The measurement *)

\* The samples of a slot can be put in order.
LEMMA OrderExists ==
    ASSUME NEW n \in Nat, NEW s \in [1..n -> Int]
    PROVE  \E p \in Bijection(1..n, 1..n) :
              \A i, j \in 1..n : i < j => s[p[i]] <= s[p[j]]
<1> DEFINE Before(i) == {j \in 1..n : s[j] < s[i] \/ (s[j] = s[i] /\ j < i)}
           rank == [i \in 1..n |-> Cardinality(Before(i)) + 1]
<1>1. ASSUME NEW i \in 1..n
      PROVE  /\ IsFiniteSet(Before(i)) /\ Cardinality(Before(i)) \in Nat
             /\ Cardinality(Before(i)) <= n - 1
  <2>1. IsFiniteSet(1..n) /\ Cardinality(1..n) = n
    BY FS_Interval
  <2>2. IsFiniteSet((1..n) \ {i}) /\ Cardinality((1..n) \ {i}) = n - 1
    BY <2>1, FS_RemoveElement
  <2>3. Before(i) \in SUBSET ((1..n) \ {i})
    OBVIOUS
  <2> QED
    BY <2>2, <2>3, FS_Subset, FS_CardinalityType
<1>2. ASSUME NEW i \in 1..n, NEW j \in 1..n, j \in Before(i)
      PROVE  rank[j] < rank[i]
  <2>1. Before(j) \in SUBSET Before(i)
    BY <1>2
  <2>2. Before(j) # Before(i)
    <3>1. j \notin Before(j)
      OBVIOUS
    <3> QED
      BY <3>1, <1>2
  <2> HIDE DEF Before
  <2>3. Cardinality(Before(j)) < Cardinality(Before(i))
    BY <2>1, <2>2, <1>1, FS_Subset
  <2> QED
    BY <2>3, <1>1
<1>3. \A i, j \in 1..n : i = j \/ i \in Before(j) \/ j \in Before(i)
  OBVIOUS
<1>4. rank \in [1..n -> 1..n]
  <2> HIDE DEF Before
  <2> QED
    BY <1>1
<1> HIDE DEF Before, rank
<1>5. rank \in Injection(1..n, 1..n)
  <2>1. ASSUME NEW i \in 1..n, NEW j \in 1..n, rank[i] = rank[j]
        PROVE  i = j
    <3>1. rank[i] \in Int
      BY <1>4
    <3>2. i \notin Before(j)
      BY <2>1, <3>1, <1>2
    <3>3. j \notin Before(i)
      BY <2>1, <3>1, <1>2
    <3> QED
      BY <3>2, <3>3, <1>3
  <2> QED
    BY <2>1, <1>4, Fun_IsInj
<1>6. rank \in Bijection(1..n, 1..n)
  <2>1. IsFiniteSet(1..n)
    BY FS_Interval
  <2>2. rank \in Surjection(1..n, 1..n)
    BY <1>5, <2>1, FS_Injection
  <2> QED
    BY <1>5, <2>2 DEF Bijection
<1> DEFINE p == Inverse(rank, 1..n, 1..n)
<1>7. p \in Bijection(1..n, 1..n) /\ \A i \in 1..n : p[i] \in 1..n /\ rank[p[i]] = i
  <2>1. p \in Bijection(1..n, 1..n) /\ \A i \in 1..n : p[rank[i]] = i
    BY <1>6, Fun_BijInverse
  <2> HIDE DEF p
  <2>2. p \in [1..n -> 1..n]
    BY <2>1 DEF Bijection, Injection
  <2>3. \A i \in 1..n : \E j \in 1..n : rank[j] = i
    BY <1>6 DEF Bijection, Surjection
  <2> QED
    BY <2>1, <2>2, <2>3
<1> HIDE DEF p
<1>8. ASSUME NEW i \in 1..n, NEW j \in 1..n, i < j
      PROVE  s[p[i]] <= s[p[j]]
  <2>1. p[j] \notin Before(p[i])
    <3> DEFINE a == p[i]  b == p[j]
    <3>1. a \in 1..n /\ b \in 1..n /\ rank[a] = i /\ rank[b] = j
      BY <1>7
    <3> HIDE DEF a, b
    <3>2. b \notin Before(a)
      BY <1>2, <1>8, <3>1
    <3> QED
      BY <3>2 DEF a, b
  <2> QED
    BY <2>1, <1>7 DEF Before
<1> QED
  BY <1>7, <1>8

\* and Order is such an order.
LEMMA Ordered ==
    ASSUME NEW n \in Nat, NEW s \in [1..n -> Int]
    PROVE  /\ Timer!Order(s) \in Bijection(1..n, 1..n)
           /\ \A i, j \in 1..n : i < j => s[Timer!Order(s)[i]] <= s[Timer!Order(s)[j]]
<1>1. DOMAIN s = 1..n
  OBVIOUS
<1>2. Timer!Bijection(1..n, 1..n) = Bijection(1..n, 1..n)
  BY DEF Timer!Bijection, Timer!Injection, Timer!Surjection, Timer!IsInjective,
     Bijection, Injection, Surjection, IsInjective
<1>3. PICK p \in Bijection(1..n, 1..n) :
              \A i, j \in 1..n : i < j => s[p[i]] <= s[p[j]]
  BY OrderExists
<1> QED
  BY <1>1, <1>2, <1>3 DEF Timer!Order

\* A permutation takes no more places than it has room for.
LEMMA PlacesCount ==
    ASSUME NEW n \in Nat, NEW p \in Bijection(1..n, 1..n),
           NEW A \in SUBSET (1..n), NEW a \in Nat, NEW b \in Nat, a <= b + 1,
           \A i \in 1..n : p[i] \in A => i \in a..b
    PROVE  Cardinality(A) \in Nat /\ Cardinality(A) <= b - a + 1
<1> DEFINE q == Inverse(p, 1..n, 1..n)
<1>1. q \in Bijection(1..n, 1..n) /\ \A i \in 1..n : q[p[i]] = i
  BY Fun_BijInverse
<1>2. \A x \in 1..n : q[x] \in 1..n /\ p[q[x]] = x
  <2> HIDE DEF q
  <2>1. p \in [1..n -> 1..n] /\ \A x \in 1..n : \E i \in 1..n : p[i] = x
    BY DEF Bijection, Injection, Surjection
  <2>2. q \in [1..n -> 1..n]
    BY <1>1, Fun_BijectionProperties
  <2> QED
    BY <1>1, <2>1, <2>2
<1> HIDE DEF q
<1> DEFINE f == [x \in A |-> q[x]]
<1>3. f \in Injection(A, a..b)
  <2>1. f \in [A -> a..b]
    BY <1>2
  <2>2. \A x, y \in A : f[x] = f[y] => x = y
    BY <1>2
  <2> HIDE DEF f
  <2> QED
    BY <2>1, <2>2, Fun_IsInj
<1>4. IsFiniteSet(a..b) /\ Cardinality(a..b) <= b - a + 1
  <2>1. a \in Int /\ b \in Int
    OBVIOUS
  <2>2. IsFiniteSet(a..b) /\ Cardinality(a..b) = IF a > b THEN 0 ELSE b - a + 1
    BY <2>1, FS_Interval
  <2> QED
    BY <2>1, <2>2
<1> HIDE DEF f
<1>5. IsFiniteSet(A) /\ Cardinality(A) <= Cardinality(a..b)
  BY <1>3, <1>4, FS_Injection
<1> QED
  BY <1>4, <1>5, FS_CardinalityType

\* The median of samples lies between the smallest and the largest of them and
\* splits them.
LEMMA MedianSplits ==
    ASSUME NEW n \in Nat \ {0}, NEW s \in [1..n -> Int], Len(s) = n
    PROVE  /\ Timer!Median(s) \in Int
           /\ \E i \in 1..n : s[i] <= Timer!Median(s)
           /\ \E i \in 1..n : s[i] >= Timer!Median(s)
           /\ 2 * Cardinality({i \in 1..n : s[i] < Timer!Median(s)}) <= n
           /\ 2 * Cardinality({i \in 1..n : s[i] > Timer!Median(s)}) <= n
<1> DEFINE p == Timer!Order(s)
           h == n \div 2
           m == Timer!Median(s)
<1>1. p \in Bijection(1..n, 1..n) /\ \A i, j \in 1..n : i < j => s[p[i]] <= s[p[j]]
  BY Ordered
<1>2. \A i \in 1..n : p[i] \in 1..n /\ s[p[i]] \in Int
  <2> HIDE DEF p
  <2>1. p \in [1..n -> 1..n]
    BY <1>1, Fun_BijectionProperties
  <2> QED
    BY <2>1
<1>3. m = IF n % 2 = 1 THEN s[p[h + 1]] ELSE (s[p[h]] + s[p[h + 1]]) \div 2
  <2>1. DOMAIN s = 1..n
    OBVIOUS
  <2>2. n % 2 = 1 => h + 1 \in 1..n
    BY Z3
  <2>3. n % 2 # 1 => h \in 1..n /\ h + 1 \in 1..n
    BY Z3
  <2> HIDE DEF h
  <2> QED
    BY <2>1, <2>2, <2>3 DEF Timer!Median, h
<1> HIDE DEF p, m
<1> DEFINE w == [i \in 1..n |-> s[p[i]]]
<1>ordered. w \in [1..n -> Int] /\ \A i, j \in 1..n : i < j => w[i] <= w[j]
  BY <1>1, <1>2
<1>places. \A i \in 1..n : w[i] = s[p[i]]
  OBVIOUS
<1> HIDE DEF w
<1> DEFINE c == h + 1
<1>4. PICK lo \in 1..n, hi \in 1..n :
         /\ m \in Int /\ w[lo] <= m /\ m <= w[hi]
         /\ 2 * (hi - 1) <= n /\ 2 * (n - lo) <= n
  <2>1. CASE n % 2 = 1
    <3>1. c \in 1..n /\ 2 * (c - 1) <= n /\ 2 * (n - c) <= n
      BY <2>1
    <3>2. m = w[c] /\ m \in Int
      BY <2>1, <3>1, <1>ordered, <1>places, <1>3
    <3> HIDE DEF c
    <3> QED
      BY <3>1, <3>2
  <2>2. CASE n % 2 # 1
    <3>1. h \in 1..n /\ c \in 1..n /\ h < c /\ 2 * (c - 1) <= n /\ 2 * (n - h) <= n
      BY <2>2
    <3>2. m = (w[h] + w[c]) \div 2
      BY <2>2, <3>1, <1>places, <1>3
    <3> HIDE DEF h, c
    <3>3. w[h] \in Int /\ w[c] \in Int /\ w[h] <= w[c]
      BY <3>1, <1>ordered
    <3>4. m \in Int /\ w[h] <= m /\ m <= w[c]
      BY <3>2, <3>3
    <3> QED
      BY <3>1, <3>4
  <2> QED
    BY <2>1, <2>2
<1>below. ASSUME NEW i \in 1..n, w[i] < m PROVE i < hi
  <2>1. CASE hi < i
    <3>1. w[hi] <= w[i] /\ w[hi] \in Int /\ w[i] \in Int
      BY <2>1, <1>ordered
    <3> QED
      BY <1>4, <1>below, <3>1
  <2>2. CASE hi = i
    BY <1>4, <1>below, <1>ordered, <2>2
  <2> QED
    BY <2>1, <2>2
<1>above. ASSUME NEW i \in 1..n, w[i] > m PROVE i > lo
  <2>1. CASE i < lo
    <3>1. w[i] <= w[lo] /\ w[lo] \in Int /\ w[i] \in Int
      BY <2>1, <1>ordered
    <3> QED
      BY <1>4, <1>above, <3>1
  <2>2. CASE i = lo
    BY <1>4, <1>above, <1>ordered, <2>2
  <2> QED
    BY <2>1, <2>2
<1>5. \E i \in 1..n : s[i] <= m
  BY <1>2, <1>4, <1>places
<1>6. \E i \in 1..n : s[i] >= m
  BY <1>2, <1>4, <1>places
<1>7. 2 * Cardinality({i \in 1..n : s[i] < m}) <= n
  <2> DEFINE A == {i \in 1..n : s[i] < m}
  <2>1. A \in SUBSET (1..n) /\ \A i \in 1..n : p[i] \in A => i \in 1..(hi - 1)
    BY <1>below, <1>places
  <2> HIDE DEF A
  <2>2. Cardinality(A) \in Nat /\ Cardinality(A) <= (hi - 1) - 1 + 1
    <3>1. n \in Nat /\ 1 \in Nat /\ hi - 1 \in Nat /\ 1 <= (hi - 1) + 1
      OBVIOUS
    <3> QED
      BY <2>1, <3>1, <1>1, PlacesCount
  <2> QED
    BY <2>2, <1>4 DEF A
<1>8. 2 * Cardinality({i \in 1..n : s[i] > m}) <= n
  <2> DEFINE A == {i \in 1..n : s[i] > m}
  <2>1. A \in SUBSET (1..n) /\ \A i \in 1..n : p[i] \in A => i \in (lo + 1)..n
    BY <1>above, <1>places
  <2> HIDE DEF A
  <2>2. Cardinality(A) \in Nat /\ Cardinality(A) <= n - (lo + 1) + 1
    <3>1. n \in Nat /\ lo + 1 \in Nat /\ lo + 1 <= n + 1
      OBVIOUS
    <3> QED
      BY <2>1, <3>1, <1>1, PlacesCount
  <2> QED
    BY <2>2, <1>4 DEF A
<1> QED
  BY <1>4, <1>5, <1>6, <1>7, <1>8 DEF m

\* Division.  The quotient and the remainder are what they should be,
LEMMA DivMod ==
    ASSUME NEW n \in Int, NEW k \in Nat \ {0}
    PROVE  /\ n \div k \in Int /\ n % k \in 0..(k - 1)
           /\ n = k * (n \div k) + (n % k)
BY Z3

\* nothing between -k and k but 0 is a multiple of k, so that
LEMMA NoMultiple ==
    ASSUME NEW k \in Nat \ {0}, NEW d \in Int, k * d < k, 0 - k < k * d
    PROVE  d = 0
<1>1. CASE d >= 1
  BY <1>1, Z3
<1>2. CASE d <= 0 - 1
  BY <1>2, Z3
<1> QED
  BY <1>1, <1>2

\* they are the only such numbers.
LEMMA Unique ==
    ASSUME NEW n \in Int, NEW k \in Nat \ {0}, NEW q \in Int, NEW r \in 0..(k - 1),
           n = k * q + r
    PROVE  n \div k = q /\ n % k = r
<1> DEFINE a == n \div k  b == n % k
<1>1. a \in Int /\ b \in 0..(k-1) /\ n = k * a + b
  BY DivMod
<1> HIDE DEF a, b
<1>2. k * (a - q) = r - b
  <2>1. k * a \in Int /\ k * q \in Int /\ k * (a - q) = k * a - k * q
    BY <1>1, Z3
  <2> QED
    BY <1>1, <2>1
<1>3. a - q = 0
  BY <1>1, <1>2, NoMultiple
<1>4. a = q
  BY <1>1, <1>3
<1> QED
  BY <1>1, <1>4 DEF a, b

\* Counting on by one.
LEMMA NextMultiple ==
    ASSUME NEW n \in Int, NEW k \in Nat \ {0}
    PROVE  IF (n % k) + 1 = k
           THEN (n + 1) % k = 0 /\ (n + 1) \div k = (n \div k) + 1
           ELSE (n + 1) % k = (n % k) + 1 /\ (n + 1) \div k = n \div k
<1> DEFINE a == n \div k  b == n % k
<1>1. a \in Int /\ b \in 0..(k - 1) /\ n = k * a + b
  BY DivMod
<1> HIDE DEF a, b
<1>2. CASE b + 1 = k
  <2>1. n + 1 = k * (a + 1) + 0
    <3>1. k * (a + 1) = k * a + k /\ k * a \in Int
      BY <1>1, Z3
    <3> QED
      BY <1>1, <1>2, <3>1
  <2>2. n + 1 \in Int /\ a + 1 \in Int /\ 0 \in 0..(k - 1)
    BY <1>1
  <2>3. (n + 1) \div k = a + 1 /\ (n + 1) % k = 0
    BY <2>1, <2>2, Unique
  <2> QED
    BY <1>2, <2>3 DEF a, b
<1>3. CASE b + 1 # k
  <2>1. n + 1 = k * a + (b + 1)
    <3>1. k * a \in Int
      BY <1>1
    <3> QED
      BY <1>1, <3>1
  <2>2. n + 1 \in Int /\ b + 1 \in 0..(k - 1)
    BY <1>1, <1>3
  <2>3. (n + 1) \div k = a /\ (n + 1) % k = b + 1
    BY <1>1, <2>1, <2>2, Unique
  <2> QED
    BY <1>3, <2>3 DEF a, b
<1> QED
  BY <1>2, <1>3

\* The place of a slot in the present round, the batches of it that are timed, the
\* rounds that are begun, the share of them a slot opens, and those it opened.
Place(s) == (s - round) % slots
Timed(s) == round + (IF Place(s) < offset THEN 1 ELSE 0)
Begun == IF offset = 0 THEN round ELSE round + 1
Share(s) == (Begun \div slots) + (IF s < Begun % slots THEN 1 ELSE 0)
OpenedBy(s) == {i \in 1..Len(log) : (i - 1) % slots = 0 /\ log[i] = s}

TimerTypes ==
    /\ slots \in Nat \ {0} /\ rounds \in Nat
    /\ round \in Nat /\ offset \in 0..(slots - 1)
    /\ samples \in [0..(slots - 1) -> Seq(Times)]
    /\ log \in Seq(0..(slots - 1))
    /\ state \in {"idle", "running", "done", "error"}

\* The loops have rotated through the slots.
Rotating ==
    /\ \A s \in 0..(slots - 1) : Len(samples[s]) = Timed(s)
    /\ Len(log) % slots = offset
    /\ \A s \in 0..(slots - 1) :
          IsFiniteSet(OpenedBy(s)) /\ Cardinality(OpenedBy(s)) = Share(s)
    /\ state = "done" => round = rounds /\ offset = 0

TimerInv == TimerTypes /\ Rotating

\* What a step of the module does to the measurement.
LEMMA TimerSteps ==
    ASSUME TypeOK, [Next]_vars
    PROVE  \/ TimerReset \/ UNCHANGED timerVars
           \/ \E r \in Requests : Timer!Start(r[1], r[2])
           \/ Timer!Time \/ Timer!TimeError
<1>1. ASSUME NEW t \in Threads,
             \/ Check(t) \/ Read(t) \/ Probe(t) \/ CompileAgain(t)
             \/ CreateTemp(t) \/ WriteTemp(t) \/ AnswerFromCache(t)
             \/ \E s \in Shapes, precision \in setting.precisions :
                   Autotune(t, s, precision)
             \/ LoadPersisted(t) \/ Borrow(t)
      PROVE  UNCHANGED timerVars
  BY <1>1 DEF Check, Read, Probe, CompileAgain, CreateTemp, WriteTemp,
     AnswerFromCache, Autotune, LoadPersisted, Borrow
<1>2. ASSUME NEW t \in Threads, Rename(t) \/ PublishError(t) \/ Store(t)
      PROVE  TimerReset \/ UNCHANGED timerVars
  <2>1. CASE Rename(t)
    BY <2>1 DEF Rename, UseMeasured
  <2>2. CASE PublishError(t)
    BY <2>2 DEF PublishError, UseMeasured, Kill
  <2>3. CASE Store(t)
    BY <2>3 DEF Store, UseMeasured
  <2> QED
    BY <1>2, <2>1, <2>2, <2>3
<1>3. ASSUME NEW t \in Threads, StartTiming(t)
      PROVE  \E r \in Requests : Timer!Start(r[1], r[2])
  BY <1>3, SettingsAssumption DEF StartTiming, TypeOK
<1>4. ASSUME NEW t \in Threads, Measured(t) \/ NotMeasured(t)
      PROVE  TimerReset \/ UNCHANGED timerVars
  BY <1>4 DEF Measured, NotMeasured
<1>5. CASE TimeBatch
  BY <1>5 DEF TimeBatch
<1>6. CASE \/ Reconfigure \/ UNCHANGED vars
           \/ \E p \in Processes : Crash(p)
  BY <1>6 DEF Reconfigure, Crash, Kill, vars
<1> QED
  BY <1>1, <1>2, <1>3, <1>4, <1>5, <1>6 DEF Next, Step

\* A measurement that has taken nothing yet, of n slots and r rounds.
LEMMA TimerFresh ==
    ASSUME NEW n \in Nat \ {0}, NEW r \in Nat,
           slots' = n /\ rounds' = r /\ round' = 0 /\ offset' = 0,
           samples' = [s \in 0..(n - 1) |-> <<>>], log' = <<>>,
           state' \in {"idle", "running"} \/ (state' = "done" /\ r = 0)
    PROVE  TimerInv'
<1>1. TimerTypes'
  BY DEF TimerTypes
<1>2. 0 \div n = 0 /\ 0 % n = 0
  BY Z3
<1>3. \A s \in 0..(n - 1) : samples'[s] = <<>> /\ Len(samples'[s]) = 0
  OBVIOUS
<1>4. \A s \in 0..(n - 1) : Timed(s)' = 0
  <2>1. \A s \in 0..(n - 1) : (s - 0) % n \in 0..(n - 1)
    BY DivMod
  <2> QED
    BY <2>1 DEF Timed, Place
<1>5. Len(log') = 0 /\ (\A s : OpenedBy(s)' = {})
  BY DEF OpenedBy
<1>6. \A s \in 0..(n - 1) : Share(s)' = 0
  BY <1>2 DEF Share, Begun
<1> QED
  BY <1>1, <1>2, <1>3, <1>4, <1>5, <1>6, FS_EmptySet DEF TimerInv, Rotating


\* Initially nothing has been timed.
LEMMA TimerStart == Init => TimerInv
<1> SUFFICES ASSUME Init PROVE TimerInv
  OBVIOUS
<1>1. /\ slots = 1 /\ rounds = 0 /\ round = 0 /\ offset = 0
      /\ samples = [s \in 0..0 |-> <<>>] /\ log = <<>> /\ state = "idle"
  BY DEF Init, Timer!Init, Timer!Slots
<1>2. TimerTypes
  BY <1>1 DEF TimerTypes
<1>3. Len(samples[0]) = 0 /\ Len(log) = 0 /\ (\A s : OpenedBy(s) = {})
  BY <1>1 DEF OpenedBy
<1>4. Timed(0) = 0 /\ Share(0) = 0
  BY <1>1 DEF Timed, Place, Share, Begun
<1>5. Len(log) % slots = offset
  BY <1>1, <1>3
<1> QED
  BY <1>1, <1>2, <1>3, <1>4, <1>5, FS_EmptySet DEF TimerInv, Rotating

\* The slot at the loops' position is the one whose place that is.
LEMMA Rotated ==
    ASSUME TimerTypes, NEW s \in 0..(slots - 1)
    PROVE  /\ Place(s) \in 0..(slots - 1)
           /\ Place(s) = offset <=> s = (offset + round) % slots
<1>1. slots \in Nat \ {0} /\ offset \in 0..(slots - 1) /\ round \in Int
  BY DEF TimerTypes
<1>2. Place(s) \in 0..(slots - 1)
  BY <1>1, DivMod DEF Place
<1>3. ASSUME Place(s) = offset PROVE s = (offset + round) % slots
  <2> DEFINE a == (s - round) \div slots
  <2>1. a \in Int /\ s - round = slots * a + offset
    BY <1>1, <1>3, DivMod DEF Place
  <2> HIDE DEF a
  <2>2. offset + round = slots * (0 - a) + s
    <3>1. slots * (0 - a) = 0 - slots * a /\ slots * a \in Int
      BY <1>1, <2>1, Z3
    <3> QED
      BY <1>1, <2>1, <3>1
  <2>3. offset + round \in Int /\ 0 - a \in Int
    BY <1>1, <2>1
  <2> QED
    BY <1>1, <2>2, <2>3, Unique
<1>4. ASSUME s = (offset + round) % slots PROVE Place(s) = offset
  <2> DEFINE a == (offset + round) \div slots
  <2>1. a \in Int /\ offset + round = slots * a + s
    BY <1>1, <1>4, DivMod
  <2> HIDE DEF a
  <2>2. s - round = slots * (0 - a) + offset
    <3>1. slots * (0 - a) = 0 - slots * a /\ slots * a \in Int
      BY <1>1, <2>1, Z3
    <3> QED
      BY <1>1, <2>1, <3>1
  <2>3. s - round \in Int /\ 0 - a \in Int
    BY <1>1, <2>1
  <2> QED
    BY <1>1, <2>2, <2>3, Unique DEF Place
<1> QED
  BY <1>2, <1>3, <1>4

\* The two loops, as one pair of counters.
LEMMA LoopsAdvance ==
    ASSUME TimerTypes, Timer!Time
    PROVE  IF offset + 1 = slots THEN offset' = 0 /\ round' = round + 1
           ELSE offset' = offset + 1 /\ round' = round
<1>1. slots \in Nat \ {0} /\ offset \in 0..(slots - 1) /\ offset \in Int
  BY DEF TimerTypes
<1>2. /\ offset' = (offset + 1) % slots
      /\ round' = IF offset + 1 = slots THEN round + 1 ELSE round
  BY DEF Timer!Time
<1>3. offset % slots = offset
  <2>1. offset = slots * 0 + offset /\ 0 \in Int
    BY <1>1
  <2> QED
    BY <2>1, <1>1, Unique
<1>4. IF (offset % slots) + 1 = slots THEN (offset + 1) % slots = 0
      ELSE (offset + 1) % slots = (offset % slots) + 1
  BY <1>1, NextMultiple
<1> QED
  BY <1>2, <1>3, <1>4

\* A batch is timed: the slot at the loops' position gets one more sample.
LEMMA TimeTimed ==
    ASSUME TimerInv, Timer!Time
    PROVE  /\ TimerTypes'
           /\ \A s \in 0..(slots - 1) : Len(samples[s])' = Timed(s)'
<1> DEFINE here == (offset + round) % slots
<1>1. /\ slots \in Nat \ {0} /\ round \in Nat /\ offset \in 0..(slots - 1)
      /\ slots' = slots /\ rounds' = rounds /\ rounds \in Nat
      /\ samples \in [0..(slots - 1) -> Seq(Times)] /\ log \in Seq(0..(slots - 1))
  BY DEF TimerInv, TimerTypes, Timer!Time
<1>2. here \in 0..(slots - 1)
  BY <1>1, DivMod
<1>3. PICK us \in Times : samples' = [samples EXCEPT ![here] = Append(@, us)]
  BY DEF Timer!Time, Timer!Slot
<1>4. IF offset + 1 = slots THEN offset' = 0 /\ round' = round + 1
      ELSE offset' = offset + 1 /\ round' = round
  BY LoopsAdvance DEF TimerInv
<1>5. log' = Append(log, here) /\ state' \in {"running", "done"}
  BY DEF Timer!Time, Timer!Slot
<1> HIDE DEF here
<1>6. TimerTypes'
  <2>1. samples' \in [0..(slots - 1) -> Seq(Times)]
    BY <1>1, <1>2, <1>3
  <2>2. log' \in Seq(0..(slots - 1))
    BY <1>1, <1>2, <1>5
  <2>3. round' \in Nat /\ offset' \in 0..(slots - 1)
    BY <1>1, <1>4
  <2> QED
    BY <1>1, <1>5, <2>1, <2>2, <2>3 DEF TimerTypes
<1>7. ASSUME NEW s \in 0..(slots - 1) PROVE Len(samples'[s]) = Timed(s)'
  <2>1. Place(s) \in 0..(slots - 1) /\ (Place(s) = offset <=> s = here)
    BY Rotated DEF TimerInv, here
  <2>2. Len(samples[s]) = round + (IF Place(s) < offset THEN 1 ELSE 0)
    BY DEF TimerInv, Rotating, Timed
  <2>3. Len(samples'[s]) = Len(samples[s]) + (IF s = here THEN 1 ELSE 0)
    BY <1>1, <1>2, <1>3
  <2>4. CASE offset + 1 # slots
    <3>1. Place(s)' = Place(s)
      BY <2>4, <1>1, <1>4 DEF Place
    <3>2. Timed(s)' = round + (IF Place(s) < offset + 1 THEN 1 ELSE 0)
      BY <2>4, <1>4, <3>1 DEF Timed
    <3> QED
      BY <3>2, <2>1, <2>2, <2>3, <1>1
  <2>5. CASE offset + 1 = slots
    <3>1. (Place(s) \in 0..(slots - 1))'
      BY <1>1, <2>5, <1>4, DivMod DEF Place
    <3>2. Timed(s)' = round + 1
      BY <2>5, <3>1, <1>4, <1>1 DEF Timed
    <3> QED
      BY <3>2, <2>5, <2>1, <2>2, <2>3, <1>1
  <2> QED
    BY <2>4, <2>5
<1> QED
  BY <1>1, <1>6, <1>7

\* One more round falls to the slot that opens it.
LEMMA OneMore ==
    ASSUME NEW k \in Nat \ {0}, NEW R \in Nat, NEW s \in 0..(k - 1)
    PROVE  ((R + 1) \div k) + (IF s < (R + 1) % k THEN 1 ELSE 0) =
             (R \div k) + (IF s < R % k THEN 1 ELSE 0) + (IF s = R % k THEN 1 ELSE 0)
<1>1. R \div k \in Int /\ R % k \in 0..(k - 1)
  BY DivMod
<1>2. IF (R % k) + 1 = k
      THEN (R + 1) % k = 0 /\ (R + 1) \div k = (R \div k) + 1
      ELSE (R + 1) % k = (R % k) + 1 /\ (R + 1) \div k = R \div k
  <2>1. R \in Int
    OBVIOUS
  <2> QED
    BY <2>1, NextMultiple
<1> DEFINE a == R \div k  b == R % k  c == (R + 1) \div k  d == (R + 1) % k
<1> HIDE DEF a, b, c, d
<1>3. a \in Int /\ b \in 0..(k - 1)
      /\ IF b + 1 = k THEN d = 0 /\ c = a + 1 ELSE d = b + 1 /\ c = a
  BY <1>1, <1>2 DEF a, b, c, d
<1>4. c + (IF s < d THEN 1 ELSE 0) =
        a + (IF s < b THEN 1 ELSE 0) + (IF s = b THEN 1 ELSE 0)
  BY <1>3
<1> QED
  BY <1>4 DEF a, b, c, d

\* A batch is timed: a new round is opened by the slot at the loops' position.
LEMMA TimeOpened ==
    ASSUME TimerInv, Timer!Time
    PROVE  /\ (Len(log) % slots)' = offset'
           /\ \A s \in 0..(slots - 1) :
                 IsFiniteSet(OpenedBy(s)') /\ Cardinality(OpenedBy(s)') = Share(s)'
<1> DEFINE here == (offset + round) % slots
<1>1. /\ slots \in Nat \ {0} /\ round \in Nat /\ offset \in 0..(slots - 1)
      /\ slots' = slots /\ log \in Seq(0..(slots - 1)) /\ Len(log) \in Nat
      /\ Len(log) % slots = offset
  BY DEF TimerInv, TimerTypes, Rotating, Timer!Time
<1>2. here \in 0..(slots - 1) /\ log' = Append(log, here)
  <2>1. here \in 0..(slots - 1)
    BY <1>1, DivMod
  <2> QED
    BY <2>1 DEF Timer!Time, Timer!Slot
<1>3. IF offset + 1 = slots THEN offset' = 0 /\ round' = round + 1
      ELSE offset' = offset + 1 /\ round' = round
  BY LoopsAdvance DEF TimerInv
<1>4. (Len(log) % slots)' = offset'
  <2>1. Len(log') = Len(log) + 1
    BY <1>1, <1>2
  <2>2. IF offset + 1 = slots THEN (Len(log) + 1) % slots = 0
        ELSE (Len(log) + 1) % slots = offset + 1
    <3>1. Len(log) \in Int /\ slots \in Nat \ {0}
      BY <1>1
    <3>2. IF (Len(log) % slots) + 1 = slots THEN (Len(log) + 1) % slots = 0
          ELSE (Len(log) + 1) % slots = (Len(log) % slots) + 1
      BY <3>1, NextMultiple
    <3> QED
      BY <1>1, <3>2
  <2> QED
    BY <1>1, <1>3, <2>1, <2>2
<1>5. Begun \in Nat /\ Begun' = IF offset = 0 THEN Begun + 1 ELSE Begun
  BY <1>1, <1>3 DEF Begun
<1>6. offset = 0 => here = Begun % slots
  BY <1>1 DEF Begun
<1> HIDE DEF here
<1>7. ASSUME NEW s \in 0..(slots - 1)
      PROVE  IsFiniteSet(OpenedBy(s)') /\ Cardinality(OpenedBy(s)') = Share(s)'
  <2>1. IsFiniteSet(OpenedBy(s)) /\ Cardinality(OpenedBy(s)) = Share(s)
    BY DEF TimerInv, Rotating
  <2> DEFINE i == Len(log) + 1
  <2>2. Len(log') = i /\ (\A j \in 1..Len(log) : log'[j] = log[j]) /\ log'[i] = here
    BY <1>1, <1>2
  <2>3. i - 1 = Len(log) /\ i \in Int
    BY <1>1
  <2>4. OpenedBy(s)' = IF offset = 0 /\ s = here THEN OpenedBy(s) \cup {i} ELSE OpenedBy(s)
    <3> HIDE DEF i
    <3>1. OpenedBy(s)' = {j \in 1..i : (j - 1) % slots = 0 /\ log'[j] = s}
      BY <1>1, <2>2 DEF OpenedBy
    <3>2. 1..i = (1..Len(log)) \cup {i}
      BY <2>3, <1>1
    <3>3. (i - 1) % slots = offset
      BY <2>3, <1>1
    <3>4. \A j : j \in OpenedBy(s)' <=>
             \/ j \in 1..Len(log) /\ (j - 1) % slots = 0 /\ log[j] = s
             \/ j = i /\ offset = 0 /\ here = s
      BY <3>1, <3>2, <3>3, <2>2
    <3> QED
      BY <3>4 DEF OpenedBy
  <2>5. i \notin OpenedBy(s)
    BY <1>1 DEF OpenedBy
  <2> HIDE DEF i
  <2>6. Share(s)' = Share(s) + (IF offset = 0 /\ s = here THEN 1 ELSE 0)
    <3>1. ((Begun + 1) \div slots) + (IF s < (Begun + 1) % slots THEN 1 ELSE 0) =
             (Begun \div slots) + (IF s < Begun % slots THEN 1 ELSE 0)
             + (IF s = Begun % slots THEN 1 ELSE 0)
      BY <1>1, <1>5, OneMore
    <3>2. Begun \div slots \in Int
      BY <1>1, <1>5
    <3>3. CASE offset = 0
      <4>1. Begun' = Begun + 1 /\ slots' = slots /\ here = Begun % slots
        BY <1>1, <1>5, <1>6, <3>3
      <4> QED
        BY <3>1, <3>3, <4>1 DEF Share
    <3>4. CASE offset # 0
      <4>1. Begun' = Begun /\ slots' = slots
        BY <1>1, <1>5, <3>4
      <4>2. Share(s)' = Share(s) /\ Share(s) \in Int
        BY <3>2, <4>1 DEF Share
      <4> QED
        BY <3>4, <4>2
    <3> QED
      BY <3>3, <3>4
  <2>7. IsFiniteSet(OpenedBy(s) \cup {i})
        /\ Cardinality(OpenedBy(s) \cup {i}) = Cardinality(OpenedBy(s)) + 1
    BY <2>1, <2>5, FS_AddElement
  <2>8. Share(s) \in Int
    BY <1>1, <1>5 DEF Share
  <2> QED
    BY <2>1, <2>4, <2>6, <2>7, <2>8
<1> QED
  BY <1>1, <1>4, <1>7

\* No step of the module disturbs the counts.
LEMMA TimerStep ==
    ASSUME TypeOK, TimerInv, [Next]_vars
    PROVE  TimerInv'
<1>1. CASE TimerReset
  <2>1. /\ slots' = 1 /\ rounds' = 0 /\ round' = 0 /\ offset' = 0 /\ log' = <<>>
        /\ samples' = [s \in 0..(1 - 1) |-> <<>>] /\ state' = "idle"
    BY <1>1 DEF TimerReset
  <2>2. 1 \in Nat \ {0} /\ 0 \in Nat
    OBVIOUS
  <2> QED
    BY <2>1, <2>2, TimerFresh
<1>2. CASE UNCHANGED timerVars
  BY <1>2 DEF timerVars, TimerInv, TimerTypes, Rotating, Timed, Place, OpenedBy,
     Share, Begun
<1>3. ASSUME NEW r \in Requests, Timer!Start(r[1], r[2]) PROVE TimerInv'
  <2>1. r[1] \in Nat \ {0} /\ r[2] \in Nat
    BY RequestsAssumption
  <2>2. /\ slots' = r[1] /\ rounds' = r[2] /\ round' = 0 /\ offset' = 0
        /\ samples' = [s \in 0..(r[1] - 1) |-> <<>>] /\ log' = <<>>
        /\ state' = IF r[2] = 0 THEN "done" ELSE "running"
    BY <1>3 DEF Timer!Start
  <2> DEFINE n == r[1]  k == r[2]
  <2>3. n \in Nat \ {0} /\ k \in Nat
    BY <2>1
  <2>4. /\ slots' = n /\ rounds' = k /\ round' = 0 /\ offset' = 0
        /\ samples' = [s \in 0..(n - 1) |-> <<>>] /\ log' = <<>>
        /\ state' \in {"idle", "running"} \/ (state' = "done" /\ k = 0)
    BY <2>2
  <2> HIDE DEF n, k
  <2> QED
    BY <2>3, <2>4, TimerFresh
<1>4. CASE Timer!Time
  <2>1. slots' = slots /\ rounds' = rounds
    BY <1>4 DEF Timer!Time
  <2>2. TimerTypes' /\ \A s \in 0..(slots - 1) : Len(samples[s])' = Timed(s)'
    BY <1>4, TimeTimed
  <2>3. /\ (Len(log) % slots)' = offset'
        /\ \A s \in 0..(slots - 1) :
              IsFiniteSet(OpenedBy(s)') /\ Cardinality(OpenedBy(s)') = Share(s)'
    BY <1>4, TimeOpened
  <2>4. state' = "done" => round' = rounds' /\ offset' = 0
    <3>1. IF offset + 1 = slots THEN offset' = 0 /\ round' = round + 1
          ELSE offset' = offset + 1 /\ round' = round
      BY <1>4, LoopsAdvance DEF TimerInv
    <3>2. state' = "done" => offset + 1 = slots /\ round + 1 = rounds
      BY <1>4 DEF Timer!Time
    <3> QED
      BY <2>1, <3>1, <3>2
  <2> QED
    BY <2>1, <2>2, <2>3, <2>4 DEF TimerInv, Rotating
<1>5. CASE Timer!TimeError
  BY <1>5 DEF Timer!TimeError, TimerInv, TimerTypes, Rotating, Timed, Place,
     OpenedBy, Share, Begun
<1> QED
  BY <1>1, <1>2, <1>3, <1>4, <1>5, TimerSteps

\* In every state the samples and the log are those of the loops' position.
LEMMA TimerInductive == Spec => []TimerInv
<1>1. Spec => []TypeOK
  <2>1. WholeInv => TypeOK
    BY DEF WholeInv
  <2> QED
    BY <2>1, WholeInductive, PTL
<1> QED
  BY <1>1, TimerStart, TimerStep, PTL DEF Spec

\* RoundRobin counts as this module does.
LEMMA SameCount ==
    ASSUME NEW S
    PROVE  Timer!Cardinality(S) = Cardinality(S)
BY DEF Timer!Cardinality, Cardinality

\* Slots that have had their turn are at most one batch, or one opening, ahead.
LEMMA TurnsFair ==
    ASSUME TimerInv
    PROVE  Timer!RoundsFair
<1>1. Timer!Slots = 0..(slots - 1) /\ slots \in Nat \ {0} /\ round \in Nat
  BY DEF Timer!Slots, TimerInv, TimerTypes
<1>2. ASSUME NEW s \in 0..(slots - 1), NEW t \in 0..(slots - 1)
      PROVE  Len(samples[s]) - Len(samples[t]) <= 1
  <2>1. Len(samples[s]) = Timed(s) /\ Len(samples[t]) = Timed(t)
    BY DEF TimerInv, Rotating
  <2>2. Timed(s) \in {round, round + 1} /\ Timed(t) \in {round, round + 1}
    BY <1>1 DEF Timed
  <2> QED
    BY <1>1, <2>1, <2>2
<1>3. ASSUME NEW s \in 0..(slots - 1), NEW t \in 0..(slots - 1)
      PROVE  Cardinality(OpenedBy(s)) - Cardinality(OpenedBy(t)) <= 1
  <2> DEFINE q == Begun \div slots
  <2>1. q \in Int
    <3>1. Begun \in Int
      BY <1>1 DEF Begun
    <3> QED
      BY <1>1, <3>1, DivMod
  <2>2. /\ Cardinality(OpenedBy(s)) = Share(s)
        /\ Cardinality(OpenedBy(t)) = Share(t)
    BY DEF TimerInv, Rotating
  <2>3. Share(s) \in {q, q + 1} /\ Share(t) \in {q, q + 1}
    BY <2>1 DEF Share
  <2> HIDE DEF q
  <2> QED
    BY <2>1, <2>2, <2>3
<1>4. \A s : Timer!Cardinality(OpenedBy(s)) = Cardinality(OpenedBy(s))
  BY SameCount
<1>5. \A s, t \in Timer!Slots :
         /\ Len(samples[s]) - Len(samples[t]) <= 1
         /\ Timer!Cardinality(OpenedBy(s)) - Timer!Cardinality(OpenedBy(t)) <= 1
  BY <1>1, <1>2, <1>3, <1>4
<1> QED
  BY <1>5 DEF Timer!RoundsFair, OpenedBy

\* What the samples of a slot come to once the loops have ended.
LEMMA TurnsSound ==
    ASSUME TimerInv
    PROVE  Timer!TimingSound
<1> SUFFICES ASSUME state = "done", rounds > 0, NEW s \in 0..(slots - 1)
             PROVE  LET v == samples[s]
                        t == Timer!TimingOf(v)
                        below == Timer!Cardinality({i \in 1..rounds : v[i] < t.median})
                        above == Timer!Cardinality({i \in 1..rounds : v[i] > t.median}) IN
                    /\ Len(v) = rounds
                    /\ t.best <= t.median /\ t.median <= t.max
                    /\ 2 * below <= rounds /\ 2 * above <= rounds
  BY DEF Timer!TimingSound, Timer!Slots
<1> DEFINE v == samples[s]
           t == Timer!TimingOf(v)
<1>1. slots \in Nat \ {0} /\ rounds \in Nat /\ round = rounds /\ offset = 0
  BY DEF TimerInv, TimerTypes, Rotating
<1>2. v \in Seq(Times) /\ Len(v) = rounds
  <2>1. v \in Seq(Times) /\ Len(v) = Timed(s)
    BY DEF TimerInv, TimerTypes, Rotating
  <2>2. Place(s) \in 0..(slots - 1)
    BY Rotated DEF TimerInv
  <2> QED
    BY <1>1, <2>1, <2>2 DEF Timed
<1> HIDE DEF v
<1>3. v \in [1..rounds -> Int] /\ rounds \in Nat \ {0} /\ DOMAIN v = 1..rounds
  <2>1. Times \subseteq Int
    BY TimesAssumption
  <2>2. v \in [1..rounds -> Times]
    BY <1>2
  <2>3. rounds \in Nat \ {0}
    BY <1>1
  <2>4. v \in [1..rounds -> Int] /\ DOMAIN v = 1..rounds
    BY <2>1, <2>2
  <2> QED
    BY <2>3, <2>4
<1> DEFINE m == Timer!Median(v)
<1>4. /\ m \in Int
      /\ \E i \in 1..rounds : v[i] <= m
      /\ \E i \in 1..rounds : v[i] >= m
      /\ 2 * Cardinality({i \in 1..rounds : v[i] < m}) <= rounds
      /\ 2 * Cardinality({i \in 1..rounds : v[i] > m}) <= rounds
  BY <1>2, <1>3, MedianSplits
<1>5. t.median = m
  BY DEF Timer!TimingOf
<1>6. t.best <= m /\ m <= t.max
  <2> DEFINE S == Timer!ToSet(v)
  <2>1. S = {v[i] : i \in 1..rounds}
    BY <1>3 DEF Timer!ToSet
  <2>2. PICK p \in Bijection(1..rounds, 1..rounds) :
           \A i, j \in 1..rounds : i < j => v[p[i]] <= v[p[j]]
    BY <1>1, <1>3, OrderExists
  <2>3. /\ \A i \in 1..rounds : p[i] \in 1..rounds
        /\ \A k \in 1..rounds : \E i \in 1..rounds : p[i] = k
    BY DEF Bijection, Injection, Surjection
  <2>4. 1 \in 1..rounds /\ rounds \in 1..rounds
    BY <1>3
  <2> DEFINE first == v[p[1]]  last == v[p[rounds]]
  <2>5. ASSUME NEW k \in 1..rounds PROVE first <= v[k] /\ v[k] <= last
    <3>1. PICK i \in 1..rounds : p[i] = k
      BY <2>3
    <3>2. v[k] \in Int
      BY <1>3
    <3>3. (i = 1 \/ 1 < i) /\ (i = rounds \/ i < rounds)
      BY <1>1
    <3> QED
      BY <2>2, <2>4, <3>1, <3>2, <3>3
  <2>6. p[1] \in 1..rounds /\ p[rounds] \in 1..rounds
    BY <2>3, <2>4
  <2>7. first \in S /\ last \in S /\ S \subseteq Int
    <3> HIDE DEF S
    <3> QED
      BY <2>1, <2>6, <1>3
  <2> HIDE DEF S, m, first, last
  <2>8. \A y \in S : first <= y /\ last >= y
    <3>1. ASSUME NEW k \in 1..rounds PROVE first <= v[k] /\ last >= v[k]
      <4>1. v[k] \in Int
        BY <1>3
      <4> QED
        BY <2>5, <2>7, <4>1
    <3> QED
      BY <2>1, <3>1
  <2>9. /\ t.best = CHOOSE x \in S : \A y \in S : x <= y
        /\ t.max = CHOOSE x \in S : \A y \in S : x >= y
    BY DEF Timer!TimingOf, S
  <2>10. t.best \in S /\ \A y \in S : t.best <= y
    BY <2>7, <2>8, <2>9
  <2>11. t.max \in S /\ \A y \in S : t.max >= y
    BY <2>7, <2>8, <2>9
  <2> DEFINE lo == t.best  hi == t.max
  <2>12. lo \in Int /\ hi \in Int /\ (\A y \in S : lo <= y) /\ (\A y \in S : hi >= y)
    BY <2>7, <2>10, <2>11
  <2> HIDE DEF t, lo, hi
  <2>13. \A i \in 1..rounds : v[i] \in S /\ v[i] \in Int
    BY <2>1, <1>3
  <2>14. lo <= m /\ m <= hi
    BY <1>4, <2>12, <2>13 DEF m
  <2> QED
    BY <2>14 DEF lo, hi
<1>7. /\ 2 * Timer!Cardinality({i \in 1..rounds : v[i] < m}) <= rounds
      /\ 2 * Timer!Cardinality({i \in 1..rounds : v[i] > m}) <= rounds
  BY <1>4, SameCount
<1> HIDE DEF m
<1> QED
  BY <1>2, <1>5, <1>6, <1>7 DEF v, t

\* Whatever threads and processes start, share or drop the measurement, it times
\* every kernel in turn, and what it reports of a kernel is a timing of its samples.
THEOREM MeasurementsSound == Spec => []MeasurementSound
<1>1. TimerInv => MeasurementSound
  BY TurnsFair, TurnsSound DEF MeasurementSound
<1> QED
  BY <1>1, TimerInductive, PTL
=============================================================================
