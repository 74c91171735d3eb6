--------------------------- MODULE SharedProfile ----------------------------
(***************************************************************************)
(* Compilations that share one .ysu_hw_profile: check_or_probe_hardware    *)
(* and write_profile_atomically of src/sentinel.rs, and Autotuner::autotune *)
(* with the tuning lines it keeps in the same file (src/autotuner.rs).     *)
(* A thread first obtains the hardware profile, then resolves tiles; every *)
(* file-system call is a step of its own.  The user may change the         *)
(* configuration (driver, card, governor) and delete the file, the         *)
(* documented way to have it probed again.                                 *)
(*                                                                         *)
(* A configuration is its card and its generation.  A file keeps whether   *)
(* it is whole, the probe it holds with its configuration, and its tuning  *)
(* lines; a tuning line is its key, its tile and the generation it was     *)
(* measured under.  What a measurement does is RoundRobin; which verified  *)
(* tile it settles on is GemmTuner.  A tile pinned by with_forced_config   *)
(* or Y_CTA_OVERRIDE is returned before any of this state is looked at.    *)
(***************************************************************************)
EXTENDS Integers, FiniteSets

CONSTANTS
    Threads, Cards, Shapes, Precisions, Tiles,
    NoCard, None,     \* "Unknown GPU" of an unread profile; nothing
    Distance,         \* the ratio by which two shapes differ at most, in percent
    TilesAt,          \* the tiles a measurement of a shape may settle on
    Emittable,        \* <<tile, shape>> that is_emittable accepts
    Settings,         \* the histories to look at, see SettingsAssumption
    Requests, Times,  \* of the measurement, see RoundRobin
    MaxGen,           \* bound on the changes of configuration
    MaxSerial         \* bound on NEXT of write_profile_atomically

Modes == {"cached", "analytic", "measure", "remeasure"}

ASSUME NamesAssumption == NoCard \notin Cards /\ None \notin Tiles
ASSUME BoundAssumption == MaxGen \in Nat /\ MaxSerial \in Nat
ASSUME DistanceAssumption == \A s \in Shapes : Distance[s][s] = 100
ASSUME RequestsAssumption == \A r \in Requests : r \in (Nat \ {0}) \X Nat
ASSUME TimesAssumption == \A t \in Times : t \in Nat /\ t % 2 = 0
ASSUME TilesAssumption ==
    \A s \in Shapes : TilesAt[s] \subseteq {t \in Tiles : <<t, s>> \in Emittable}

\* A setting says in which process a thread runs and how many calls it makes (a
\* bound), the mode of each process, the precisions asked for, the measurements
\* taken and what may fail.
ASSUME SettingsAssumption ==
    \A g \in Settings :
        /\ DOMAIN g.process = Threads
        /\ \A t \in Threads : g.mode[g.process[t]] \in Modes /\ g.calls[t] \in Nat
        /\ g.precisions \subseteq Precisions /\ g.requests \subseteq Requests
        /\ g.faults \subseteq {"io", "crash"}

VARIABLES
    setting,   \* the setting of this history
    config,    \* the machine's present configuration
    quiet,     \* the last deletion met nothing under way
    profile,   \* .ysu_hw_profile
    temps,     \* its temporary files, by process and number
    serial,    \* NEXT of every process
    cache,     \* AUTOTUNE_CACHE of every process
    thread,    \* where each thread is
    slots, rounds, round, offset, samples, log, state   \* the measurement

timerVars == <<slots, rounds, round, offset, samples, log, state>>
fileVars == <<profile, temps, serial>>
vars == <<setting, config, quiet, fileVars, cache, thread, timerVars>>

Timer == INSTANCE RoundRobin

Processes == {g.process[t] : g \in Settings, t \in Threads}
ProcessOf(t) == setting.process[t]
ModeOf(t) == setting.mode[ProcessOf(t)]
TempNames == Processes \X (0..MaxSerial)

MayUseCacheAlways(mode) == mode # "analytic"
MayUseCache(mode) == mode \in {"cached", "measure"}
MayMeasure(mode) == mode \in {"measure", "remeasure"}

----------------------------------------------------------------------------
(* Files and choices *)

Lines == [tile: Tiles \cup {None}, shape: Shapes \cup {None},
          precision: Precisions \cup {None}, card: Cards \cup {NoCard},
          gen: 0..MaxGen]

\* A missing file reads as an empty one, a torn one as the defaults.
NoFile == [content |-> "none", probed |-> FALSE, card |-> NoCard, gen |-> 0,
           lines |-> {}]
Torn == [NoFile EXCEPT !.content = "torn"]
Files == [content: {"none", "torn", "whole"}, probed: BOOLEAN,
          card: Cards \cup {NoCard}, gen: 0..MaxGen, lines: SUBSET Lines]

KeyWithoutCard(line) == <<line.shape, line.precision>>
\* persist_key: the card is part of the key.
PersistKey(line) == <<line.shape, line.precision, line.card>>

NoLine == [tile |-> None, shape |-> None, precision |-> None, card |-> NoCard, gen |-> 0]
\* The line a call of t asks for; its tile is not part of the key.
Wanted(t) == [tile |-> None, shape |-> thread[t].shape,
              precision |-> thread[t].precision, card |-> thread[t].hw, gen |-> 0]

\* load_persisted.
Persisted(t) == {l \in profile.lines : PersistKey(l) = PersistKey(Wanted(t))}

Reachable(line, s) == Distance[line.shape][s] <= 200
BorrowableAnyTile(t) ==
    {l \in profile.lines : /\ l.precision = thread[t].precision
                           /\ l.card = thread[t].hw
                           /\ Reachable(l, thread[t].shape)}
\* The lines load_persisted_nearest may borrow: same precision and card, every
\* dimension within 2x, and a tile codegen accepts at the requested K.
Borrowable(t) ==
    {l \in profile.lines : /\ l.precision = thread[t].precision
                           /\ l.card = thread[t].hw
                           /\ Reachable(l, thread[t].shape)
                           /\ <<l.tile, thread[t].shape>> \in Emittable}
Nearest(t) ==
    {l \in Borrowable(t) : \A k \in Borrowable(t) :
        Distance[l.shape][thread[t].shape] <= Distance[k.shape][thread[t].shape]}

\* A choice in the in-process cache: where it comes from, and for what it was made.
NoChoice == [from |-> "none", line |-> NoLine, precision |-> None, card |-> NoCard]
Choice(t, from, line) == [from |-> from, line |-> line,
                          precision |-> thread[t].precision, card |-> thread[t].hw]

----------------------------------------------------------------------------

Fresh(hw, calls) ==
    [pc |-> "ready", hw |-> hw, calls |-> calls, shape |-> None, precision |-> None,
     line |-> NoLine, since |-> 0, buffer |-> NoFile, temp |-> <<0, 0>>,
     publishes |-> "nothing"]

Become(t, record) == thread' = [thread EXCEPT ![t] = record]
Goto(t, pc) == Become(t, [thread[t] EXCEPT !.pc = pc])
\* The call of t returns.
Return(t) == Become(t, Fresh(thread[t].hw, thread[t].calls))
\* The samples are dropped when measure_round_robin has returned.
TimerReset ==
    /\ slots' = 1 /\ rounds' = 0 /\ round' = 0 /\ offset' = 0
    /\ samples' = [s \in {0} |-> <<>>] /\ log' = <<>> /\ state' = "idle"

\* Every result of autotune but the first two kinds is kept.
Remember(t, choice) ==
    cache' = [cache EXCEPT ![ProcessOf(t)][thread[t].shape] = choice]

Init ==
    /\ setting \in Settings
    /\ config \in [card: Cards, gen: {0}]
    /\ quiet = TRUE
    /\ profile = NoFile
    /\ temps = [n \in TempNames |-> NoFile]
    /\ serial = [p \in Processes |-> 0]
    /\ cache = [p \in Processes |-> [s \in Shapes |-> NoChoice]]
    /\ thread = [t \in Threads |-> [Fresh(NoCard, 0) EXCEPT !.pc = "check"]]
    /\ Timer!Init

----------------------------------------------------------------------------
(* check_or_probe_hardware *)

\* exists().
Check(t) ==
    /\ thread[t].pc = "check"
    /\ Goto(t, IF profile.content = "none" THEN "probe" ELSE "read")
    /\ UNCHANGED <<setting, config, quiet, fileVars, cache, timerVars>>

\* read_to_string: fields that are not there, all of them when the file has gone
\* or cannot be read, take their defaults.
Read(t) ==
    /\ thread[t].pc = "read"
    /\ \E hw \in {profile.card}
               \cup (IF "io" \in setting.faults THEN {NoCard} ELSE {}) :
          Become(t, [thread[t] EXCEPT !.pc = "ready", !.hw = hw])
    /\ UNCHANGED <<setting, config, quiet, fileVars, cache, timerVars>>

\* The probe, and the text of a new profile without tuning lines.  Without the GPU
\* probe's answer the card is unknown.
Probe(t) ==
    /\ thread[t].pc = "probe"
    /\ \E card \in {config.card}
                 \cup (IF "io" \in setting.faults THEN {NoCard} ELSE {}) :
          Become(t, [thread[t] EXCEPT
                       !.pc = "create", !.hw = card, !.publishes = "probe",
                       !.buffer = [content |-> "whole", probed |-> TRUE,
                                   card |-> card, gen |-> config.gen,
                                   lines |-> {}]])
    /\ UNCHANGED <<setting, config, quiet, fileVars, cache, timerVars>>

\* A C caller compiles again: the profile is looked up again.
CompileAgain(t) ==
    /\ thread[t].pc = "ready" /\ thread[t].calls < setting.calls[t]
    /\ Become(t, [thread[t] EXCEPT !.pc = "check", !.calls = @ + 1])
    /\ UNCHANGED <<setting, config, quiet, fileVars, cache, timerVars>>

----------------------------------------------------------------------------
(* write_profile_atomically *)

TempFixed(t) == <<ProcessOf(t), 0>>
\* The temporary of a call: this process and NEXT.fetch_add(1).
TempName(t) == <<ProcessOf(t), serial[ProcessOf(t)]>>

\* fs::write creates or empties the temporary.
CreateTemp(t) ==
    /\ thread[t].pc = "create"
    /\ serial[ProcessOf(t)] < MaxSerial
    /\ temps' = [temps EXCEPT ![TempName(t)] = Torn]
    /\ serial' = [serial EXCEPT ![ProcessOf(t)] = @ + 1]
    /\ Become(t, [thread[t] EXCEPT !.pc = "write", !.temp = TempName(t)])
    /\ UNCHANGED <<setting, config, quiet, profile, cache, timerVars>>

\* fs::write fills it.
WriteTemp(t) ==
    /\ thread[t].pc = "write"
    /\ temps' = [temps EXCEPT ![thread[t].temp] = thread[t].buffer]
    /\ Goto(t, "rename")
    /\ UNCHANGED <<setting, config, quiet, profile, serial, cache, timerVars>>

\* A process ends, with the measurement it was taking; its temporaries stay.
Kill(p) ==
    /\ thread' = [u \in Threads |-> IF ProcessOf(u) = p
                                    THEN [Fresh(NoCard, 0) EXCEPT !.pc = "dead"]
                                    ELSE thread[u]]
    /\ IF \E u \in Threads : ProcessOf(u) = p /\ thread[u].pc = "timing"
       THEN TimerReset ELSE UNCHANGED timerVars

\* A tuning result is used whether or not it could be saved.
UseMeasured(t) ==
    /\ Remember(t, Choice(t, "measured", thread[t].line))
    /\ Return(t)
    /\ UNCHANGED timerVars

\* fs::rename puts the new text in place of the file.
Rename(t) ==
    /\ thread[t].pc = "rename"
    /\ profile' = temps[thread[t].temp]
    /\ temps' = [temps EXCEPT ![thread[t].temp] = NoFile]
    /\ \/ /\ thread[t].publishes = "probe"
          /\ Return(t)
          /\ UNCHANGED <<cache, timerVars>>
       \/ /\ thread[t].publishes = "tuning"
          /\ UseMeasured(t)
    /\ UNCHANGED <<setting, config, quiet, serial>>

\* fs::write or fs::rename fails and the temporary is removed.  A profile that
\* cannot be saved panics.
PublishError(t) ==
    /\ "io" \in setting.faults
    /\ thread[t].pc \in {"write", "rename"}
    /\ temps' = [temps EXCEPT ![thread[t].temp] = NoFile]
    /\ \/ /\ thread[t].publishes = "probe"
          /\ Kill(ProcessOf(t))
          /\ UNCHANGED cache
       \/ /\ thread[t].publishes = "tuning"
          /\ UseMeasured(t)
    /\ UNCHANGED <<setting, config, quiet, profile, serial>>

----------------------------------------------------------------------------
(* autotune *)

HitToDisk(t, choice) ==
    Become(t, [thread[t] EXCEPT !.pc = "store", !.line = choice.line])
\* The in-process cache is looked up by shape alone, under its lock.
Hit(t, choice) == Return(t)

\* A call, up to its first look at the file or its answer from the cache.
Autotune(t, s, precision) ==
    LET choice == cache[ProcessOf(t)][s]
        next == IF MayUseCache(ModeOf(t)) THEN "load"
                ELSE IF MayMeasure(ModeOf(t)) THEN "measure" ELSE "borrow" IN
    /\ thread[t].pc = "ready" /\ thread[t].calls < setting.calls[t]
    /\ Become(t, [thread[t] EXCEPT
                    !.calls = @ + 1, !.shape = s, !.precision = precision,
                    !.pc = IF choice.from = "none" THEN next ELSE "hit"])
    /\ UNCHANGED <<setting, config, quiet, fileVars, cache, timerVars>>

AnswerFromCache(t) ==
    /\ thread[t].pc = "hit"
    /\ Hit(t, cache[ProcessOf(t)][thread[t].shape])
    /\ UNCHANGED <<setting, config, quiet, fileVars, cache, timerVars>>

\* load_persisted: the line of exactly this shape, precision and card.  A file
\* that cannot be read has none.
LoadPersisted(t) ==
    /\ thread[t].pc = "load"
    /\ \/ /\ \E l \in Persisted(t) : Remember(t, Choice(t, "disk", l))
          /\ Return(t)
       \/ /\ Persisted(t) = {} \/ "io" \in setting.faults
          /\ Goto(t, IF MayMeasure(ModeOf(t)) THEN "measure" ELSE "borrow")
          /\ UNCHANGED cache
    /\ UNCHANGED <<setting, config, quiet, fileVars, timerVars>>

\* tune_gemm_f16 starts to time its kernels.  One thread at a time measures.
StartTiming(t) ==
    /\ thread[t].pc = "measure"
    /\ \E r \in setting.requests : Timer!Start(r[1], r[2])
    /\ Become(t, [thread[t] EXCEPT !.pc = "timing", !.since = config.gen])
    /\ UNCHANGED <<setting, config, quiet, fileVars, cache>>

\* A batch of the measurement is timed, or fails.
TimeBatch ==
    /\ Timer!Time \/ Timer!TimeError
    /\ UNCHANGED <<setting, config, quiet, fileVars, cache, thread>>

\* The measurement names a tile.
Measured(t) ==
    /\ thread[t].pc = "timing" /\ state = "done"
    /\ \E tile \in TilesAt[thread[t].shape] :
          Become(t, [thread[t] EXCEPT
                       !.pc = "store",
                       !.line = [Wanted(t) EXCEPT !.tile = tile,
                                                  !.gen = thread[t].since]])
    /\ TimerReset
    /\ UNCHANGED <<setting, config, quiet, fileVars, cache>>

\* The measurement fails, or never starts: no device, no kernel.
NotMeasured(t) ==
    /\ \/ thread[t].pc = "timing" /\ state = "error" /\ TimerReset
       \/ thread[t].pc = "measure" /\ UNCHANGED timerVars
    /\ Goto(t, "borrow")
    /\ UNCHANGED <<setting, config, quiet, fileVars, cache>>

\* The text with the line of this key replaced or appended.
WithLine(file, line) ==
    [file EXCEPT !.content = "whole",
                 !.lines = {l \in @ : PersistKey(l) # PersistKey(line)} \cup {line}]

StoreAlways(t) ==
    /\ thread[t].pc = "store"
    /\ Become(t, [thread[t] EXCEPT
                    !.pc = "create", !.publishes = "tuning",
                    !.buffer = WithLine(profile, thread[t].line)])
    /\ UNCHANGED <<setting, config, quiet, fileVars, cache, timerVars>>
\* store_persisted reads the whole file to write it back.  A file that is gone or
\* unreadable is not created here: it would pass for a completed probe.
Store(t) ==
    /\ thread[t].pc = "store"
    /\ \/ /\ profile.content # "none"
          /\ Become(t, [thread[t] EXCEPT
                          !.pc = "create", !.publishes = "tuning",
                          !.buffer = WithLine(profile, thread[t].line)])
          /\ UNCHANGED <<cache, timerVars>>
       \/ /\ profile.content = "none" \/ "io" \in setting.faults
          /\ UseMeasured(t)
    /\ UNCHANGED <<setting, config, quiet, fileVars>>

\* load_persisted_nearest if the mode may use the file, else or failing that the
\* analytic model.
Borrow(t) ==
    /\ thread[t].pc = "borrow"
    /\ \/ /\ MayUseCache(ModeOf(t))
          /\ \E l \in Nearest(t) : Remember(t, Choice(t, "near", l))
       \/ /\ \/ MayUseCache(ModeOf(t)) => Borrowable(t) = {}
             \/ "io" \in setting.faults
          /\ Remember(t, Choice(t, "analytic", NoLine))
    /\ Return(t)
    /\ UNCHANGED <<setting, config, quiet, fileVars, timerVars>>

----------------------------------------------------------------------------
(* The environment *)

\* States from which t still publishes what it has probed, measured or read.
Publishing == {"timing", "store", "create", "write", "rename"}

\* The user changes the configuration and deletes the file.
Reconfigure ==
    /\ config.gen < MaxGen
    /\ \E c \in Cards : config' = [card |-> c, gen |-> config.gen + 1]
    /\ profile' = NoFile
    /\ quiet' = \A t \in Threads : thread[t].pc \notin Publishing
    /\ UNCHANGED <<setting, temps, serial, cache, thread, timerVars>>

\* A process is killed.
Crash(p) ==
    /\ "crash" \in setting.faults
    /\ \E t \in Threads : ProcessOf(t) = p /\ thread[t].pc # "dead"
    /\ Kill(p)
    /\ UNCHANGED <<setting, config, quiet, fileVars, cache>>

Step(t) ==
    \/ Check(t) \/ Read(t) \/ Probe(t) \/ CompileAgain(t)
    \/ CreateTemp(t) \/ WriteTemp(t) \/ Rename(t) \/ PublishError(t)
    \/ \E s \in Shapes, precision \in setting.precisions : Autotune(t, s, precision)
    \/ AnswerFromCache(t) \/ LoadPersisted(t) \/ StartTiming(t)
    \/ Measured(t) \/ NotMeasured(t) \/ Store(t) \/ Borrow(t)

Next == \/ \E t \in Threads : Step(t)
        \/ TimeBatch
        \/ Reconfigure
        \/ \E p \in Processes : Crash(p)

Spec == Init /\ [][Next]_vars

----------------------------------------------------------------------------
(* Properties *)

\* "no reader ever sees a partial file": whatever is under the name, put there by
\* a probe or by a tuning result, is whole and holds a complete hardware probe, so
\* that a compilation that skips its probe does not compile against defaults.
ProfileWhole ==
    profile # NoFile => profile.content = "whole" /\ profile.probed

\* "deleting it ... discards tuning results measured on the old configuration":
\* unless something was being published at that very moment, neither the old
\* probe nor an old measurement is in the file again.
DeleteDiscards ==
    quiet /\ profile # NoFile =>
        /\ profile.gen = config.gen
        /\ \A l \in profile.lines : l.gen = config.gen

\* Every tile a process keeps was obtained in a way its mode allows, and one that
\* comes from the file was measured for the precision and card it was asked for,
\* at the same shape or within 2x of it with a tile that codegen accepts there.
ChoiceAllowed ==
    \A t \in Threads, s \in Shapes :
        LET c == cache[ProcessOf(t)][s]
            mode == ModeOf(t) IN
        /\ mode = "analytic" => c.from \in {"none", "analytic"}
        /\ mode = "cached" => c.from # "measured"
        /\ mode = "remeasure" => c.from \notin {"disk", "near"}
        /\ c.from \in {"disk", "near"} =>
              /\ c.line.precision = c.precision /\ c.line.card = c.card
              /\ <<c.line.tile, s>> \in Emittable
              /\ Distance[c.line.shape][s] <= IF c.from = "disk" THEN 100 ELSE 200

\* Interleaving favours no kernel and yields timings that the screens accept.
MeasurementSound == Timer!RoundsFair /\ Timer!TimingSound

Pcs == {"ready", "check", "read", "probe", "create", "write", "rename", "hit",
        "load", "measure", "timing", "store", "borrow", "dead"}

TypeOK ==
    /\ setting \in Settings
    /\ config \in [card: Cards, gen: 0..MaxGen]
    /\ quiet \in BOOLEAN
    /\ profile \in Files
    /\ temps \in [TempNames -> Files]
    /\ serial \in [Processes -> 0..MaxSerial]
    /\ cache \in [Processes -> [Shapes ->
                   [from: {"none", "disk", "near", "measured", "analytic"},
                    line: Lines, precision: Precisions \cup {None},
                    card: Cards \cup {NoCard}]]]
    /\ thread \in [Threads ->
                   [pc: Pcs, hw: Cards \cup {NoCard}, calls: Nat,
                    shape: Shapes \cup {None}, precision: Precisions \cup {None},
                    line: Lines, since: 0..MaxGen, buffer: Files,
                    temp: TempNames \cup {<<0, 0>>},
                    publishes: {"nothing", "probe", "tuning"}]]
=============================================================================
