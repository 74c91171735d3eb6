------------------------- MODULE AdaptiveGemmProofs -------------------------
(***************************************************************************)
(* Proofs about AdaptiveGemm, for every set of shapes, candidates and      *)
(* identities, every cache size, threshold and counter limit.              *)
(*                                                                         *)
(* Most properties rest on the inductive invariant Core.  What the helper  *)
(* operators do to an entry is stated once, in a lemma per operator; a     *)
(* step is then one of a few kinds.  That work in flight keeps its module  *)
(* rests on Core and on Guarded, which says what the checks of the context *)
(* are worth to the waits behind them.                                     *)
(***************************************************************************)
EXTENDS AdaptiveGemm, FiniteSetTheorems, TLAPS

\* No entry was used after the latest use the clock has counted.
UsesInThePast == \A s \in resident : entry[s].lastUsed <= clock

\* What compiling s may give: nothing used yet, and a restored decision is right.
FreshFor(s, e) ==
    /\ e.launches = 0 /\ e.attempts = 0 /\ e.lastUsed = 0
    /\ e.tier = "Baseline" <=> ~e.hit
    /\ e.hit => e.tier \in Measured
    /\ e.tier \in Measured => ~IsWrong(s, e.kernel)

\* The entry that waits to be inserted is as it was compiled.
MadeFresh == call.step = "insert" => \A s \in call.busy : FreshFor(s, made)

\* A call works on one shape at a time, which is not one it has yet to tune, and
\* only tune_hot has a worklist.
CallShape ==
    /\ \A s, t \in call.busy : s = t
    /\ call.busy \cap call.todo = {}
    /\ call.op # "tune_hot" => call.todo = {}
    /\ call.op = "prepare" => call.step = "insert"

\* The attempt of a shape that is being measured has been counted.
AttemptCounted == \A s \in resident : BeingTuned(s) => entry[s].attempts = 1

Core ==
    /\ TypeOK
    /\ IsFiniteSet(resident) /\ CapacityBound
    /\ CallIndexesResident /\ CallShape /\ MadeFresh
    /\ TierHistory /\ AttemptCounted
    /\ DiskGenuine
    /\ DecidedKernelsRight
    /\ UsesInThePast
    /\ RecencyKept

\* Between a check and its wait the context is current, if work depends on it and
\* the host has kept it so.
CheckHolds ==
    call.step \in {"insert", "tune"} /\ kept => ctxCurrent \/ inflight = {}

Guarded == InFlightLoaded /\ CheckHolds

----------------------------------------------------------------------------
(* The helper operators *)

\* A saturating counter stays in its range and does not go back.
LEMMA TickLemma ==
    ASSUME TypeOK
    PROVE  /\ Tick \in 0..MaxClock
           /\ clock <= Tick
           /\ Tick > 0
BY CounterAssumption DEF TypeOK, Tick, SaturatingInc

LEMMA NoEntryType == NoEntry \in Entries
<1>1. (CHOOSE c \in Candidates : TRUE) \in Candidates
  BY CandidatesAssumption
<1> QED BY <1>1, CounterAssumption DEF NoEntry, Entries, Tiers

\* The cold entry of a candidate.
LEMMA ColdType ==
    ASSUME NEW c \in Candidates PROVE ColdEntry(c) \in Entries
BY CounterAssumption DEF ColdEntry, Entries, Tiers

\* What compiling a shape ends as, restored decisions included.
LEMMA FreshLemma ==
    ASSUME TypeOK, DiskGenuine, NEW s \in Shapes, NEW e \in FreshEntries(s)
    PROVE  e \in Entries /\ FreshFor(s, e)
<1> USE DEF FreshFor
<1> DEFINE r == disk[DecisionKey(cfg.id, s)]
<1>1. PICK c \in BaselineChoices : e \in RestoreCached(s, c)
  BY DEF FreshEntries
<1>2. c \in Candidates /\ ColdEntry(c) \in Entries
  BY BaselineAssumption, ColdType
<1>3. cfg.id \in Identities
  BY DEF TypeOK, Configs
<1>4. r \in Records \cup {NoRecord}
  BY <1>3 DEF TypeOK, Keys, DecisionKey
<1>5. CASE e = ColdEntry(c)
  BY <1>2, <1>5 DEF ColdEntry, Measured
<1>6. CASE e # ColdEntry(c)
  <2> DEFINE tier == IF r.promoted THEN "Tuned" ELSE "RetainedBaseline"
  <2>1. /\ r # NoRecord
        /\ e = [ColdEntry(c) EXCEPT !.kernel = r.sel, !.tier = tier, !.hit = TRUE]
    BY <1>1, <1>6 DEF RestoreCached, Restorable, Load
  <2>2. GenuineRecord(cfg.id, s, r)
    BY <2>1, <1>3 DEF DiskGenuine, DecisionKey
  <2>3. r.sel \in Candidates /\ <<cfg.id, s, r.sel>> \notin Wrong
    BY <2>1, <1>4, <2>2 DEF Records, GenuineRecord
  <2>4. tier \in {"Tuned", "RetainedBaseline"}
    OBVIOUS
  <2> HIDE DEF tier, r
  <2>5. e = [kernel |-> r.sel, tier |-> tier, launches |-> 0, attempts |-> 0,
             hit |-> TRUE, lastUsed |-> 0]
    BY <2>1 DEF ColdEntry
  <2> QED BY <2>3, <2>4, <2>5, CounterAssumption DEF Entries, Tiers, Measured, IsWrong
<1> QED BY <1>5, <1>6

\* Inserting an entry: it goes in, others stay as they are or leave, and one
\* leaves only from a full cache and after a wait.
LEMMA InsertLemma ==
    ASSUME TypeOK, IsFiniteSet(resident), CapacityBound,
           NEW s \in Shapes \ resident, NEW e \in Entries, InsertEntry(s, e)
    PROVE  /\ s \in resident' /\ resident' \subseteq resident \cup {s}
           /\ IsFiniteSet(resident') /\ CapacityBound'
           /\ entry' \in [Shapes -> Entries]
           /\ entry'[s] = e
           /\ \A t \in resident' \ {s} : entry'[t] = entry[t]
           /\ inflight' \subseteq inflight
           /\ \/ inflight' = Synchronize(inflight)
              \/ inflight' = inflight /\ resident' = resident \cup {s}
<1>1. resident \subseteq Shapes /\ entry \in [Shapes -> Entries]
  BY DEF TypeOK
<1>2. CASE Cardinality(resident) = MaxCachedShapes
  <2>1. PICK old \in OldestResident :
           /\ resident' = (resident \ {old}) \cup {s}
           /\ entry' = [entry EXCEPT ![old] = NoEntry, ![s] = e]
           /\ inflight' = Synchronize(inflight)
    BY <1>2 DEF InsertEntry
  <2>2. old \in resident /\ old # s
    BY DEF OldestResident
  <2>3. /\ IsFiniteSet(resident \ {old})
        /\ Cardinality(resident \ {old}) = MaxCachedShapes - 1
    BY <1>2, <2>2, FS_RemoveElement
  <2>4. /\ IsFiniteSet(resident')
        /\ Cardinality(resident') = MaxCachedShapes
    <3>1. s \notin resident \ {old}
      OBVIOUS
    <3>2. /\ IsFiniteSet(resident')
          /\ Cardinality(resident') = (MaxCachedShapes - 1) + 1
      BY <2>1, <2>3, <3>1, FS_AddElement
    <3> QED BY <3>2, CapacityAssumption
  <2>5. entry' \in [Shapes -> Entries]
    BY <1>1, <2>1, NoEntryType
  <2>6. entry'[s] = e /\ \A t \in resident' \ {s} : entry'[t] = entry[t]
    BY <1>1, <2>1, <2>2
  <2>7. CapacityBound'
    BY <2>4, CapacityAssumption DEF CapacityBound
  <2>8. s \in resident' /\ resident' \subseteq resident \cup {s}
    BY <2>1
  <2>9. inflight' \subseteq inflight
    BY <2>1 DEF Synchronize
  <2> QED
    BY <2>1, <2>4, <2>5, <2>6, <2>7, <2>8, <2>9
<1>3. CASE Cardinality(resident) # MaxCachedShapes
  <2>1. /\ resident' = resident \cup {s}
        /\ entry' = [entry EXCEPT ![s] = e]
        /\ inflight' = inflight
    BY <1>3 DEF InsertEntry
  <2>2. /\ IsFiniteSet(resident')
        /\ Cardinality(resident') = Cardinality(resident) + 1
    BY <2>1, FS_AddElement
  <2>3. Cardinality(resident') <= MaxCachedShapes
    BY <1>3, <2>2, FS_CardinalityType, CapacityAssumption DEF CapacityBound
  <2> QED
    BY <1>1, <2>1, <2>2, <2>3 DEF CapacityBound
<1> QED BY <1>2, <1>3

\* The latest use survives an insertion into a cache with room for two.
LEMMA InsertKeepsRecent ==
    ASSUME TypeOK, IsFiniteSet(resident), CapacityBound, UsesInThePast, RecencyKept,
           NEW s \in Shapes \ resident, NEW e \in Entries, InsertEntry(s, e),
           MaxCachedShapes > 1, clock > 0
    PROVE  \E t \in resident' : t # s /\ entry'[t].lastUsed = clock
<1>1. PICK w \in resident : entry[w].lastUsed = clock
  BY DEF RecencyKept
<1>2. \A t \in resident' \ {s} : entry'[t] = entry[t]
  BY InsertLemma
<1>3. CASE Cardinality(resident) = MaxCachedShapes
  <2>1. PICK old \in OldestResident : resident' = (resident \ {old}) \cup {s}
    BY <1>3 DEF InsertEntry
  <2>2. CASE old # w
    BY <1>1, <1>2, <2>1, <2>2
  <2>3. CASE old = w
    <3>1. PICK t \in resident : t # old
      <4>1. Cardinality(resident \ {old}) = MaxCachedShapes - 1
            /\ IsFiniteSet(resident \ {old})
        BY <1>3, FS_RemoveElement DEF OldestResident
      <4>2. resident \ {old} # {}
        BY <4>1, FS_EmptySet, CapacityAssumption
      <4> QED BY <4>2
    <3>2. entry[t].lastUsed \in Int /\ clock \in Int
      BY DEF TypeOK, Entries
    <3>3. entry[t].lastUsed = clock
      BY <1>1, <2>3, <3>2 DEF OldestResident, UsesInThePast
    <3> QED BY <1>2, <2>1, <3>1, <3>3
  <2> QED BY <2>2, <2>3
<1>4. CASE Cardinality(resident) # MaxCachedShapes
  <2>1. resident' = resident \cup {s}
    BY <1>4 DEF InsertEntry
  <2> QED BY <1>1, <1>2, <2>1
<1> QED BY <1>3, <1>4

\* The contract of a measurement, as the runtime uses it.
LEMMA OutcomeLemma ==
    ASSUME NEW s, NEW c \in Candidates, NEW o \in TuneOutcomes(s, c)
    PROVE  /\ o.kernel \in Candidates
           /\ o.tier \in Tiers \ {"Baseline"}
           /\ o.tier \in Measured => ~IsWrong(s, c) /\ ~IsWrong(s, o.kernel)
           /\ o.tier = "Tuned" <=> o.kernel # c
BY DEF TuneOutcomes, Conclusions, Tiers, Measured

\* Storing a decision that both kernels earned keeps the directory genuine.
LEMMA PersistLemma ==
    ASSUME TypeOK, DiskGenuine, NEW s \in Shapes, NEW base \in Candidates,
           NEW e \in Entries,
           e.tier \in Measured => ~IsWrong(s, base) /\ ~IsWrong(s, e.kernel),
           e.tier = "Tuned" <=> e.kernel # base,
           PersistDecision(s, base, e)
    PROVE  disk' \in [Keys -> Records \cup {NoRecord}] /\ DiskGenuine'
<1> DEFINE r == [base |-> base, sel |-> e.kernel, promoted |-> e.tier = "Tuned"]
<1>1. disk \in [Keys -> Records \cup {NoRecord}]
  BY DEF TypeOK
<1>2. r \in Records
  BY DEF Records, Entries
<1>3. CASE disk' = disk
  BY <1>1, <1>3 DEF DiskGenuine, GenuineRecord
<1>4. CASE disk' # disk
  <2>1. PICK pruned \in SUBSET Keys :
           disk' = [k \in Keys |-> IF k \in pruned THEN NoRecord
                                  ELSE IF k = <<cfg.id, s>> THEN r ELSE disk[k]]
    BY <1>4 DEF PersistDecision, DecisionKey
  <2>2. e.tier \in Measured
    BY <1>4 DEF PersistDecision
  <2>3. GenuineRecord(cfg.id, s, r)
    BY <2>2 DEF GenuineRecord, IsWrong
  <2>4. disk' \in [Keys -> Records \cup {NoRecord}]
    BY <1>1, <1>2, <2>1
  <2>5. ASSUME NEW id \in Identities, NEW t \in Shapes, disk'[<<id, t>>] # NoRecord
        PROVE  GenuineRecord(id, t, disk'[<<id, t>>])
    <3>1. <<id, t>> \in Keys /\ <<id, t>> \notin pruned
      BY <2>1, <2>5 DEF Keys
    <3>2. CASE <<id, t>> = <<cfg.id, s>>
      <4>1. disk'[<<id, t>>] = r /\ id = cfg.id /\ t = s
        BY <2>1, <3>1, <3>2
      <4> QED BY <2>3, <4>1
    <3>3. CASE <<id, t>> # <<cfg.id, s>>
      <4>1. disk'[<<id, t>>] = disk[<<id, t>>]
        BY <2>1, <3>1, <3>3
      <4> QED BY <2>5, <4>1 DEF DiskGenuine
    <3> QED BY <3>2, <3>3
  <2>6. DiskGenuine'
    BY <2>5 DEF DiskGenuine, GenuineRecord
  <2> QED BY <2>4, <2>6
<1> QED BY <1>3, <1>4

\* The start of an attempt: only the counter moves.
LEMMA TuneStartLemma ==
    ASSUME TypeOK, NEW s \in Shapes, TuneStart(s)
    PROVE  /\ entry' \in [Shapes -> Entries]
           /\ \A t \in Shapes \ {s} : entry'[t] = entry[t]
           /\ entry'[s].attempts = entry[s].attempts + 1
           /\ entry'[s].launches = entry[s].launches
           /\ entry'[s].lastUsed = entry[s].lastUsed /\ entry'[s].hit = entry[s].hit
           /\ entry'[s].kernel = entry[s].kernel /\ entry'[s].tier = entry[s].tier
<1> DEFINE e == [entry[s] EXCEPT !.attempts = @ + 1]
<1>1. entry \in [Shapes -> Entries] /\ entry[s] \in Entries
  BY DEF TypeOK
<1>2. entry' = [entry EXCEPT ![s] = e]
  BY <1>1 DEF TuneStart
<1>3. /\ e \in Entries
      /\ e.attempts = entry[s].attempts + 1
      /\ e.launches = entry[s].launches /\ e.lastUsed = entry[s].lastUsed
      /\ e.hit = entry[s].hit /\ e.kernel = entry[s].kernel
      /\ e.tier = entry[s].tier
  BY <1>1 DEF Entries
<1> HIDE DEF e
<1> QED BY <1>1, <1>2, <1>3

\* The end of an attempt: it decides the tier, and replaces the kernel only by
\* promotion and after a wait.
LEMMA TuneEndLemma ==
    ASSUME TypeOK, DiskGenuine, NEW s \in Shapes, TuneEnd(s)
    PROVE  /\ entry' \in [Shapes -> Entries]
           /\ \A t \in Shapes \ {s} : entry'[t] = entry[t]
           /\ entry'[s].launches = entry[s].launches
           /\ entry'[s].lastUsed = entry[s].lastUsed
           /\ entry'[s].hit = entry[s].hit
           /\ entry'[s].attempts = entry[s].attempts
           /\ entry'[s].tier # "Baseline"
           /\ entry'[s].kernel # entry[s].kernel =>
                 entry'[s].tier = "Tuned" /\ inflight' = Synchronize(inflight)
           /\ entry'[s].tier \in Measured => ~IsWrong(s, entry'[s].kernel)
           /\ inflight' \subseteq inflight
           /\ disk' \in [Keys -> Records \cup {NoRecord}]
           /\ DiskGenuine'
<1>1. entry \in [Shapes -> Entries] /\ entry[s] \in Entries
  BY DEF TypeOK
<1>2. entry[s].kernel \in Candidates
  BY <1>1 DEF Entries
<1> DEFINE E(o) == [entry[s] EXCEPT !.tier = o.tier, !.kernel = o.kernel]
<1>3. PICK o \in TuneOutcomes(s, entry[s].kernel) :
         /\ entry' = [entry EXCEPT ![s] = E(o)]
         /\ inflight' = Synchronize(inflight) \/ (o.tier # "Tuned" /\ inflight' = inflight)
         /\ PersistDecision(s, entry[s].kernel, E(o))
  BY DEF TuneEnd
<1> DEFINE e == E(o)
<1>4. /\ o.kernel \in Candidates
      /\ o.tier \in Tiers \ {"Baseline"}
      /\ o.tier \in Measured => ~IsWrong(s, entry[s].kernel) /\ ~IsWrong(s, o.kernel)
      /\ o.tier = "Tuned" <=> o.kernel # entry[s].kernel
  BY <1>2, OutcomeLemma
<1>5. /\ e \in Entries
      /\ e.tier = o.tier /\ e.kernel = o.kernel /\ e.attempts = entry[s].attempts
      /\ e.launches = entry[s].launches /\ e.lastUsed = entry[s].lastUsed
      /\ e.hit = entry[s].hit
  <2>1. [entry[s] EXCEPT !.tier = o.tier] \in Entries
    BY <1>1, <1>4 DEF Entries
  <2>2. \A x \in Entries : [x EXCEPT !.kernel = o.kernel] \in Entries
    BY <1>4 DEF Entries
  <2>3. e \in Entries
    BY <2>1, <2>2
  <2> QED BY <1>1, <2>3 DEF Entries
<1>6. disk' \in [Keys -> Records \cup {NoRecord}] /\ DiskGenuine'
  <2> HIDE DEF e
  <2>1. PersistDecision(s, entry[s].kernel, e)
    BY <1>3 DEF e
  <2> QED BY <1>2, <1>4, <1>5, <2>1, PersistLemma
<1>7. entry'[s] = e /\ \A t \in Shapes \ {s} : entry'[t] = entry[t]
  BY <1>1, <1>3
<1>8. entry' \in [Shapes -> Entries]
  BY <1>1, <1>3, <1>5
<1>9. inflight' \subseteq inflight
  BY <1>3 DEF Synchronize
<1> QED
  <2> HIDE DEF e, E
  <2> QED BY <1>3, <1>4, <1>5, <1>6, <1>7, <1>8, <1>9

\* The entry of a launched or touched shape: only its counters move.
LEMMA UseLemma ==
    ASSUME TypeOK, NEW s \in Shapes, NEW n \in 0..MaxLaunches,
           entry' = [entry EXCEPT ![s].launches = n, ![s].lastUsed = Tick]
    PROVE  /\ entry' \in [Shapes -> Entries]
           /\ \A t \in Shapes \ {s} : entry'[t] = entry[t]
           /\ entry'[s].launches = n /\ entry'[s].lastUsed = Tick
           /\ entry'[s].kernel = entry[s].kernel /\ entry'[s].tier = entry[s].tier
           /\ entry'[s].hit = entry[s].hit /\ entry'[s].attempts = entry[s].attempts
<1> DEFINE e == [entry[s] EXCEPT !.launches = n, !.lastUsed = Tick]
<1>1. entry \in [Shapes -> Entries] /\ entry[s] \in Entries
  BY DEF TypeOK
<1>2. entry' = [entry EXCEPT ![s] = e]
  BY <1>1
<1>3. e \in Entries
  <2>1. [entry[s] EXCEPT !.launches = n] \in Entries
    BY <1>1 DEF Entries
  <2>2. \A x \in Entries : [x EXCEPT !.lastUsed = Tick] \in Entries
    BY TickLemma DEF Entries
  <2> QED BY <2>1, <2>2
<1>4. /\ e.launches = n /\ e.lastUsed = Tick
      /\ e.kernel = entry[s].kernel /\ e.tier = entry[s].tier
      /\ e.hit = entry[s].hit /\ e.attempts = entry[s].attempts
  BY <1>1 DEF Entries
<1> HIDE DEF e
<1> QED BY <1>1, <1>2, <1>3, <1>4

----------------------------------------------------------------------------
(* The inductive invariant *)

LEMMA InitCore == Init => Core
<1> SUFFICES ASSUME Init PROVE Core
  OBVIOUS
<1>1. TypeOK
  BY NoEntryType, CounterAssumption
  DEF Init, TypeOK, Idle, Calls, Keys, Configs
<1>2. IsFiniteSet(resident) /\ CapacityBound
  BY FS_EmptySet, CapacityAssumption DEF Init, CapacityBound
<1>3. DiskGenuine
  BY DEF Init, DiskGenuine, Keys
<1>4. RecencyKept
  BY DEF Init, RecencyKept
<1> QED
  BY <1>1, <1>2, <1>3, <1>4
  DEF Init, Core, CallIndexesResident, CallShape, MadeFresh, Idle, TierHistory,
      AttemptCounted, DecidedKernelsRight, UsesInThePast

\* Inserting the compiled shape, common to prepare and launch: u is the use the
\* new entry starts with, and no shape is being tuned.
LEMMA InsertStep ==
    ASSUME Core, call.step = "insert", NEW s \in call.busy, NEW u \in 0..MaxClock,
           InsertEntry(s, [made EXCEPT !.lastUsed = u]),
           UNCHANGED <<disk, cfg>>, call'.step # "tune"
    PROVE  /\ s \in resident' /\ resident' \subseteq Shapes
           /\ IsFiniteSet(resident') /\ CapacityBound'
           /\ entry' \in [Shapes -> Entries]
           /\ entry'[s].lastUsed = u
           /\ \A t \in resident' \ {s} : t \in resident /\ entry'[t] = entry[t]
           /\ inflight' \subseteq Shapes \X Candidates
           /\ TierHistory' /\ AttemptCounted' /\ DecidedKernelsRight'
           /\ disk' \in [Keys -> Records \cup {NoRecord}] /\ DiskGenuine'
<1> DEFINE e == [made EXCEPT !.lastUsed = u]
<1>1. /\ TypeOK /\ DiskGenuine /\ IsFiniteSet(resident) /\ CapacityBound
      /\ s \in Shapes \ resident /\ made \in Entries /\ FreshFor(s, made)
  BY DEF Core, TypeOK, Calls, CallIndexesResident, MadeFresh
<1>2. /\ e \in Entries
      /\ e.lastUsed = u /\ e.attempts = 0
      /\ e.tier = "Baseline" <=> ~e.hit
      /\ e.hit => e.tier \in Measured
      /\ e.tier \in Measured => ~IsWrong(s, e.kernel)
  BY <1>1 DEF Entries, FreshFor
<1>3. InsertEntry(s, e)
  OBVIOUS
<1> HIDE DEF e
<1>4. /\ s \in resident' /\ resident' \subseteq resident \cup {s}
      /\ IsFiniteSet(resident') /\ CapacityBound'
      /\ entry' \in [Shapes -> Entries]
      /\ entry'[s] = e
      /\ \A t \in resident' \ {s} : entry'[t] = entry[t]
      /\ inflight' \subseteq inflight
  BY <1>1, <1>2, <1>3, InsertLemma
<1>5. inflight \subseteq Shapes \X Candidates /\ resident \subseteq Shapes
  BY <1>1 DEF TypeOK
<1>6. \A t \in Shapes : ~BeingTuned(t)
  BY DEF BeingTuned
<1>7. TierHistory' /\ AttemptCounted'
  <2>1. AttemptCounted'
    BY DEF AttemptCounted, BeingTuned
  <2>2. ASSUME NEW t \in resident' \ {s}
        PROVE  /\ entry'[t].attempts <= (IF entry'[t].hit THEN 0 ELSE 1)
               /\ entry'[t].hit => entry'[t].tier \in Measured
               /\ entry'[t].tier = "Baseline" <=>
                     entry'[t].attempts = 0 /\ ~entry'[t].hit
    <3>1. t \in resident /\ t \in Shapes /\ entry'[t] = entry[t] /\ ~BeingTuned(t)
      BY <1>4, <1>5, <1>6, <2>2
    <3> QED BY <3>1 DEF Core, TierHistory
  <2>3. /\ entry'[s].attempts <= (IF entry'[s].hit THEN 0 ELSE 1)
        /\ entry'[s].hit => entry'[s].tier \in Measured
        /\ entry'[s].tier = "Baseline" <=> entry'[s].attempts = 0 /\ ~entry'[s].hit
    BY <1>2, <1>4
  <2>4. TierHistory'
    <3> SUFFICES ASSUME NEW t \in resident'
                 PROVE  /\ entry'[t].attempts <= (IF entry'[t].hit THEN 0 ELSE 1)
                        /\ entry'[t].hit => entry'[t].tier \in Measured
                        /\ entry'[t].tier = "Baseline" <=>
                              \/ entry'[t].attempts = 0 /\ ~entry'[t].hit
                              \/ call'.step = "tune" /\ t \in call'.busy
      BY DEF TierHistory, BeingTuned
    <3>1. CASE t = s
      BY ONLY <2>3, <3>1, call'.step # "tune"
    <3>2. CASE t # s
      BY <2>2, <3>2
    <3> QED BY <3>1, <3>2
  <2> QED BY <2>1, <2>4
<1>8. DecidedKernelsRight'
  BY <1>2, <1>4 DEF Core, DecidedKernelsRight, IsWrong
<1>9. disk' \in [Keys -> Records \cup {NoRecord}] /\ DiskGenuine'
  BY <1>1 DEF TypeOK, DiskGenuine, GenuineRecord
<1>10. /\ resident' \subseteq Shapes
       /\ inflight' \subseteq Shapes \X Candidates
       /\ \A t \in resident' \ {s} : t \in resident /\ entry'[t] = entry[t]
  BY <1>1, <1>4, <1>5
<1>11. entry'[s].lastUsed = u
  BY <1>2, <1>4
<1> QED BY ONLY <1>4, <1>7, <1>8, <1>9, <1>10, <1>11

\* Using a resident shape, common to prepare and launch: its counters move and
\* its kernel may be enqueued.
LEMMA UseStep ==
    ASSUME Core, call.step # "tune", NEW s \in resident, NEW n \in 0..MaxLaunches,
           entry' = [entry EXCEPT ![s].launches = n, ![s].lastUsed = Tick],
           clock' = Tick,
           inflight' \in {inflight, inflight \cup {<<s, entry[s].kernel>>}},
           UNCHANGED <<resident, disk, cfg, made, ctxCurrent>>,
           call' = Idle, kept' \in BOOLEAN
    PROVE  Core'
<1>1. TypeOK /\ s \in Shapes /\ resident \subseteq Shapes
  BY DEF Core, TypeOK
<1>2. /\ entry' \in [Shapes -> Entries]
      /\ \A t \in Shapes \ {s} : entry'[t] = entry[t]
      /\ entry'[s].lastUsed = Tick
      /\ entry'[s].kernel = entry[s].kernel /\ entry'[s].tier = entry[s].tier
      /\ entry'[s].hit = entry[s].hit /\ entry'[s].attempts = entry[s].attempts
  BY <1>1, UseLemma
<1>3. Tick \in 0..MaxClock /\ clock <= Tick /\ clock \in 0..MaxClock
  BY <1>1, TickLemma DEF TypeOK
<1>4. entry[s].kernel \in Candidates
  BY <1>1 DEF TypeOK, Entries
<1>5. TypeOK'
  BY <1>1, <1>2, <1>3, <1>4 DEF TypeOK, Idle, Calls
<1>6. IsFiniteSet(resident') /\ CapacityBound'
  BY DEF Core, CapacityBound
<1>7. \A t \in Shapes : ~BeingTuned(t) /\ ~BeingTuned(t)'
  BY DEF BeingTuned, Idle
<1>8. CallIndexesResident' /\ CallShape' /\ MadeFresh'
  BY DEF CallIndexesResident, CallShape, MadeFresh, Idle
<1>9. TierHistory' /\ AttemptCounted'
  BY <1>1, <1>2, <1>7 DEF Core, TierHistory, AttemptCounted
<1>10. DiskGenuine' /\ DecidedKernelsRight'
  BY <1>1, <1>2 DEF Core, DiskGenuine, GenuineRecord, DecidedKernelsRight, IsWrong
<1>11. UsesInThePast'
  <2> SUFFICES ASSUME NEW t \in resident PROVE entry'[t].lastUsed <= Tick
    BY DEF UsesInThePast
  <2>1. entry[t].lastUsed \in 0..MaxClock /\ entry[t].lastUsed <= clock
    BY <1>1 DEF Core, UsesInThePast, TypeOK, Entries
  <2> QED BY <1>1, <1>2, <1>3, <2>1
<1>12. RecencyKept'
  BY <1>2 DEF RecencyKept
<1> QED
  BY <1>5, <1>6, <1>8, <1>9, <1>10, <1>11, <1>12 DEF Core

\* The start of an attempt on a shape that needs one, common to launch and to
\* tune_hot; what is left of the worklist had and still has this shape apart.
LEMMA TuneStartStep ==
    ASSUME Core, call.step # "tune", NEW s \in resident, ShouldTune(s), TuneStart(s),
           UNCHANGED <<resident, clock, inflight, disk, cfg, made, ctxCurrent>>,
           call' \in Calls, call'.step = "tune", call'.busy = {s},
           call'.todo \subseteq call.todo \ {s},
           call'.op # "tune_hot" => call'.todo = {}, call'.op # "prepare",
           kept' \in BOOLEAN
    PROVE  Core'
<1>1. TypeOK /\ s \in Shapes /\ resident \subseteq Shapes /\ entry[s].attempts = 0
  BY DEF Core, TypeOK, ShouldTune
<1>2. /\ entry' \in [Shapes -> Entries]
      /\ \A t \in Shapes \ {s} : entry'[t] = entry[t]
      /\ entry'[s].attempts = 1
      /\ entry'[s].lastUsed = entry[s].lastUsed /\ entry'[s].hit = entry[s].hit
      /\ entry'[s].kernel = entry[s].kernel /\ entry'[s].tier = entry[s].tier
  BY <1>1, TuneStartLemma
<1>3. TypeOK'
  BY <1>1, <1>2 DEF TypeOK
<1>4. IsFiniteSet(resident') /\ CapacityBound'
  BY DEF Core, CapacityBound
<1>5. CallIndexesResident' /\ CallShape' /\ MadeFresh'
  BY <1>1, <1>2 DEF Core, CallIndexesResident, CallShape, MadeFresh, ShouldTune
<1>6. \A t \in Shapes : ~BeingTuned(t) /\ (BeingTuned(t)' <=> t = s)
  BY DEF BeingTuned
<1>7. TierHistory' /\ AttemptCounted'
  <2>1. entry[s].tier = "Baseline" /\ ~entry[s].hit
    BY <1>1, <1>6 DEF Core, TierHistory, ShouldTune
  <2>2. \A t \in resident \ {s} : entry'[t] = entry[t] /\ ~BeingTuned(t) /\ ~BeingTuned(t)'
    BY <1>1, <1>2, <1>6
  <2>3. BeingTuned(s)'
    BY <1>1, <1>6
  <2> QED BY <1>2, <2>1, <2>2, <2>3 DEF Core, TierHistory, AttemptCounted
<1>8. DiskGenuine' /\ DecidedKernelsRight'
  BY <1>1, <1>2 DEF Core, DiskGenuine, GenuineRecord, DecidedKernelsRight, IsWrong
<1>9. UsesInThePast' /\ RecencyKept'
  <2>1. \A t \in resident : entry'[t].lastUsed = entry[t].lastUsed
    BY <1>1, <1>2
  <2> QED BY <2>1 DEF Core, UsesInThePast, RecencyKept
<1> QED BY <1>3, <1>4, <1>5, <1>7, <1>8, <1>9 DEF Core

\* A step that leaves the cache, the tiers and the directory alone, and whose
\* call stays where it is or ends.
LEMMA QuietStep ==
    ASSUME Core, UNCHANGED <<resident, entry, clock, disk, cfg>>,
           inflight' \subseteq inflight, ctxCurrent' \in BOOLEAN, kept' \in BOOLEAN,
           made' \in Entries,
           \/ call' = call /\ made' = made
           \/ call' = Idle /\ call.step # "tune"
    PROVE  Core'
<1>1. TypeOK'
  BY DEF Core, TypeOK, Idle, Keys, Calls
<1>2. IsFiniteSet(resident') /\ CapacityBound'
  BY DEF Core, CapacityBound
<1>3. CallIndexesResident' /\ CallShape' /\ MadeFresh'
  <2>1. CASE call' = call /\ made' = made
    BY <2>1
    DEF Core, CallIndexesResident, CallShape, MadeFresh, FreshFor, IsWrong, ShouldTune
  <2>2. CASE call' = Idle
    BY <2>2 DEF CallIndexesResident, CallShape, MadeFresh, Idle
  <2> QED BY <2>1, <2>2
<1>4. \A t \in resident : BeingTuned(t)' <=> BeingTuned(t)
  BY DEF BeingTuned, Idle
<1>5. TierHistory' /\ AttemptCounted'
  BY <1>4 DEF Core, TierHistory, AttemptCounted
<1>6. UsesInThePast' /\ RecencyKept'
  BY DEF Core, UsesInThePast, RecencyKept
<1>7. DiskGenuine' /\ DecidedKernelsRight'
  BY DEF Core, DiskGenuine, GenuineRecord, DecidedKernelsRight, IsWrong
<1> QED BY <1>1, <1>2, <1>3, <1>5, <1>6, <1>7 DEF Core

LEMMA StepCore == ASSUME Core, Step, kept' \in BOOLEAN PROVE Core'
<1>t. TypeOK /\ resident \subseteq Shapes /\ clock \in 0..MaxClock
      /\ cfg \in Configs /\ ctxCurrent \in BOOLEAN /\ made \in Entries /\ call \in Calls
  BY DEF Core, TypeOK
<1>k. Tick \in 0..MaxClock /\ clock <= Tick /\ Tick > 0
  BY <1>t, TickLemma
<1>1. ASSUME NEW s \in Shapes, NEW op \in {"prepare", "launch"}, Compile(op, s)
      PROVE  Core'
  <2>1. /\ made' \in FreshEntries(s) /\ s \notin resident
        /\ call = Idle /\ call' = CallFor(op, "insert", s)
        /\ UNCHANGED <<resident, entry, clock, inflight, disk, cfg, ctxCurrent>>
    BY <1>1 DEF Compile
  <2>2. made' \in Entries /\ FreshFor(s, made')
    BY <2>1, FreshLemma DEF Core
  <2>3. /\ call' \in Calls /\ call'.step = "insert" /\ call'.busy = {s}
        /\ call'.todo = {} /\ call'.op = op
    BY <2>1 DEF CallFor, Calls
  <2>4. TypeOK'
    BY <1>t, <2>1, <2>2, <2>3 DEF TypeOK
  <2>5. IsFiniteSet(resident') /\ CapacityBound'
    BY <2>1 DEF Core, CapacityBound
  <2>6. CallIndexesResident' /\ CallShape'
    BY <2>1, <2>3 DEF CallIndexesResident, CallShape
  <2>7. MadeFresh'
    BY <2>1, <2>2, <2>3 DEF MadeFresh, FreshFor, IsWrong
  <2>8. \A t \in resident : ~BeingTuned(t)' /\ ~BeingTuned(t)
    BY <2>1, <2>3 DEF BeingTuned, Idle
  <2>9. TierHistory' /\ AttemptCounted'
    BY <2>1, <2>8 DEF Core, TierHistory, AttemptCounted
  <2>10. DiskGenuine' /\ DecidedKernelsRight' /\ UsesInThePast' /\ RecencyKept'
    BY <2>1 DEF Core, DiskGenuine, GenuineRecord, DecidedKernelsRight, IsWrong,
                UsesInThePast, RecencyKept
  <2> QED BY <2>4, <2>5, <2>6, <2>7, <2>9, <2>10 DEF Core
<1>2. ASSUME NEW s \in Shapes, PrepareTouch(s) PROVE Core'
  <2>1. entry[s] \in Entries /\ entry \in [Shapes -> Entries]
        /\ entry[s].launches \in 0..MaxLaunches
    BY <1>t DEF TypeOK, Entries
  <2>2. [entry[s] EXCEPT !.launches = entry[s].launches] = entry[s]
    BY <2>1 DEF Entries
  <2>3. entry' = [entry EXCEPT ![s].launches = entry[s].launches,
                               ![s].lastUsed = Tick]
    BY <1>2, <2>1, <2>2 DEF PrepareTouch
  <2>4. call.step # "tune" /\ call' = Idle
    BY <1>2 DEF PrepareTouch, Idle
  <2> QED
    BY <1>2, <2>1, <2>3, <2>4, UseStep DEF PrepareTouch
<1>3. ASSUME NEW s \in resident, Enqueue(s), call' = Idle, call.step # "tune",
             UNCHANGED <<resident, disk, cfg, made, ctxCurrent>>
      PROVE  Core'
  <2>1. SaturatingInc(entry[s].launches, MaxLaunches) \in 0..MaxLaunches
    BY <1>t, CounterAssumption DEF TypeOK, Entries, SaturatingInc
  <2>2. entry' = [entry EXCEPT ![s].launches = SaturatingInc(entry[s].launches, MaxLaunches),
                               ![s].lastUsed = Tick]
    BY <1>3 DEF Enqueue
  <2> QED
    BY <1>3, <2>1, <2>2, UseStep DEF Enqueue
<1>4. ASSUME NEW s \in Shapes, LaunchFast(s) PROVE Core'
  <2>1. call.step # "tune" /\ call' = Idle
    BY <1>4 DEF LaunchFast, Idle
  <2> QED BY <1>3, <1>4, <2>1 DEF LaunchFast
<1>5. CASE PrepareInsert
  <2>1. PICK s \in call.busy : InsertEntry(s, [made EXCEPT !.lastUsed = Tick])
    BY <1>5 DEF PrepareInsert
  <2>2. /\ clock' = Tick /\ call' = Idle /\ made' = NoEntry
        /\ UNCHANGED <<disk, cfg, ctxCurrent>> /\ call.step = "insert"
    BY <1>5 DEF PrepareInsert, Core, CallShape
  <2>3. /\ s \in resident' /\ resident' \subseteq Shapes
        /\ IsFiniteSet(resident') /\ CapacityBound'
        /\ entry' \in [Shapes -> Entries]
        /\ entry'[s].lastUsed = Tick
        /\ \A t \in resident' \ {s} : t \in resident /\ entry'[t] = entry[t]
        /\ inflight' \subseteq Shapes \X Candidates
        /\ TierHistory' /\ AttemptCounted' /\ DecidedKernelsRight'
        /\ disk' \in [Keys -> Records \cup {NoRecord}] /\ DiskGenuine'
    <3>1. call'.step # "tune"
      BY <2>2 DEF Idle
    <3> QED BY <1>k, <2>1, <2>2, <3>1, InsertStep
  <2>4. TypeOK'
    BY <1>t, <1>k, <2>2, <2>3, NoEntryType DEF TypeOK, Idle, Calls
  <2>5. CallIndexesResident' /\ CallShape' /\ MadeFresh'
    BY <2>2 DEF CallIndexesResident, CallShape, MadeFresh, Idle
  <2>6. UsesInThePast'
    <3> SUFFICES ASSUME NEW t \in resident', t # s PROVE entry'[t].lastUsed <= Tick
      BY <1>k, <2>2, <2>3 DEF UsesInThePast
    <3>1. entry[t].lastUsed \in 0..MaxClock /\ entry[t].lastUsed <= clock
      BY <1>t, <2>3 DEF Core, UsesInThePast, TypeOK, Entries
    <3> QED BY <1>t, <1>k, <2>3, <3>1
  <2>7. RecencyKept'
    BY <2>2, <2>3 DEF RecencyKept
  <2> QED BY <2>3, <2>4, <2>5, <2>6, <2>7 DEF Core
<1>6. CASE LaunchInsert
  <2>1. PICK s \in call.busy : InsertEntry(s, made)
    BY <1>6 DEF LaunchInsert
  <2>2. /\ clock' = clock /\ call' = [call EXCEPT !.step = "check"] /\ made' = NoEntry
        /\ UNCHANGED <<disk, cfg, ctxCurrent>>
        /\ call.step = "insert" /\ call.op = "launch"
    BY <1>6 DEF LaunchInsert
  <2>3. /\ call' \in Calls /\ call'.step = "check" /\ call'.busy = call.busy
        /\ call'.todo = call.todo /\ call'.op = "launch"
    BY <1>t, <2>2 DEF Calls
  <2>4. /\ call.busy = {s} /\ call.todo = {} /\ s \in Shapes \ resident
        /\ FreshFor(s, made)
    BY <1>t, <2>2 DEF Core, CallShape, CallIndexesResident, MadeFresh, Calls
  <2>5. InsertEntry(s, [made EXCEPT !.lastUsed = 0])
    <3>1. [made EXCEPT !.lastUsed = 0] = made
      BY <1>t, <2>4 DEF Entries, FreshFor
    <3> QED BY <2>1, <3>1
  <2>6. /\ s \in resident' /\ resident' \subseteq Shapes
        /\ IsFiniteSet(resident') /\ CapacityBound'
        /\ entry' \in [Shapes -> Entries]
        /\ entry'[s].lastUsed = 0
        /\ \A t \in resident' \ {s} : t \in resident /\ entry'[t] = entry[t]
        /\ inflight' \subseteq Shapes \X Candidates
        /\ TierHistory' /\ AttemptCounted' /\ DecidedKernelsRight'
        /\ disk' \in [Keys -> Records \cup {NoRecord}] /\ DiskGenuine'
    BY <2>1, <2>2, <2>3, <2>5, InsertStep, CounterAssumption
  <2>7. TypeOK'
    BY <1>t, <2>2, <2>3, <2>6, NoEntryType DEF TypeOK
  <2>8. CallIndexesResident' /\ CallShape' /\ MadeFresh'
    BY <2>3, <2>4, <2>6 DEF CallIndexesResident, CallShape, MadeFresh
  <2>9. UsesInThePast'
    BY <1>t, <2>2, <2>6 DEF Core, UsesInThePast
  <2>10. RecencyKept'
    <3> SUFFICES ASSUME MaxCachedShapes > 1, clock > 0
                 PROVE  \E t \in resident' : entry'[t].lastUsed = clock
      BY <2>2 DEF RecencyKept
    <3> QED BY <1>t, <2>1, <2>4, InsertKeepsRecent DEF Core
  <2> QED BY <2>6, <2>7, <2>8, <2>9, <2>10 DEF Core
<1>7. ASSUME NEW s \in Shapes, LaunchTune(s) PROVE Core'
  <2>1. /\ s \in resident /\ ShouldTune(s) /\ TuneStart(s)
        /\ call = Idle /\ call' = CallFor("launch", "tune", s)
        /\ UNCHANGED <<resident, clock, inflight, disk, cfg, made, ctxCurrent>>
    BY <1>7 DEF LaunchTune, NeedsTuning
  <2>2. /\ call' \in Calls /\ call'.step = "tune" /\ call'.busy = {s}
        /\ call'.todo = {} /\ call'.op = "launch" /\ call.step # "tune"
    BY <2>1 DEF CallFor, Calls, Idle
  <2> QED BY <2>1, <2>2, TuneStartStep
<1>8. ASSUME NEW n, TuneHotStart(n) PROVE Core'
  <2>1. PICK todo \in SUBSET PendingShapes :
           call' = [op |-> "tune_hot", step |-> "check", busy |-> {}, todo |-> todo]
    BY <1>8 DEF TuneHotStart
  <2>2. /\ UNCHANGED <<resident, entry, clock, inflight, disk, cfg, made, ctxCurrent>>
        /\ call = Idle
    BY <1>8 DEF TuneHotStart
  <2>3. todo \subseteq resident /\ \A s \in todo : ShouldTune(s)
    BY <2>1 DEF PendingShapes
  <2>4. /\ call' \in Calls /\ call'.step = "check" /\ call'.busy = {}
        /\ call'.todo = todo /\ call'.op = "tune_hot"
    BY <1>t, <2>1, <2>3 DEF Calls
  <2>5. TypeOK'
    BY <1>t, <2>2, <2>4 DEF TypeOK, Keys
  <2>6. CallIndexesResident' /\ CallShape' /\ MadeFresh'
    BY <2>2, <2>3, <2>4 DEF CallIndexesResident, CallShape, MadeFresh, ShouldTune
  <2>7. IsFiniteSet(resident') /\ CapacityBound'
    BY <2>2 DEF Core, CapacityBound
  <2>8. \A t \in resident : ~BeingTuned(t)' /\ ~BeingTuned(t)
    BY <2>2, <2>4 DEF BeingTuned, Idle
  <2>9. TierHistory' /\ AttemptCounted'
    BY <2>2, <2>8 DEF Core, TierHistory, AttemptCounted
  <2>10. DiskGenuine' /\ DecidedKernelsRight' /\ UsesInThePast' /\ RecencyKept'
    BY <2>2 DEF Core, DiskGenuine, GenuineRecord, DecidedKernelsRight, IsWrong,
                UsesInThePast, RecencyKept
  <2> QED BY <2>5, <2>6, <2>7, <2>9, <2>10 DEF Core
<1>9. CASE LaunchDispatch
  <2>1. PICK s \in call.busy : Enqueue(s)
    BY <1>9 DEF LaunchDispatch
  <2>2. s \in resident
    BY <1>9, <2>1 DEF LaunchDispatch, Core, CallIndexesResident
  <2> QED BY <1>3, <1>9, <2>1, <2>2 DEF LaunchDispatch
<1>10. CASE TuneHotNext
  <2>1. PICK s \in call.todo :
           /\ TuneStart(s)
           /\ call' = [call EXCEPT !.step = "tune", !.busy = {s}, !.todo = @ \ {s}]
    BY <1>10 DEF TuneHotNext
  <2>2. /\ UNCHANGED <<resident, clock, inflight, disk, cfg, made, ctxCurrent>>
        /\ call.op = "tune_hot" /\ call.step = "check"
        /\ s \in resident /\ ShouldTune(s)
    BY <1>10 DEF TuneHotNext, Core, CallIndexesResident
  <2>3. /\ call' \in Calls /\ call'.step = "tune" /\ call'.busy = {s}
        /\ call'.todo = call.todo \ {s} /\ call'.op = "tune_hot"
    BY <1>t, <2>1, <2>2 DEF Calls
  <2> QED BY <2>1, <2>2, <2>3, TuneStartStep
<1>11. CASE TuneFinish
  <2>1. PICK s \in call.busy : TuneEnd(s)
    BY <1>11 DEF TuneFinish
  <2>2. /\ UNCHANGED <<resident, clock, cfg, made, ctxCurrent>>
        /\ call.step = "tune" /\ call' = AfterTune
        /\ call.busy = {s} /\ s \in resident /\ s \in Shapes /\ s \notin call.todo
        /\ BeingTuned(s) /\ entry[s].attempts = 1 /\ entry[s].tier = "Baseline"
    BY <1>11, <1>t, <2>1
    DEF TuneFinish, Core, CallShape, CallIndexesResident, AttemptCounted, BeingTuned,
        TierHistory
  <2>3. ~entry[s].hit
    BY <2>2 DEF Core, TierHistory, Measured
  <2>4. /\ entry' \in [Shapes -> Entries]
        /\ \A t \in Shapes \ {s} : entry'[t] = entry[t]
        /\ entry'[s].lastUsed = entry[s].lastUsed /\ entry'[s].hit = entry[s].hit
        /\ entry'[s].attempts = entry[s].attempts /\ entry'[s].tier # "Baseline"
        /\ entry'[s].tier \in Measured => ~IsWrong(s, entry'[s].kernel)
        /\ inflight' \subseteq inflight
        /\ disk' \in [Keys -> Records \cup {NoRecord}] /\ DiskGenuine'
    BY <1>t, <2>1, <2>2, TuneEndLemma DEF Core
  <2>5. /\ call' \in Calls /\ call'.step # "tune" /\ call'.step # "insert"
        /\ call'.busy \subseteq {s} /\ call'.todo \subseteq call.todo
        /\ call'.op # "tune_hot" => call'.todo = {}
        /\ call'.op # "prepare"
    <3>1. call.op # "prepare" /\ (call.op # "tune_hot" => call.todo = {})
      BY <2>2 DEF Core, CallShape
    <3> QED BY <1>t, <2>2, <3>1 DEF AfterTune, Calls, Idle
  <2>6. TypeOK'
    BY <1>t, <2>2, <2>4, <2>5 DEF TypeOK
  <2>7. IsFiniteSet(resident') /\ CapacityBound'
    BY <2>2 DEF Core, CapacityBound
  <2>8. CallIndexesResident' /\ CallShape' /\ MadeFresh'
    BY <1>t, <2>2, <2>4, <2>5
    DEF Core, CallIndexesResident, CallShape, MadeFresh, ShouldTune
  <2>9. TierHistory' /\ AttemptCounted'
    <3>1. \A t \in resident \ {s} : entry'[t] = entry[t] /\ ~BeingTuned(t)
      BY <1>t, <2>2, <2>4 DEF BeingTuned
    <3>2. \A t \in resident : ~BeingTuned(t)'
      BY <2>5 DEF BeingTuned
    <3> QED BY <2>2, <2>3, <2>4, <3>1, <3>2 DEF Core, TierHistory, AttemptCounted
  <2>10. DecidedKernelsRight'
    BY <1>t, <2>2, <2>4 DEF Core, DecidedKernelsRight, IsWrong
  <2>11. UsesInThePast' /\ RecencyKept'
    <3>1. \A t \in resident : entry'[t].lastUsed = entry[t].lastUsed
      BY <1>t, <2>4
    <3> QED BY <2>2, <3>1 DEF Core, UsesInThePast, RecencyKept
  <2> QED BY <2>4, <2>6, <2>7, <2>8, <2>9, <2>10, <2>11 DEF Core
<1>12. CASE LaunchError \/ TuneHotError \/ InsertError
  <2>1. /\ UNCHANGED <<resident, entry, clock, inflight, disk, cfg, ctxCurrent>>
        /\ call' = Idle /\ call.step # "tune" /\ made' \in {made, NoEntry}
    BY <1>12 DEF LaunchError, TuneHotError, InsertError
  <2> QED BY <1>t, <2>1, NoEntryType, QuietStep
<1>13. CASE SynchronizeCall
  BY <1>t, <1>13, QuietStep DEF SynchronizeCall, Synchronize
<1>14. CASE DeviceCompletes
  BY <1>t, <1>14, QuietStep DEF DeviceCompletes
<1>15. CASE SwitchContext
  BY <1>t, <1>15, QuietStep DEF SwitchContext
<1>16. CASE OtherProcess
  <2>1. PICK id \in Identities, s \in Shapes :
           \E r \in {r \in Records : GenuineRecord(id, s, r)} \cup {NoRecord} :
              disk' = [disk EXCEPT ![<<id, s>>] = r]
    BY <1>16 DEF OtherProcess, DecisionKey
  <2>2. PICK r \in Records \cup {NoRecord} :
           /\ disk' = [disk EXCEPT ![<<id, s>>] = r]
           /\ r # NoRecord => GenuineRecord(id, s, r)
    BY <2>1
  <2>3. UNCHANGED <<resident, entry, clock, inflight, cfg, call, made, ctxCurrent>>
    BY <1>16 DEF OtherProcess
  <2>4. disk \in [Keys -> Records \cup {NoRecord}]
    BY <1>t DEF TypeOK
  <2>5. TypeOK'
    BY <1>t, <2>2, <2>3, <2>4 DEF TypeOK
  <2>6. ASSUME NEW i \in Identities, NEW t \in Shapes, disk'[<<i, t>>] # NoRecord
        PROVE  GenuineRecord(i, t, disk'[<<i, t>>])
    <3>1. CASE <<i, t>> = <<id, s>>
      <4>1. disk'[<<i, t>>] = r /\ i = id /\ t = s
        BY <2>2, <2>4, <3>1 DEF Keys
      <4> QED BY <2>2, <2>6, <4>1
    <3>2. CASE <<i, t>> # <<id, s>>
      <4>1. disk'[<<i, t>>] = disk[<<i, t>>]
        BY <2>2, <2>4, <3>2 DEF Keys
      <4> QED BY <2>6, <4>1 DEF Core, DiskGenuine
    <3> QED BY <3>1, <3>2
  <2>7. DiskGenuine'
    BY <2>6 DEF DiskGenuine, GenuineRecord
  <2>8. IsFiniteSet(resident') /\ CapacityBound'
    BY <2>3 DEF Core, CapacityBound
  <2>9. TierHistory' /\ AttemptCounted' /\ UsesInThePast' /\ RecencyKept'
    BY <2>3 DEF Core, TierHistory, AttemptCounted, BeingTuned, UsesInThePast, RecencyKept
  <2>10. CallIndexesResident' /\ CallShape' /\ MadeFresh'
    BY <2>3 DEF Core, CallIndexesResident, CallShape, MadeFresh, FreshFor, IsWrong,
                ShouldTune
  <2>11. DecidedKernelsRight'
    BY <2>3 DEF Core, DecidedKernelsRight, IsWrong
  <2> QED BY <2>5, <2>7, <2>8, <2>9, <2>10, <2>11 DEF Core
<1>17. CASE Restart
  <2>1. /\ resident' = {} /\ inflight' = {} /\ clock' = 0 /\ call' = Idle
        /\ entry' = [s \in Shapes |-> NoEntry] /\ cfg' \in Configs
        /\ made' = NoEntry /\ ctxCurrent' = TRUE /\ disk' = disk
    BY <1>17 DEF Restart
  <2>2. TypeOK'
    BY <1>t, <2>1, NoEntryType, CounterAssumption DEF TypeOK, Idle, Calls
  <2>3. IsFiniteSet(resident') /\ CapacityBound'
    BY <2>1, FS_EmptySet, CapacityAssumption DEF CapacityBound
  <2>4. DiskGenuine'
    BY <2>1 DEF Core, DiskGenuine, GenuineRecord
  <2>5. RecencyKept'
    BY <2>1 DEF RecencyKept
  <2>6. CallIndexesResident' /\ CallShape' /\ MadeFresh'
    BY <2>1 DEF CallIndexesResident, CallShape, MadeFresh, Idle
  <2> QED
    BY <2>1, <2>2, <2>3, <2>4, <2>5, <2>6
    DEF Core, TierHistory, AttemptCounted, DecidedKernelsRight, UsesInThePast
<1> QED
  BY <1>1, <1>2, <1>4, <1>5, <1>6, <1>7, <1>8, <1>9, <1>10, <1>11, <1>12,
     <1>13, <1>14, <1>15, <1>16, <1>17
  DEF Step

LEMMA NextCore == Core /\ [Next]_vars => Core'
<1> SUFFICES ASSUME Core, [Next]_vars PROVE Core'
  OBVIOUS
<1>1. CASE Next
  <2>1. Step /\ kept' \in BOOLEAN
    BY <1>1 DEF Next, Record
  <2> QED BY <2>1, StepCore
<1>2. CASE UNCHANGED vars
  <2>1. /\ UNCHANGED <<resident, entry, clock, inflight, disk, cfg, call, made, ctxCurrent>>
        /\ kept' = kept
    BY <1>2 DEF vars, state
  <2> QED BY <2>1, QuietStep DEF Core, TypeOK
<1> QED BY <1>1, <1>2

LEMMA CoreInvariance == Spec => []Core
BY InitCore, NextCore, PTL DEF Spec

----------------------------------------------------------------------------
(* Work in flight *)

\* A step that keeps all modules in flight work in place, when the host has kept
\* the context current up to here: what is enqueued is enqueued in its own module.
LEMMA SameModules ==
    ASSUME Core, kept, InFlightLoaded,
           \A t \in resident : t \in resident' /\ entry'[t].kernel = entry[t].kernel,
           \/ inflight' \subseteq inflight
           \/ \E u \in resident : inflight' = inflight \cup {<<u, entry[u].kernel>>}
    PROVE  InFlightLoaded'
BY DEF InFlightLoaded, AllLoaded

\* One step, seen from work that is in flight after it while the host has kept the
\* context current: its module stays, and a check that a wait relies on holds.
LEMMA GuardedWork ==
    ASSUME Core, Guarded, Step, kept, ~SwitchBehindCheck, inflight' # {}
    PROVE  InFlightLoaded' /\ (call'.step \in {"insert", "tune"} => ctxCurrent')
<1>t. TypeOK /\ resident \subseteq Shapes /\ entry \in [Shapes -> Entries]
  BY DEF Core, TypeOK
<1>g. InFlightLoaded /\ (call.step \in {"insert", "tune"} => ctxCurrent \/ inflight = {})
  BY DEF Guarded, CheckHolds
<1>1. ASSUME NEW s \in Shapes, NEW op \in {"prepare", "launch"}, Compile(op, s)
      PROVE  InFlightLoaded' /\ ctxCurrent'
  BY <1>1, <1>g, SameModules DEF Compile
<1>2. ASSUME NEW s \in Shapes, PrepareTouch(s) \/ LaunchFast(s)
      PROVE  InFlightLoaded' /\ ctxCurrent'
  <2>1. CASE PrepareTouch(s)
    BY <1>t, <1>g, <2>1, SameModules DEF PrepareTouch, Entries
  <2>2. CASE LaunchFast(s)
    BY <1>t, <1>g, <2>2, SameModules DEF LaunchFast, Enqueue, Entries
  <2> QED BY <1>2, <2>1, <2>2
<1>3. ASSUME NEW s \in resident, TuneStart(s), UNCHANGED <<resident, inflight>>
      PROVE  InFlightLoaded'
  <2>1. s \in Shapes
    BY <1>t
  <2>2. \A t \in resident : entry'[t].kernel = entry[t].kernel
    BY <1>t, <1>3, <2>1, TuneStartLemma
  <2> QED BY <1>3, <1>g, <2>2, SameModules
<1>4. ASSUME NEW s \in Shapes, LaunchTune(s) PROVE InFlightLoaded' /\ ctxCurrent'
  BY <1>3, <1>4 DEF LaunchTune
<1>5. ASSUME TuneHotNext PROVE InFlightLoaded' /\ ctxCurrent'
  BY <1>3, <1>5 DEF TuneHotNext, Core, CallIndexesResident
<1>6. ASSUME NEW n, TuneHotStart(n)
      PROVE  InFlightLoaded' /\ ctxCurrent'
  BY <1>6, <1>g, SameModules DEF TuneHotStart
<1>7. CASE LaunchDispatch
  <2>1. PICK s \in call.busy : Enqueue(s)
    BY <1>7 DEF LaunchDispatch
  <2>2. s \in resident /\ resident' = resident /\ ctxCurrent' = ctxCurrent /\ ctxCurrent
    BY <1>7, <2>1 DEF LaunchDispatch, Core, CallIndexesResident
  <2> QED BY <1>t, <1>g, <2>1, <2>2, SameModules DEF Enqueue, Entries
<1>8. CASE PrepareInsert \/ LaunchInsert
  <2>1. PICK s \in call.busy, e \in Entries : InsertEntry(s, e)
    <3>1. made \in Entries /\ [made EXCEPT !.lastUsed = Tick] \in Entries
      BY TickLemma DEF Core, TypeOK, Entries
    <3> QED BY <1>8, <3>1 DEF PrepareInsert, LaunchInsert
  <2>2. /\ call.step = "insert" /\ s \in Shapes \ resident
        /\ call'.step \notin {"insert", "tune"}
    BY <1>8, <2>1
    DEF PrepareInsert, LaunchInsert, Core, CallShape, CallIndexesResident, TypeOK, Calls,
        Idle
  <2>3. /\ \A t \in resident' \ {s} : entry'[t] = entry[t]
        /\ inflight' \subseteq inflight
        /\ \/ inflight' = Synchronize(inflight)
           \/ inflight' = inflight /\ resident' = resident \cup {s}
    BY <2>1, <2>2, InsertLemma DEF Core
  <2>4. inflight # {} /\ inflight' # Synchronize(inflight)
    BY <1>g, <2>2, <2>3 DEF Synchronize
  <2> QED BY <1>g, <2>2, <2>3, <2>4, SameModules
<1>9. CASE TuneFinish
  <2>1. PICK s \in call.busy : TuneEnd(s)
    BY <1>9 DEF TuneFinish
  <2>2. /\ call.step = "tune" /\ call' = AfterTune /\ s \in Shapes /\ resident' = resident
    BY <1>9, <2>1 DEF TuneFinish, Core, TypeOK, Calls
  <2>3. /\ \A t \in Shapes \ {s} : entry'[t] = entry[t]
        /\ entry'[s].kernel # entry[s].kernel => inflight' = Synchronize(inflight)
        /\ inflight' \subseteq inflight
    BY <2>1, <2>2, TuneEndLemma DEF Core
  <2>4. entry'[s].kernel = entry[s].kernel
    BY <1>g, <2>2, <2>3 DEF Synchronize
  <2>5. call'.step \notin {"insert", "tune"}
    BY <2>2 DEF AfterTune, Idle, Core, TypeOK, Calls
  <2> QED BY <1>t, <1>g, <2>2, <2>3, <2>4, <2>5, SameModules
<1>10. CASE LaunchError \/ TuneHotError \/ InsertError
  BY <1>10, <1>g, SameModules DEF LaunchError, TuneHotError, InsertError, Idle
<1>11. CASE SynchronizeCall \/ DeviceCompletes \/ SwitchContext \/ OtherProcess
  <2>1. /\ UNCHANGED <<resident, entry, call>> /\ inflight' \subseteq inflight
        /\ call.step \in {"insert", "tune"} => ctxCurrent' = ctxCurrent
    BY <1>11
    DEF SynchronizeCall, Synchronize, DeviceCompletes, SwitchContext, OtherProcess,
        SwitchBehindCheck
  <2> QED BY <1>g, <2>1, SameModules
<1>12. CASE Restart
  BY <1>12 DEF Restart
<1> QED
  BY <1>1, <1>2, <1>4, <1>5, <1>6, <1>7, <1>8, <1>9, <1>10, <1>11, <1>12
  DEF Step

LEMMA NextGuarded == Core /\ Guarded /\ [Next]_vars => Guarded'
<1> SUFFICES ASSUME Core, Guarded, [Next]_vars PROVE Guarded'
  OBVIOUS
<1>1. CASE Next
  <2>1. Step /\ kept' = (inflight' = {} \/ (kept /\ ~SwitchBehindCheck))
    BY <1>1 DEF Next, Record
  <2>2. CASE inflight' = {}
    BY <2>2 DEF Guarded, InFlightLoaded, AllLoaded, CheckHolds
  <2>3. CASE inflight' # {} /\ ~kept'
    BY <2>3 DEF Guarded, InFlightLoaded, CheckHolds
  <2>4. CASE inflight' # {} /\ kept'
    BY <2>1, <2>4, GuardedWork DEF Guarded, CheckHolds
  <2> QED BY <2>2, <2>3, <2>4
<1>2. CASE UNCHANGED vars
  BY <1>2 DEF vars, state, Guarded, InFlightLoaded, AllLoaded, CheckHolds
<1> QED BY <1>1, <1>2

LEMMA GuardedInvariance == Spec => []Guarded
<1>1. Init => Guarded
  BY DEF Init, Guarded, InFlightLoaded, AllLoaded, CheckHolds
<1> QED BY <1>1, NextGuarded, CoreInvariance, PTL DEF Spec

----------------------------------------------------------------------------
(* The invariants *)

\* Every call leaves the runtime's state well formed: counters saturate at
\* their limits and every entry, record and worklist has its type.
THEOREM TypeCorrectness == Spec => []TypeOK
<1>1. Core => TypeOK
  BY DEF Core
<1> QED BY <1>1, CoreInvariance, PTL

\* ensure_entry keeps the cache within max_cached_shapes.
THEOREM CacheWithinCapacity == Spec => []CapacityBound
<1>1. Core => CapacityBound
  BY DEF Core
<1> QED BY <1>1, CoreInvariance, PTL

\* Eviction and promotion never unload a module that enqueued work runs in, if the
\* host has kept the context current behind the checks since the device was idle:
\* no switch elsewhere, and no failure, can bring a wait into the wrong context.
THEOREM ModulesOutliveWork == Spec => []InFlightLoaded
<1>1. Guarded => InFlightLoaded
  BY DEF Guarded
<1> QED BY <1>1, GuardedInvariance, PTL

\* The same of a host that never switches the context behind a check.
THEOREM DutifulHost == Spec /\ [][~SwitchBehindCheck]_vars => []AllLoaded
<1>1. Init => kept
  BY DEF Init
<1>2. kept /\ [Next]_vars /\ [~SwitchBehindCheck]_vars => kept'
  BY DEF Next, Record, vars
<1>3. kept /\ Guarded => AllLoaded
  BY DEF Guarded, InFlightLoaded
<1> QED BY <1>1, <1>2, <1>3, GuardedInvariance, PTL DEF Spec

\* No panic inside launch or tune_hot: what a call indexes is resident, and
\* what tune_hot still has to tune still needs it.
THEOREM WorklistsResident == Spec => []CallIndexesResident
<1>1. Core => CallIndexesResident
  BY DEF Core
<1> QED BY <1>1, CoreInvariance, PTL

\* With room for two, the shape used last is never the one evicted.
THEOREM LatestUseSurvives == Spec => []RecencyKept
<1>1. Core => RecencyKept
  BY DEF Core
<1> QED BY <1>1, CoreInvariance, PTL

\* A shape is measured at most once per residency and a restored one never.
THEOREM OneMeasurement == Spec => []TierHistory
<1>1. Core => TierHistory
  BY DEF Core
<1> QED BY <1>1, CoreInvariance, PTL

\* Whatever this process, earlier ones and others sharing the directory have
\* stored, a decision file holds what was measured under the identity it is filed
\* under (persist_decision and restore_cached of src/adaptive_jit.rs).
THEOREM FiledUnderIdentity == Spec => []DiskGenuine
<1>1. Core => DiskGenuine
  BY DEF Core
<1> QED BY <1>1, CoreInvariance, PTL

\* A kernel that runs on the authority of a measurement is right on this device,
\* over restarts, changed identities and decisions of other processes.
THEOREM DecisionsRight == Spec => []DecidedKernelsRight
<1>1. Core => DecidedKernelsRight
  BY DEF Core
<1> QED BY <1>1, CoreInvariance, PTL

----------------------------------------------------------------------------
(* The action properties *)

\* The kernel, the tier and the launches of a shape that stays resident.
FinalFor(s) ==
    /\ entry[s].tier # "Baseline" => entry'[s].tier = entry[s].tier
    /\ entry'[s].kernel # entry[s].kernel => entry'[s].tier = "Tuned"
    /\ entry[s].tier = "RejectedBaseline" =>
          \A c \in Candidates : <<s, c>> \notin inflight' \ inflight

LEMMA FinalIfSame ==
    ASSUME NEW s, entry'[s] = entry[s], inflight' \subseteq inflight
    PROVE  FinalFor(s)
BY DEF FinalFor

LEMMA FinalAfterInsert ==
    ASSUME Core, NEW n \in Shapes \ resident, NEW e \in Entries, InsertEntry(n, e),
           NEW s \in resident \cap resident'
    PROVE  FinalFor(s)
<1>1. entry'[s] = entry[s] /\ inflight' \subseteq inflight
  BY InsertLemma DEF Core
<1> QED BY <1>1, FinalIfSame

LEMMA FinalAfterEnqueue ==
    ASSUME Core, NEW u \in resident, RequireLaunchable(u), Enqueue(u),
           NEW s \in resident
    PROVE  FinalFor(s)
<1>1. TypeOK /\ u \in Shapes /\ s \in Shapes
  BY DEF Core, TypeOK
<1>2. SaturatingInc(entry[u].launches, MaxLaunches) \in 0..MaxLaunches
  BY <1>1, CounterAssumption DEF TypeOK, Entries, SaturatingInc
<1>3. entry' = [entry EXCEPT ![u].launches = SaturatingInc(entry[u].launches, MaxLaunches),
                             ![u].lastUsed = Tick]
  BY DEF Enqueue
<1>4. /\ \A t \in Shapes \ {u} : entry'[t] = entry[t]
      /\ entry'[u].kernel = entry[u].kernel /\ entry'[u].tier = entry[u].tier
  BY <1>1, <1>2, <1>3, UseLemma
<1>5. inflight' = inflight \cup {<<u, entry[u].kernel>>}
  BY DEF Enqueue
<1> QED BY <1>1, <1>4, <1>5 DEF FinalFor, RequireLaunchable

LEMMA FinalAfterTuneStart ==
    ASSUME Core, NEW u \in resident, TuneStart(u), inflight' = inflight,
           NEW s \in resident
    PROVE  FinalFor(s)
<1>1. TypeOK /\ u \in Shapes /\ s \in Shapes
  BY DEF Core, TypeOK
<1>2. /\ \A t \in Shapes \ {u} : entry'[t] = entry[t]
      /\ entry'[u].kernel = entry[u].kernel /\ entry'[u].tier = entry[u].tier
  BY <1>1, TuneStartLemma
<1> QED BY <1>1, <1>2 DEF FinalFor

LEMMA FinalAfterTune ==
    ASSUME Core, TuneFinish, NEW s \in resident
    PROVE  FinalFor(s)
<1>1. PICK u \in call.busy : TuneEnd(u)
  BY DEF TuneFinish
<1>2. TypeOK /\ DiskGenuine /\ u \in Shapes /\ s \in Shapes /\ u \in resident
  BY <1>1 DEF Core, TypeOK, Calls, CallIndexesResident, TuneFinish
<1>3. entry[u].tier = "Baseline"
  BY <1>1, <1>2 DEF Core, TierHistory, BeingTuned, TuneFinish
<1>4. /\ \A t \in Shapes \ {u} : entry'[t] = entry[t]
      /\ entry'[u].kernel # entry[u].kernel => entry'[u].tier = "Tuned"
      /\ inflight' \subseteq inflight
  BY <1>1, <1>2, TuneEndLemma
<1> QED BY <1>2, <1>3, <1>4 DEF FinalFor

\* The entry that goes in has its type, in prepare and in launch.
LEMMA InsertsEntry ==
    ASSUME Core, PrepareInsert \/ LaunchInsert
    PROVE  \E n \in Shapes \ resident, e \in Entries : InsertEntry(n, e)
<1>1. made \in Entries /\ [made EXCEPT !.lastUsed = Tick] \in Entries
  BY TickLemma DEF Core, TypeOK, Entries
<1>2. call.step = "insert"
  BY DEF PrepareInsert, LaunchInsert, Core, CallShape
<1>3. call.busy \subseteq Shapes \ resident
  BY <1>2 DEF Core, TypeOK, Calls, CallIndexesResident
<1> QED BY <1>1, <1>3 DEF PrepareInsert, LaunchInsert

LEMMA FinalStep ==
    ASSUME Core, [Next]_vars, NEW s \in resident \cap resident' PROVE FinalFor(s)
<1>1. CASE PrepareInsert \/ LaunchInsert
  BY <1>1, InsertsEntry, FinalAfterInsert
<1>2. ASSUME NEW n \in Shapes, NEW op \in {"prepare", "launch"}, Compile(op, n)
      PROVE  FinalFor(s)
  BY <1>2, FinalIfSame DEF Compile
<1>3. ASSUME NEW n \in Shapes, PrepareTouch(n) PROVE FinalFor(s)
  BY <1>3 DEF PrepareTouch, FinalFor, Core, TypeOK, Entries
<1>4. ASSUME NEW n \in Shapes, LaunchFast(n) PROVE FinalFor(s)
  BY <1>4, FinalAfterEnqueue DEF LaunchFast
<1>5. ASSUME NEW n \in Shapes, LaunchTune(n) PROVE FinalFor(s)
  BY <1>5, FinalAfterTuneStart DEF LaunchTune
<1>6. CASE LaunchDispatch
  BY <1>6, FinalAfterEnqueue DEF LaunchDispatch, Core, CallIndexesResident
<1>7. CASE TuneHotNext
  BY <1>7, FinalAfterTuneStart DEF TuneHotNext, Core, CallIndexesResident
<1>8. CASE TuneFinish
  BY <1>8, FinalAfterTune
<1>9. ASSUME NEW n, TuneHotStart(n) PROVE FinalFor(s)
  BY <1>9, FinalIfSame DEF TuneHotStart
<1>10. CASE LaunchError \/ TuneHotError \/ InsertError \/ SynchronizeCall
            \/ DeviceCompletes \/ SwitchContext \/ OtherProcess \/ UNCHANGED vars
  BY <1>10, FinalIfSame
  DEF LaunchError, TuneHotError, InsertError, SynchronizeCall, Synchronize,
      DeviceCompletes, SwitchContext, OtherProcess, vars, state
<1>11. CASE Restart
  BY <1>11 DEF Restart
<1> QED
  BY <1>1, <1>2, <1>3, <1>4, <1>5, <1>6, <1>7, <1>8, <1>9, <1>10, <1>11
  DEF Next, Step

\* While a shape stays resident a decided tier is final, its kernel changes only
\* by promotion and, once rejected, it is never enqueued by launch again.
THEOREM DecisionsAreFinal == Spec => DecisionsFinal
<1>1. Core /\ [Next]_vars =>
         [\A s \in resident \cap resident' :
            /\ entry[s].tier # "Baseline" => entry'[s].tier = entry[s].tier
            /\ entry'[s].kernel # entry[s].kernel => entry'[s].tier = "Tuned"
            /\ entry[s].tier = "RejectedBaseline" =>
                  \A c \in Candidates : <<s, c>> \notin inflight' \ inflight]_vars
  BY FinalStep DEF FinalFor
<1> QED BY <1>1, CoreInvariance, PTL DEF Spec, DecisionsFinal

\* tune_hot is only ever working when the policy allows it.
HotCallAllowed == call.op = "tune_hot" => cfg.policy # "Disabled"

LEMMA HotCallInvariance == Spec => []HotCallAllowed
<1>1. Init => HotCallAllowed
  BY DEF Init, HotCallAllowed, Idle
<1>2. Core /\ HotCallAllowed /\ [Next]_vars => HotCallAllowed'
  <2> SUFFICES ASSUME Core, HotCallAllowed, [Next]_vars PROVE HotCallAllowed'
    OBVIOUS
  <2>1. ASSUME NEW s \in Shapes, PrepareTouch(s) \/ LaunchFast(s) \/ LaunchTune(s)
        PROVE  HotCallAllowed'
    BY <2>1 DEF HotCallAllowed, PrepareTouch, LaunchFast, LaunchTune, CallFor
  <2>2. ASSUME NEW s \in Shapes, NEW op \in {"prepare", "launch"}, Compile(op, s)
        PROVE  HotCallAllowed'
    BY <2>2 DEF HotCallAllowed, Compile, CallFor
  <2>3. ASSUME NEW n, TuneHotStart(n) PROVE HotCallAllowed'
    BY <2>3 DEF HotCallAllowed, TuneHotStart, PendingShapes
  <2>4. CASE TuneHotNext \/ TuneFinish
    <3>1. cfg' = cfg
      BY <2>4 DEF TuneHotNext, TuneFinish
    <3>2. call'.op \in {call.op, "idle"}
      <4>1. CASE TuneHotNext
        BY <4>1 DEF TuneHotNext, Core, TypeOK, Calls
      <4>2. CASE TuneFinish
        BY <4>2 DEF TuneFinish, AfterTune, Idle, Core, TypeOK, Calls
      <4> QED BY <2>4, <4>1, <4>2
    <3> QED BY <3>1, <3>2 DEF HotCallAllowed
  <2>5. CASE PrepareInsert \/ LaunchInsert \/ InsertError \/ LaunchDispatch
             \/ LaunchError \/ TuneHotError \/ Restart
    BY <2>5
    DEF HotCallAllowed, PrepareInsert, LaunchInsert, InsertError, LaunchDispatch,
        LaunchError, TuneHotError, Restart, Idle, Core, TypeOK, Calls
  <2>6. CASE SynchronizeCall \/ DeviceCompletes \/ SwitchContext \/ OtherProcess
             \/ UNCHANGED vars
    BY <2>6 DEF HotCallAllowed, SynchronizeCall, DeviceCompletes, SwitchContext,
                OtherProcess, vars, state
  <2> QED BY <2>1, <2>2, <2>3, <2>4, <2>5, <2>6 DEF Next, Step
<1> QED BY <1>1, <1>2, CoreInvariance, PTL DEF Spec

\* An attempt is spent on no other shape than the one that is tuned, and on
\* none by the other calls.
LEMMA AttemptStep ==
    ASSUME Core, HotCallAllowed, [Next]_vars, NEW s \in resident \cap resident',
           entry'[s].attempts > entry[s].attempts
    PROVE  /\ cfg.policy # "Disabled"
           /\ cfg.policy = "Deferred" => call.op = "tune_hot"
<1>1. TypeOK /\ s \in Shapes /\ entry[s].attempts \in Nat
  BY DEF Core, TypeOK, Entries
<1>2. entry'[s] # entry[s] /\ entry'[s].attempts # entry[s].attempts
  BY <1>1
<1>3. CASE PrepareInsert \/ LaunchInsert
  BY <1>2, <1>3, InsertsEntry, InsertLemma DEF Core
<1>4. ASSUME NEW n \in Shapes, NEW op \in {"prepare", "launch"}, Compile(op, n)
      PROVE  FALSE
  BY <1>2, <1>4 DEF Compile
<1>5. ASSUME NEW n \in Shapes, PrepareTouch(n) PROVE FALSE
  BY <1>1, <1>2, <1>5 DEF PrepareTouch, TypeOK, Entries
<1>6. ASSUME NEW n \in Shapes, Enqueue(n) PROVE FALSE
  BY <1>1, <1>2, <1>6 DEF Enqueue, TypeOK, Entries
<1>7. ASSUME NEW n \in Shapes, LaunchFast(n) PROVE FALSE
  BY <1>6, <1>7 DEF LaunchFast
<1>8. CASE LaunchDispatch
  BY <1>1, <1>6, <1>8 DEF LaunchDispatch, TypeOK, Calls
<1>9. ASSUME NEW n \in Shapes, LaunchTune(n) PROVE cfg.policy = "OnLaunch"
  BY <1>9 DEF LaunchTune, NeedsTuning
<1>10. CASE TuneHotNext
  BY <1>10 DEF TuneHotNext, HotCallAllowed
<1>11. CASE TuneFinish
  <2>1. PICK u \in call.busy : TuneEnd(u)
    BY <1>11 DEF TuneFinish
  <2>2. u \in Shapes
    BY <1>1, <2>1 DEF TypeOK, Calls
  <2> QED BY <1>1, <1>2, <2>1, <2>2, TuneEndLemma DEF Core
<1>12. ASSUME NEW n, TuneHotStart(n) PROVE FALSE
  BY <1>2, <1>12 DEF TuneHotStart
<1>13. CASE LaunchError \/ TuneHotError \/ InsertError \/ SynchronizeCall
            \/ DeviceCompletes \/ SwitchContext \/ OtherProcess \/ UNCHANGED vars
  BY <1>2, <1>13
  DEF LaunchError, TuneHotError, InsertError, SynchronizeCall, DeviceCompletes,
      SwitchContext, OtherProcess, vars, state
<1>14. CASE Restart
  BY <1>14 DEF Restart
<1> QED
  BY <1>3, <1>4, <1>5, <1>7, <1>8, <1>9, <1>10, <1>11, <1>12, <1>13, <1>14
  DEF Next, Step

\* Nothing is measured under the disabled policy, and under the deferred one
\* only tune_hot measures, whatever prepare and launch do.
THEOREM PolicyObeyed == Spec => TuningOnlyWhereAllowed
<1>1. Core /\ HotCallAllowed /\ [Next]_vars =>
         [\A s \in resident \cap resident' :
            entry'[s].attempts > entry[s].attempts =>
               /\ cfg.policy # "Disabled"
               /\ cfg.policy = "Deferred" => call.op = "tune_hot"]_vars
  BY AttemptStep
<1> QED BY <1>1, CoreInvariance, HotCallInvariance, PTL DEF Spec, TuningOnlyWhereAllowed
=============================================================================
