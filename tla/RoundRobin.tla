----------------------------- MODULE RoundRobin -----------------------------
(***************************************************************************)
(* measure_round_robin of src/empirical_autotune.rs: every kernel of a     *)
(* subset is timed once per round, interleaved, and the round's starting   *)
(* slot rotates.  The samples of a slot become its Timing.  Slots count    *)
(* from 0, as in the code.                                                 *)
(* SharedProfile runs it as the measurement of a compilation.              *)
(***************************************************************************)
EXTENDS Integers, Sequences, FiniteSets, SequencesExt

CONSTANTS
    Requests,   \* <<slots, rounds>> of the measurements asked for, at least one slot
    Times       \* times one batch may take, even so that medians are whole

VARIABLES
    slots, rounds,    \* the request
    round, offset,    \* loop variables
    samples,          \* samples taken of every slot
    log,              \* the slots in the order they were timed
    state             \* "idle", "running", "done" or "error"

vars == <<slots, rounds, round, offset, samples, log, state>>

Slots == 0..(slots - 1)

\* Nothing has been measured yet.
Init ==
    /\ slots = 1 /\ rounds = 0
    /\ round = 0 /\ offset = 0
    /\ samples = [s \in Slots |-> <<>>]
    /\ log = <<>>
    /\ state = "idle"

\* A measurement of n kernels in r rounds is called for.
Start(n, r) ==
    /\ state # "running"
    /\ slots' = n /\ rounds' = r
    /\ round' = 0 /\ offset' = 0
    /\ samples' = [s \in 0..(n - 1) |-> <<>>]
    /\ log' = <<>>
    /\ state' = IF r = 0 THEN "done" ELSE "running"

SlotFixed(off, r) == off
SlotSkipping(off, r) == (off * (r + 1)) % slots
\* The slot timed at a position of a round.
Slot(off, r) == (off + r) % slots

\* One batch is timed; the loops advance.
Time ==
    /\ state = "running"
    /\ \E us \in Times :
          samples' = [samples EXCEPT ![Slot(offset, round)] = Append(@, us)]
    /\ log' = Append(log, Slot(offset, round))
    /\ offset' = (offset + 1) % slots
    /\ round' = IF offset + 1 = slots THEN round + 1 ELSE round
    /\ state' = IF offset + 1 = slots /\ round + 1 = rounds THEN "done" ELSE "running"
    /\ UNCHANGED <<slots, rounds>>

\* The driver fails a batch and the measurement returns its error.
TimeError ==
    /\ state = "running"
    /\ state' = "error"
    /\ UNCHANGED <<slots, rounds, round, offset, samples, log>>

Next == (\E r \in Requests : Start(r[1], r[2])) \/ Time \/ TimeError

Spec == Init /\ [][Next]_vars

----------------------------------------------------------------------------
(* From samples to a Timing *)

MedianUnsorted(s) ==
    LET n == Len(s) IN
    IF n % 2 = 1 THEN s[n \div 2 + 1] ELSE (s[n \div 2] + s[n \div 2 + 1]) \div 2
\* sort_by of median: the places of a sequence in the order of what they hold.
Order(s) ==
    CHOOSE p \in Bijection(DOMAIN s, DOMAIN s) :
        \A i, j \in DOMAIN s : i < j => s[p[i]] <= s[p[j]]
\* median: the middle sample, or the mean of the two middle ones.
Median(s) ==
    LET n == Len(s)
        v == [i \in DOMAIN s |-> s[Order(s)[i]]] IN
    IF n % 2 = 1 THEN v[n \div 2 + 1] ELSE (v[n \div 2] + v[n \div 2 + 1]) \div 2

\* The fold to minimum and maximum of the samples, and their median.
TimingOf(s) ==
    [best |-> CHOOSE x \in ToSet(s) : \A y \in ToSet(s) : x <= y,
     median |-> Median(s),
     max |-> CHOOSE x \in ToSet(s) : \A y \in ToSet(s) : x >= y]

----------------------------------------------------------------------------
(* Properties *)

\* No kernel is favoured by its place: at any time the numbers of samples of two
\* slots differ by at most one, so that none runs ahead on a warmer clock, and no
\* slot opens a second round before every other slot has opened one.
RoundsFair ==
    LET opened(s) == Cardinality({i \in 1..Len(log) :
                                    (i - 1) % slots = 0 /\ log[i] = s}) IN
    \A s, t \in Slots :
        /\ Len(samples[s]) - Len(samples[t]) <= 1
        /\ opened(s) - opened(t) <= 1

\* A completed measurement has rounds samples of every slot and a timing that
\* the checks of screen_retains_baseline accept; its median splits the samples.
TimingSound ==
    state = "done" /\ rounds > 0 =>
        \A s \in Slots :
            LET v == samples[s]
                t == TimingOf(v)
                below == Cardinality({i \in 1..rounds : v[i] < t.median})
                above == Cardinality({i \in 1..rounds : v[i] > t.median}) IN
            /\ Len(v) = rounds
            /\ t.best <= t.median /\ t.median <= t.max
            /\ 2 * below <= rounds /\ 2 * above <= rounds
=============================================================================
