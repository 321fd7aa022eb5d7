-------------------------------- MODULE Fsecs --------------------------------
(***************************************************************************)
(* How mdriver measures a function: fsecs.c with its three timers, the     *)
(* cycle counter with the K-best scheme (fcyc.c, clock.c), the interval    *)
(* timer and gettimeofday (ftimer.c).  Time counts cycles or microseconds; *)
(* a run of the function takes one of Durations, during which the timer    *)
(* interrupt may have fired.  A result of the last two is the time of all  *)
(* runs, which is divided by their number.                                 *)
(***************************************************************************)
EXTENDS Clock, Sequences

CONSTANTS
  Word,        \* values of a word, 2^32
  Kbest,       \* kbest, 3
  MaxSamples,  \* maxsamples, 20
  Percent,     \* epsilon in hundredths, 1
  Runs,        \* runs for the other timers, 10
  Million,     \* microseconds of a second
  MAX_ETIME,   \* seconds of the interval timer
  Durations,   \* time that a run may take
  Ratios       \* what callibrate may find

VARIABLES
  timer,         \* "fcyc", "itimer" or "gettod", of config.h
  pc,            \* "start", "run" or "done"
  now,           \* the time
  start,         \* what start_counter or the timer noted: two words, or sec and usec
  cyc_per_tick,
  values, samplecount,
  runs,          \* times the runs took, corrected by the interrupts in them
  result
vars == <<timer, pc, now, start, cyc_per_tick, values, samplecount, runs, result>>

Init ==
  /\ timer \in {"fcyc", "itimer", "gettod"} /\ pc = "start"
  /\ now \in 0 .. (IF timer = "fcyc" THEN Word * Word - 1 ELSE Million - 1)
  /\ start = Pair(0, Word) /\ cyc_per_tick = 0
  /\ values = [i \in 1 .. Kbest |-> 0] /\ samplecount = 0 /\ runs = <<>> /\ result = 0

-----------------------------------------------------------------------------
(* fcyc                                                                    *)
\* start_comp_counter: callibrate looks at a hundred interrupts and keeps the
\* least ratio above a threshold, if there is one.
StartCounter ==
  /\ timer = "fcyc" /\ pc = "start"
  /\ cyc_per_tick' \in IF cyc_per_tick = 0 THEN {0} \cup Ratios ELSE {cyc_per_tick}
  /\ start' = Pair(now, Word) /\ pc' = "run"
  /\ UNCHANGED <<timer, now, values, samplecount, runs, result>>

\* The insertion sort moves the value at pos to its place.
Unsorted == [kept : [1 .. Kbest -> Int], pos : 1 .. Kbest]
Sift[x \in Unsorted] ==
  LET v == x.kept
      p == x.pos
  IN IF p > 1 /\ v[p - 1] > v[p]
     THEN Sift[[kept |-> [v EXCEPT ![p - 1] = v[p], ![p] = v[p - 1]], pos |-> p - 1]]
     ELSE v
Insert(val, p) == Sift[[kept |-> [values EXCEPT ![p] = val], pos |-> p]]
\* Mutant: a value that is not among the best replaces the last one too.
AddSampleAlways(val) == Insert(val, IF samplecount < Kbest THEN samplecount + 1 ELSE Kbest)
AddSample(val) ==
  IF samplecount < Kbest THEN Insert(val, samplecount + 1)
  ELSE IF val < values[Kbest] THEN Insert(val, Kbest)
  ELSE values

HasConverged == samplecount' >= Kbest /\ (100 + Percent) * values'[1] >= 100 * values'[Kbest]

\* f(argp), get_comp_counter and add_sample.
Sample(duration, ticks) ==
  /\ timer = "fcyc" /\ pc = "run"
  /\ now' = (now + duration) % (Word * Word)
  /\ values' = AddSample(Elapsed(start, Pair(now', Word), Word) - ticks * cyc_per_tick)
  /\ samplecount' = samplecount + 1
  /\ runs' = Append(runs, duration - ticks * cyc_per_tick)
  /\ IF HasConverged \/ samplecount' >= MaxSamples
     THEN pc' = "done" /\ result' = values'[1]
     ELSE pc' = "start" /\ UNCHANGED result
  /\ UNCHANGED <<timer, start, cyc_per_tick>>

-----------------------------------------------------------------------------
(* ftimer_itimer and ftimer_gettod                                         *)
\* The interval timer is set to MAX_ETIME and runs down.
Reading == IF timer = "gettod" THEN Pair(now', Million)
           ELSE Pair(MAX_ETIME * Million - now', Million)
Begin ==
  /\ timer # "fcyc" /\ pc = "start"
  /\ IF timer = "itimer" THEN now' = 0 ELSE UNCHANGED now
  /\ start' = Reading /\ pc' = "run"
  /\ UNCHANGED <<timer, cyc_per_tick, values, samplecount, runs, result>>

Run(duration) ==
  /\ timer # "fcyc" /\ pc = "run"
  /\ now' = now + duration
  /\ runs' = Append(runs, duration) /\ samplecount' = samplecount + 1
  /\ IF samplecount' = Runs
     THEN /\ pc' = "done"
          /\ result' = IF timer = "gettod" THEN Since(start, Reading, Million)
                       ELSE Since(Reading, start, Million)
     ELSE UNCHANGED <<pc, result>>
  /\ UNCHANGED <<timer, start, cyc_per_tick, values>>

Next == \/ StartCounter \/ Begin
        \/ \E d \in Durations : Run(d) \/ \E ticks \in {0, 1} : Sample(d, ticks)
Spec == Init /\ [][Next]_vars

-----------------------------------------------------------------------------
(* The state is well formed.                                               *)
TypeOK ==
  /\ timer \in {"fcyc", "itimer", "gettod"} /\ pc \in {"start", "run", "done"} /\ now \in Nat
  /\ start \in [hi : Nat, lo : Nat] /\ cyc_per_tick \in {0} \cup Ratios
  /\ values \in [1 .. Kbest -> Int] /\ samplecount = Len(runs)
  /\ runs \in Seq(Int) /\ result \in Int

(* What is reported is what was measured: the K-best scheme returns the    *)
(* least of the runs' times, whatever their order, when the words of the   *)
(* counter wrap around between two readings and when the correction makes  *)
(* a time negative, and keeps the Kbest least ones in order to decide when *)
(* to stop; the other timers return the time of all runs.                  *)
Total[k \in Nat] == IF k = 0 THEN 0 ELSE Total[k - 1] + runs[k]
AtMost(x) == {k \in DOMAIN runs : runs[k] <= x}
Below(x) == {k \in DOMAIN runs : runs[k] < x}
Measures ==
  /\ timer = "fcyc" =>
       /\ \A i \in 1 .. Kbest : i <= samplecount =>
            Cardinality(Below(values[i])) < i /\ i <= Cardinality(AtMost(values[i]))
       /\ pc = "done" => \E k \in DOMAIN runs : result = runs[k] /\ Below(result) = {}
  /\ timer # "fcyc" /\ pc = "done" => result = Total[Runs]
=============================================================================
