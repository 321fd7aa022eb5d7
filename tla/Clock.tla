-------------------------------- MODULE Clock --------------------------------
(***************************************************************************)
(* Readings of a clock in two parts: the high and low words of the cycle   *)
(* counter (clock.c), seconds and microseconds (ftimer.c).                 *)
(***************************************************************************)
EXTENDS Integers, FiniteSets

\* access_counter, gettimeofday: a time in units of `base'.
Pair(t, base) == [hi |-> t \div base, lo |-> t % base]
At(p, base) == p.hi * base + p.lo

\* Mutant: nothing is borrowed from the high words.
ElapsedNoBorrow(from, to, word) ==
  ((to.hi - from.hi) % word) * word + ((to.lo - from.lo) % word)
\* get_counter: unsigned differences of words, with a borrow.
Elapsed(from, to, word) ==
  LET lo == (to.lo - from.lo) % word
      borrow == IF lo > to.lo THEN 1 ELSE 0
  IN ((to.hi - from.hi - borrow) % word) * word + lo

\* ftimer_gettod, get_etime: differences of both parts.
Since(from, to, base) == base * (to.hi - from.hi) + (to.lo - from.lo)
=============================================================================
