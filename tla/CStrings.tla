------------------------------ MODULE CStrings ------------------------------
(***************************************************************************)
(* Characters in buffers, as the C library and rio_readlineb treat them.   *)
(***************************************************************************)
EXTENDS Integers, Sequences, SequencesExt

\* strchr from position i on; 0 when there is none.
StrChr(s, c, i) == SelectInSubSeq(s, i, Len(s), LAMBDA x : x = c)

\* What a buffer is as a string: up to its zero.
Nul == "0"
CString(s) == LET zero == StrChr(s, Nul, 1) IN IF zero = 0 THEN s ELSE SubSeq(s, 1, zero - 1)

\* How many characters of s a reader of lines takes, with room for maxlen
\* with the zero: a line with its end, or what fits.  More than s has where
\* it has to wait for more.
LineLength(s, maxlen) ==
  LET end == StrChr(s, "\n", 1)
  IN IF end # 0 /\ end < maxlen THEN end ELSE maxlen - 1
From(s, i) == SubSeq(s, i, Len(s))
Blanks(k) == [i \in 1 .. k |-> " "]
=============================================================================
