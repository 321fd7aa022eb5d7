---------------------------- MODULE MCMemoryLab ----------------------------
(***************************************************************************)
(* An instance for TLC of the programs of Memory_Lab.                      *)
(***************************************************************************)
EXTENDS MemoryLab

\* Trace files: a request that moves, an id freed twice, fewer requests than
\* announced and more, an id never freed, and one that grows and whose byte is
\* negative as a char.
A(i, n) == [type |-> "a", index |-> i, size |-> n]
R(i, n) == [type |-> "r", index |-> i, size |-> n]
F(i) == [type |-> "f", index |-> i, size |-> 0]
File(ids, lines) == [ids |-> ids, ops |-> Len(lines), lines |-> lines]
SomeTraces ==
  {File(3, <<A(0, 3), A(1, 1), F(0), A(2, 4)>>),
   File(2, <<A(0, 1), A(1, 3), R(0, 2), F(1), R(0, 4)>>),
   File(2, <<A(0, 2), F(0), F(0), A(1, 3), F(1)>>),
   File(3, <<A(2, 1), R(2, 2)>>),
   [ids |-> 1, ops |-> 1, lines |-> <<A(0, 1), F(0)>>]}

ASSUME TracesDisciplined == \A t \in SomeTraces : WellFormed(t) => Disciplined(t)

\* Nine blocks of equal, of nearly equal and of very different sizes.
NineBlocks == 1 .. 9
NineSizes == <<3, 3, 4, 5, 7, 8, 8, 9, 12>>
=============================================================================
