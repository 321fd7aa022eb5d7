-------------------------------- MODULE Heap --------------------------------
(***************************************************************************)
(* What the two allocators of Memory_Lab (malloclab-handout/mm.c, with a   *)
(* tree of free blocks, and malloclab-handout_explicit/mm.c, with a list)  *)
(* have in common: the words of the heap that hold boundary tags, growing  *)
(* the heap with mem_sbrk (memlib.c), and the case analysis of mm_free.    *)
(*                                                                         *)
(* Addresses count units of 8 bytes; the heap is 1 .. MaxHeap.  A block of *)
(* n units at p has its header at p and its footer at p + n - 1, both the  *)
(* tag [size |-> n, bits |-> b]: bit 0 of b says that the block is         *)
(* allocated, bit 1 that the next one is.  The payload starts at p + 1.    *)
(* A tag stays in memory when blocks are joined, until the word is used    *)
(* for something else: then it is NoTag.                                   *)
(***************************************************************************)
EXTENDS Naturals, FiniteSets

CONSTANTS MaxHeap,    \* MAX_HEAP, in units of 8 bytes
          Requests    \* numbers of bytes asked for

Unit == 1 .. MaxHeap
\* ALIGN(size + 2*SIZE_T_SIZE): a header and a footer of 8 bytes each.
Units(bytes) == (bytes + 16 + 7) \div 8

Tag == [size : 0 .. MaxHeap, bits : 0 .. 3]
NoTag == [size |-> 0, bits |-> 0]
\* A heap: its tags, the break of memlib, lst_start and lst_end.
HeapState == [tag : [Unit -> Tag], brk : 1 .. MaxHeap + 1,
              start : 1 .. MaxHeap + 1, end : 1 .. MaxHeap + 1]

IsAllocated(h, p) == h.tag[p].bits % 2 = 1
\* mem_sbrk has room.
Room(h, n) == h.brk + n <= MaxHeap + 1

SetTags(tag, p, n, b) ==
  LET t == [size |-> n, bits |-> b] IN [tag EXCEPT ![p] = t, ![p + n - 1] = t]

\* The block that ends before p learns whether the one at p is allocated.
TellPrev(tag, p, bit) ==
  [tag EXCEPT ![p - 1].bits = (@ % 2) + 2 * bit,
              ![p - tag[p - 1].size].bits = (@ % 2) + 2 * bit]

\* The words of the payload of a block now hold the user's data.
Use(tag, p, n) == [u \in Unit |-> IF u \in p + 1 .. p + n - 2 THEN NoTag ELSE tag[u]]

\* A new block of n units at the end of the heap.
Extend(h, n, b) ==
  [h EXCEPT !.tag = SetTags(@, h.brk, n, b), !.brk = @ + n, !.end = h.brk + n]

-----------------------------------------------------------------------------
(* mm_free: the nine cases are three choices, whether the block before is  *)
(* free and joined, whether the one behind is, and whether there is one    *)
(* behind at all.  Tags of any other form are case 9, "the only block".    *)
None == 4      \* -1 in the code: there is no such neighbour
Around(h, p) ==
  LET n == h.tag[p].size
  IN [cur |-> h.tag[p].bits,
      prev |-> IF p = h.start THEN None ELSE h.tag[p - 1].bits,
      next |-> IF p + n = h.end THEN None ELSE h.tag[p + n].bits]
Listed(a) ==
  a.prev \in {2, 3, None} /\ (a.next # None \/ (a.cur = 1 /\ a.prev # None))
JoinsPrev(a) == Listed(a) /\ a.prev = 2
JoinsNext(a) == Listed(a) /\ a.cur = 1 /\ a.next # None

\* The block that p becomes.
Joined(h, p) ==
  LET a == Around(h, p)
      n == h.tag[p].size
      before == IF JoinsPrev(a) THEN h.tag[p - 1].size ELSE 0
      behind == IF JoinsNext(a) THEN h.tag[p + n].size ELSE 0
  IN [at |-> p - before, size |-> before + n + behind,
      bits |-> IF ~Listed(a) \/ a.next = None THEN 0
               ELSE IF a.cur = 3 THEN 2 ELSE a.next]

FreeTags(h, p) ==
  LET a == Around(h, p)
      j == Joined(h, p)
      told == IF Listed(a) /\ a.prev = 3 THEN TellPrev(h.tag, p, 0) ELSE h.tag
  IN SetTags(told, j.at, j.size, j.bits)

-----------------------------------------------------------------------------
\* The blocks from lst_start to lst_end, with Astray if the tags do not lead
\* from one to the next.
Astray == 0
Blocks(h) ==
  LET From[p \in 1 .. h.end] ==
        IF p = h.end THEN {}
        ELSE IF h.tag[p].size = 0 \/ p + h.tag[p].size > h.end THEN {Astray}
        ELSE {p} \cup From[p + h.tag[p].size]
  IN From[h.start]

\* Blocks tile the heap: both tags agree, and each tells of the next block.
Tiled(h) ==
  /\ h.end = h.brk
  /\ Astray \notin Blocks(h)
  /\ \A p \in Blocks(h) :
       LET q == p + h.tag[p].size
       IN /\ h.tag[p].size >= 3 /\ h.tag[q - 1] = h.tag[p]
          /\ (h.tag[p].bits \div 2 = 1) <=> q # h.end /\ IsAllocated(h, q)

\* The allocated blocks are those of the payloads in ranges, which lie
\* between their block's header and footer.
Carries(h, ranges) ==
  /\ {x.lo - 1 : x \in ranges} = {p \in Blocks(h) \ {Astray} : IsAllocated(h, p)}
  /\ \A x \in ranges : x.bytes <= 8 * (h.tag[x.lo - 1].size - 2)
=============================================================================
