------------------------------- MODULE MmList -------------------------------
(***************************************************************************)
(* The allocator of Memory_Lab/malloclab-handout_explicit/mm.c: blocks     *)
(* with boundary tags, the free ones in a doubly linked list whose         *)
(* pointers are kept in the blocks.  malloc takes the front of the first   *)
(* block with 24 bytes to spare; free joins neighbours and puts the result *)
(* at the head.  It is driven like Mm.                                     *)
(*                                                                         *)
(* A heap begins with a block of 16 bytes that mm_init makes and that is   *)
(* outside lst_start .. lst_end.  The pointers of a block that is not in   *)
(* the list are 0 here: its words hold user data or are not read.  The     *)
(* tests of tags that select a case of mm_free agree with those of Heap as *)
(* long as the tags are consistent (HeapTiled).                            *)
(***************************************************************************)
EXTENDS Heap

VARIABLES
  heap,        \* tags, break, lst_start and lst_end
  list,        \* lst_start_free and the pointers of the free blocks
  ranges,      \* the driver's payloads in use: [lo, bytes]
  pc,          \* "trace", "exit" (in mm_exit) or "done"
  lst_tracker  \* where mm_exit is
vars == <<heap, list, ranges, pc, lst_tracker>>

Null == 0
Link == Unit \cup {Null}
List == [head : Link, next : [Unit -> Link], prev : [Unit -> Link]]
EmptyList == [head |-> Null, next |-> [u \in Unit |-> Null], prev |-> [u \in Unit |-> Null]]

\* mm_init
FreshHeap ==
  [tag |-> SetTags([u \in Unit |-> NoTag], 1, 2, 1), brk |-> 3, start |-> 1, end |-> 1]

Init ==
  /\ heap = FreshHeap /\ list = EmptyList
  /\ ranges = {} /\ pc = "trace" /\ lst_tracker = 1

-----------------------------------------------------------------------------
(* The list.  Its functions change only pointers that are not NULL.        *)
SetNext(l, p, q) == IF p = Null THEN l ELSE [l EXCEPT !.next[p] = q]
SetPrev(l, p, q) == IF p = Null THEN l ELSE [l EXCEPT !.prev[p] = q]
Forget(l, p) == SetNext(SetPrev(l, p, Null), p, Null)

\* The neighbours of p in the list are linked to one another; p keeps its
\* pointers.
Bypass(l, p) == SetPrev(SetNext(l, l.prev[p], l.next[p]), l.next[p], l.prev[p])

\* p becomes the head.
Push(l, p) ==
  [SetPrev(SetNext(l, p, l.head), l.head, p) EXCEPT !.head = p, !.prev[p] = Null]

\* The rest q of a block takes the place of the block p.
Succeed(l, p, q) ==
  LET m == [l EXCEPT !.next[q] = l.next[p], !.prev[q] = l.prev[p],
                     !.head = IF @ = p THEN q ELSE @]
  IN Forget(SetPrev(SetNext(m, l.prev[p], q), l.next[p], q), p)

\* The search ends at a NULL pointer or back at the head.
FirstFit(n) ==
  LET Fit[q \in Link] ==
        IF q = Null THEN Null
        ELSE IF heap.tag[q].size >= n + 3 THEN q
        ELSE IF list.next[q] = list.head /\ q # list.head THEN Null
        ELSE Fit[list.next[q]]
  IN Fit[list.head]

-----------------------------------------------------------------------------
\* mm_malloc returns the block of n units at p of heap h for r bytes; the
\* driver notes its range and fills it.
Return(h, p, n, r) ==
  /\ heap' = [h EXCEPT !.tag = Use(@, p, n)]
  /\ ranges' = ranges \cup {[lo |-> p + 1, bytes |-> r]}

\* Mutant: the rest forgets whether the block behind it is allocated.
MallocFrontUntold(r) ==
  LET p == FirstFit(Units(r))
      n == Units(r)
      split == SetTags(SetTags(heap.tag, p, n, 1), p + n, heap.tag[p].size - n, 0)
  IN /\ pc = "trace" /\ heap.start # heap.end /\ p # Null
     /\ Return([heap EXCEPT !.tag = TellPrev(split, p, 1)], p, n, r)
     /\ list' = Succeed(list, p, p + n)
     /\ UNCHANGED <<pc, lst_tracker>>
\* The block before the front is told, the prologue too.
MallocFront(r) ==
  LET p == FirstFit(Units(r))
      n == Units(r)
      size == heap.tag[p].size
      bits == heap.tag[p + size - 1].bits
      split == SetTags(SetTags(heap.tag, p, n, 1), p + n, size - n, bits)
  IN /\ pc = "trace" /\ heap.start # heap.end /\ p # Null
     /\ Return([heap EXCEPT !.tag = TellPrev(split, p, 1)], p, n, r)
     /\ list' = Succeed(list, p, p + n)
     /\ UNCHANGED <<pc, lst_tracker>>

\* The first block of a trace, and one for which no free block was found.
MallocGrow(r) ==
  LET n == Units(r)
      p == heap.brk
      h == Extend(heap, n, 1)
      first == heap.start = heap.end
  IN /\ pc = "trace" /\ Room(heap, n) /\ (first \/ FirstFit(n) = Null)
     /\ Return(IF first THEN [h EXCEPT !.start = p]
               ELSE [h EXCEPT !.tag = TellPrev(@, p, 1)], p, n, r)
     /\ UNCHANGED <<list, pc, lst_tracker>>

-----------------------------------------------------------------------------
\* What mm_free makes of the block at p: it begins at `at', the neighbours
\* prev and next are joined or not, and the old head is a joined block if it
\* lies in at .. p or in p .. last.
Merge(h, p) ==
  LET a == Around(h, p)
      y == p + h.tag[p].size
  IN [listed |-> Listed(a), prev |-> JoinsPrev(a), next |-> JoinsNext(a),
      at |-> IF JoinsPrev(a) THEN p - h.tag[p - 1].size ELSE p,
      behind |-> y, last |-> IF JoinsNext(a) THEN y + h.tag[y].size ELSE p]

\* Joined neighbours leave the list.
Leave(l, g) ==
  LET m == IF g.prev THEN Bypass(l, g.at) ELSE l
  IN IF g.next THEN Bypass(m, g.behind) ELSE m

HeadIsNext(l, g, p) == g.next /\ l.head \in p .. g.last
HeadIsPrev(l, g, p) == g.prev /\ l.head \in g.at .. p

\* The successor of a joined head, passing over the other joined block.
Kept(l, g, p) ==
  IF HeadIsNext(l, g, p)
  THEN IF g.prev /\ l.next[g.behind] \in g.at .. p THEN l.next[g.at] ELSE l.next[g.behind]
  ELSE IF g.next /\ l.next[g.at] \in p .. g.last THEN l.next[l.next[g.at]]
  ELSE l.next[g.at]

\* The result takes the place of the head l.head, which is one of its parts.
TakeOver(l, g, p) ==
  LET kept == SetNext(l, g.at, Kept(l, g, p))
  IN [SetPrev(kept, kept.next[l.head], g.at) EXCEPT !.head = g.at, !.prev[g.at] = Null]

\* Mutant: the head is the successor, also if it was joined.
FreeListPushes(h, l, p) ==
  LET g == Merge(h, p)
      pushed == Push(Leave(l, g), g.at)
  IN IF g.next THEN Forget(pushed, g.behind) ELSE pushed
\* mm_free on the list.  (Case 9 does not read it.)
FreeList(h, l, p) ==
  LET g == Merge(h, p)
      rest == Leave(l, g)
      done == IF HeadIsNext(l, g, p) \/ HeadIsPrev(l, g, p)
              THEN TakeOver(rest, g, p) ELSE Push(rest, g.at)
  IN IF ~g.listed THEN [Forget(l, p) EXCEPT !.head = p]
     ELSE IF g.next THEN Forget(done, g.behind) ELSE done

\* mm_free of the block at p, and remove_range of its payload.
FreeBlock(p) ==
  LET j == Joined(heap, p)
  IN /\ heap' = [heap EXCEPT !.tag = [FreeTags(heap, p) EXCEPT ![j.at + 1] = NoTag]]
     /\ list' = FreeList(heap, list, p)
     /\ ranges' = {x \in ranges : x.lo # p + 1}

Free(x) ==
  /\ pc = "trace" /\ x \in ranges
  /\ FreeBlock(x.lo - 1)
  /\ UNCHANGED <<pc, lst_tracker>>

-----------------------------------------------------------------------------
\* mm_exit frees every block it meets that is allocated.
Exit ==
  /\ pc = "trace"
  /\ pc' = "exit" /\ lst_tracker' = heap.start
  /\ UNCHANGED <<heap, list, ranges>>

\* It goes on by the size in the header, read after the block was freed.
ExitStep ==
  /\ pc = "exit" /\ lst_tracker < heap.end
  /\ IF IsAllocated(heap, lst_tracker) THEN FreeBlock(lst_tracker)
     ELSE UNCHANGED <<heap, list, ranges>>
  /\ lst_tracker' = lst_tracker + heap'.tag[lst_tracker].size
  /\ UNCHANGED pc

\* (lst_start and lst_end, set to NULL, are not read before mm_init.)
ExitReturns ==
  /\ pc = "exit" /\ lst_tracker >= heap.end
  /\ pc' = "done" /\ list' = EmptyList /\ lst_tracker' = 1
  /\ UNCHANGED <<heap, ranges>>

\* The next trace: mem_reset_brk, clear_ranges, mm_init.
Begin ==
  /\ pc = "done"
  /\ heap' = FreshHeap /\ list' = EmptyList /\ ranges' = {} /\ pc' = "trace"
  /\ UNCHANGED lst_tracker

Next == \/ \E r \in Requests : MallocFront(r) \/ MallocGrow(r)
        \/ \E x \in ranges : Free(x)
        \/ Exit \/ ExitStep \/ ExitReturns \/ Begin
Spec == Init /\ [][Next]_vars

-----------------------------------------------------------------------------
(* The state is well formed.                                               *)
TypeOK == /\ heap \in HeapState /\ list \in List
          /\ ranges \subseteq [lo : Unit, bytes : Requests]
          /\ pc \in {"trace", "exit", "done"} /\ lst_tracker \in 1 .. MaxHeap + 1

(* As in Mm: blocks tile the heap between lst_start and the break, and     *)
(* their tags, which select the case of mm_free, tell the truth.           *)
HeapTiled == heap.start # heap.end => Tiled(heap)

(* The nine cases of mm_free and the split of mm_malloc keep the list:     *)
(* from the head it leads, in both directions, through the free blocks and *)
(* ends.                                                                   *)
IsFree(p) == p \in Blocks(heap) /\ ~IsAllocated(heap, p)
Nth[k \in 0 .. MaxHeap] ==
  IF k = 0 THEN list.head ELSE IF Nth[k - 1] = Null THEN Null ELSE list.next[Nth[k - 1]]
ListHoldsFree ==
  pc # "done" =>
    /\ {Nth[k] : k \in 0 .. MaxHeap} = {p \in Unit : IsFree(p)} \cup {Null}
    /\ \A k \in 0 .. MaxHeap : Nth[k] # Null =>
         list.prev[Nth[k]] = IF k = 0 THEN Null ELSE Nth[k - 1]

(* Every free block has been joined with its free neighbours.  (Not so in  *)
(* Mm, whose predicted blocks lie side by side.)  The ranges of addresses  *)
(* with which mm_free recognises a joined head include the block behind.   *)
Coalesced == \A p \in Unit : IsFree(p) => ~IsFree(p + heap.tag[p].size)

(* The driver's ranges are the allocated blocks.                           *)
RangesAreBlocks == Carries(heap, ranges)

(* mdriver's demands: see Mm.                                              *)
A == INSTANCE Allocator WITH live <- ranges, done <- pc = "done"
ImplementsAllocator == A!Spec
=============================================================================
