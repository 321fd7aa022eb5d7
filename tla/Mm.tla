--------------------------------- MODULE Mm ---------------------------------
(***************************************************************************)
(* The allocator of Memory_Lab/malloclab-handout/mm.c: blocks with         *)
(* boundary tags, the free ones in a red-black tree by size, and a         *)
(* prediction that puts free blocks of a size into the heap in advance.    *)
(* It is driven by a trace of mdriver.c (eval_mm_valid), which keeps the   *)
(* payloads in use in a list of ranges; mm_free takes them out of it.      *)
(*                                                                         *)
(* The prediction works with floating-point averages of the sizes that     *)
(* needed new memory; whether it finds them steady is left open.  A trace  *)
(* asks for at least one byte (add_range asserts it).                      *)
(***************************************************************************)
EXTENDS Heap, FreeTree

\* The blocks of the tree are addresses of the heap: Node = Unit.
CONSTANTS AllocNumMin,      \* alloc_num_min, 4
          AllocNumMinInit,  \* alloc_num_min_init, 8
          FreesTwice        \* whether to note what was freed, for SpecTwice

VARIABLES
  heap,        \* tags, break, lst_start and lst_end
  tree,        \* the tree of free blocks
  ranges,      \* the driver's payloads in use: [lo, bytes]
  freed,       \* if FreesTwice: payload addresses freed since last returned
  alloc_num,   \* blocks taken from memlib since the last prediction
  first,       \* heuristic_init: there was no prediction yet
  sizes,       \* the sizes of the last two predictions, the latest first
  pc,          \* "trace", "exit" (in mm_exit), "done", or "crashed"
  lst_tracker  \* where mm_exit is

history == <<alloc_num, first, sizes>>
vars == <<heap, tree, ranges, freed, history, pc, lst_tracker>>

SizeIn(h) == [p \in Unit |-> h.tag[p].size]
\* Mutant: a block of the very size is passed over.
FoundLarger(n) == FindBlock(tree, SizeIn(heap), n + 1)
Found(n) == FindBlock(tree, SizeIn(heap), n)

Init ==
  /\ heap = [tag |-> [u \in Unit |-> NoTag], brk |-> 1, start |-> 1, end |-> 1]
  /\ tree = EmptyTree /\ ranges = {} /\ freed = {}
  /\ alloc_num = 0 /\ first = TRUE /\ sizes = <<0, 0>>
  /\ pc = "trace" /\ lst_tracker = 1

-----------------------------------------------------------------------------
\* mm_malloc returns the block at p of heap h for r bytes; the driver notes
\* its range and fills it.
Return(h, p, r) ==
  /\ heap' = [h EXCEPT !.tag = Use(@, p, h.tag[p].size)]
  /\ ranges' = ranges \cup {[lo |-> p + 1, bytes |-> r]}
  /\ freed' = freed \ {p + 1}

\* Case 2-1-1: a found block that is not worth splitting.
MallocWhole(r) ==
  LET p == Found(Units(r))
      n == heap.tag[p].size
      told == IF p = heap.start THEN heap.tag ELSE TellPrev(heap.tag, p, 1)
  IN /\ pc = "trace" /\ p # Null /\ n <= Units(r) + Slack
     /\ Return([heap EXCEPT !.tag = SetTags(told, p, n, 2 * (heap.tag[p].bits \div 2) + 1)], p, r)
     /\ tree' = Delete(tree, p)
     /\ UNCHANGED <<history, pc, lst_tracker>>

\* Case 2-1-2: the end of a larger block; the rest goes back to the tree.
MallocSplit(r) ==
  LET q == Found(Units(r))
      n == Units(r)
      rest == heap.tag[q].size - n
      p == q + rest
      next == IF p + n # heap.end /\ IsAllocated(heap, p + n) THEN 2 ELSE 0
      h == [heap EXCEPT !.tag = SetTags(SetTags(@, p, n, next + 1), q, rest, 2)]
  IN /\ pc = "trace" /\ q # Null /\ heap.tag[q].size > n + Slack
     /\ Return(h, p, r)
     /\ tree' = Insert(Delete(tree, q), SizeIn(h), q)
     /\ UNCHANGED <<history, pc, lst_tracker>>

-----------------------------------------------------------------------------
\* heuristic_allocation: a free block of n units behind the last block.
Predicted(x, n) ==
  LET p == x.heap.brk
      h == [Extend(x.heap, n, 0) EXCEPT !.tag = TellPrev(@, p, 0)]
  IN [heap |-> h, tree |-> Insert(x.tree, SizeIn(h), p)]

\* How many: more if the same size was predicted the last two times.
Count(n) == IF n # sizes[1] THEN 1 ELSE IF sizes[1] # sizes[2] THEN 4 ELSE 8

\* mm_malloc without a fitting block takes n units from memlib.
Grown(n) ==
  LET h == Extend(heap, n, 1)
  IN IF heap.start = heap.end THEN [h EXCEPT !.start = heap.brk]
     ELSE [h EXCEPT !.tag = TellPrev(@, heap.brk, 1)]

GrowsFor(r) == pc = "trace" /\ Found(Units(r)) = Null /\ Room(heap, Units(r))
MayPredict == alloc_num + 1 >= IF first THEN AllocNumMinInit ELSE AllocNumMin

\* Cases 1 and 2-2; calculate_heuristic does not predict.  (alloc_num is
\* only compared with the two limits.)
MallocGrow(r) ==
  /\ GrowsFor(r)
  /\ Return(Grown(Units(r)), heap.brk, r)
  /\ alloc_num' = IF alloc_num < AllocNumMinInit THEN alloc_num + 1 ELSE alloc_num
  /\ UNCHANGED <<tree, first, sizes, pc, lst_tracker>>

\* The same, and calculate_heuristic predicts more blocks of this size.
\* heuristic_allocation does not test what mem_sbrk returns.
MallocPredict(r) ==
  LET n == Units(r)
      After[k \in 0 .. 8] == IF k = 0 THEN [heap |-> Grown(n), tree |-> tree]
                             ELSE Predicted(After[k - 1], n)
  IN /\ GrowsFor(r) /\ MayPredict
     /\ alloc_num' = 0 /\ first' = FALSE /\ sizes' = <<n, sizes[1]>>
     /\ IF Room(heap, (Count(n) + 1) * n)
        THEN /\ Return(After[Count(n)].heap, heap.brk, r)
             /\ tree' = After[Count(n)].tree
             /\ UNCHANGED pc
        ELSE /\ pc' = "crashed"
             /\ UNCHANGED <<heap, tree, ranges, freed>>
     /\ UNCHANGED lst_tracker

-----------------------------------------------------------------------------
\* mm_free of the block at p, and remove_range of its payload.
FreeBlock(p) ==
  LET a == Around(heap, p)
      j == Joined(heap, p)
      h == [heap EXCEPT !.tag = FreeTags(heap, p)]
      without == IF JoinsPrev(a) THEN Delete(tree, p - heap.tag[p - 1].size) ELSE tree
      alone == IF JoinsNext(a) THEN Delete(without, p + heap.tag[p].size) ELSE without
  IN /\ heap' = [h EXCEPT !.tag[j.at + 1] = NoTag]
     /\ tree' = Insert(alone, SizeIn(h), j.at)
     /\ ranges' = {x \in ranges : x.lo # p + 1}
     /\ freed' = IF FreesTwice THEN freed \cup {p + 1} ELSE {}

Free(x) ==
  /\ pc = "trace" /\ x \in ranges
  /\ FreeBlock(x.lo - 1)
  /\ UNCHANGED <<history, pc, lst_tracker>>

\* A block is freed again.  mm_free returns if its header says free; a header
\* that was overwritten since could say anything and is left out.
FreeAgain(lo) ==
  /\ pc = "trace" /\ lo \in freed
  /\ heap.tag[lo - 1] # NoTag /\ IsAllocated(heap, lo - 1)
  /\ FreeBlock(lo - 1)
  /\ UNCHANGED <<history, pc, lst_tracker>>

-----------------------------------------------------------------------------
\* mm_exit frees every block it meets that is allocated.
Exit ==
  /\ pc = "trace"
  /\ pc' = "exit" /\ lst_tracker' = heap.start
  /\ UNCHANGED <<heap, tree, ranges, freed, history>>

\* Mutant: it goes on by the size of the joined block.
ExitStepByJoined ==
  /\ pc = "exit" /\ lst_tracker < heap.end
  /\ IF IsAllocated(heap, lst_tracker)
     THEN /\ FreeBlock(lst_tracker)
          /\ lst_tracker' = lst_tracker + Joined(heap, lst_tracker).size
     ELSE /\ UNCHANGED <<heap, tree, ranges, freed>>
          /\ lst_tracker' = lst_tracker + heap.tag[lst_tracker].size
  /\ UNCHANGED <<history, pc>>
\* It goes on by the size in the header, read after the block was freed.
ExitStep ==
  /\ pc = "exit" /\ lst_tracker < heap.end
  /\ IF IsAllocated(heap, lst_tracker) THEN FreeBlock(lst_tracker)
     ELSE UNCHANGED <<heap, tree, ranges, freed>>
  /\ lst_tracker' = lst_tracker + heap'.tag[lst_tracker].size
  /\ UNCHANGED <<history, pc>>

\* (lst_start and lst_end, set to NULL, are not read before mm_init.)
ExitReturns ==
  /\ pc = "exit" /\ lst_tracker >= heap.end
  /\ pc' = "done" /\ alloc_num' = 0 /\ first' = TRUE /\ tree' = EmptyTree
  /\ lst_tracker' = 1
  /\ UNCHANGED <<heap, ranges, freed, sizes>>

\* The next trace: mem_reset_brk, clear_ranges, mm_init.  (Old words beyond
\* the break are written before they are read.)
Begin ==
  /\ pc = "done"
  /\ heap' = [tag |-> [u \in Unit |-> NoTag], brk |-> 1, start |-> 1, end |-> 1]
  /\ tree' = EmptyTree /\ ranges' = {} /\ freed' = {}
  /\ pc' = "trace"
  /\ UNCHANGED <<history, lst_tracker>>

Malloc(r) == MallocWhole(r) \/ MallocSplit(r) \/ MallocGrow(r) \/ MallocPredict(r)
Next == \/ \E r \in Requests : Malloc(r)
        \/ \E x \in ranges : Free(x)
        \/ Exit \/ ExitStep \/ ExitReturns \/ Begin
Spec == Init /\ [][Next]_vars
\* Traces like double-free.rep.
SpecTwice == Init /\ [][Next \/ \E lo \in freed : FreeAgain(lo)]_vars

-----------------------------------------------------------------------------
(* The state is well formed.                                               *)
TypeOK == /\ heap \in HeapState /\ tree \in Tree
          /\ ranges \subseteq [lo : Unit, bytes : Requests] /\ freed \subseteq Unit
          /\ alloc_num \in 0 .. AllocNumMinInit /\ first \in BOOLEAN
          /\ sizes \in (0 .. MaxHeap) \X (0 .. MaxHeap)
          /\ pc \in {"trace", "exit", "done", "crashed"} /\ lst_tracker \in 1 .. MaxHeap + 1

(* Splitting, coalescing and prediction keep the boundary tags consistent: *)
(* blocks follow one another up to the break, header and footer agree, and *)
(* the tag says whether the next block is allocated, which is what the     *)
(* case analysis of mm_free relies on.                                     *)
HeapTiled == Tiled(heap)

(* The tree holds exactly the blocks whose tags say free.                  *)
TreeHoldsFree ==
  pc # "done" => Below(tree)[tree.root] = {p \in Blocks(heap) \ {Astray} : ~IsAllocated(heap, p)}

(* The driver's ranges are the allocated blocks, each payload between its  *)
(* block's header and footer.                                              *)
RangesAreBlocks == Carries(heap, ranges)

(* Memory is taken from memlib only if no free block is large enough.      *)
ReusesFirst ==
  [][\A p \in Blocks(heap) \ {Astray} :
       heap'.brk > heap.brk /\ ~IsAllocated(heap, p)
         => \A x \in ranges' \ ranges : heap.tag[p].size < Units(x.bytes)]_vars

(* mdriver's demands, Allocator: payloads in the heap and disjoint, each   *)
(* given back once, none left when mm_exit returns.                        *)
A == INSTANCE Allocator WITH live <- ranges, done <- pc = "done"
ImplementsAllocator == A!Spec

(* "If ptr is not allocated, do nothing to prevent double free" (line      *)
(* 1775).  The header of a block that was joined to the block before it    *)
(* still says allocated, so the code has not this property: the heap is    *)
(* joined again and its blocks overlap.                                    *)
DoubleFreePrevented == HeapTiled
=============================================================================
