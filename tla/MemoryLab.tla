------------------------------ MODULE MemoryLab ------------------------------
(***************************************************************************)
(* The programs of Memory_Lab: the driver, its timers and the two          *)
(* allocators, and the first allocator's tree by itself.  In a behaviour   *)
(* one of them runs and the others stay as they began: they do not         *)
(* interact but through what Allocator demands, which the driver assumes   *)
(* and the allocators implement.                                           *)
(*                                                                         *)
(* The modules instantiated for the allocators and the tree are those that *)
(* extend Mm, MmList and FreeBlocks with theorems, which can then be cited *)
(* as Mm!MmHeapTiled and so on.                                            *)
(***************************************************************************)
EXTENDS Mdriver

CONSTANTS
  MmHeap, MmRequests,          \* heaps in units of 8 bytes,
  ListHeap, ListRequests,      \* and the numbers of bytes asked for
  AllocNumMin, AllocNumMinInit,
  TreeBlocks, TreeSizes, TreeRequests,
  Word, Kbest, MaxSamples, Percent, Runs, Million, MAX_ETIME, Durations, Ratios

\* The list's mm_init takes 16 bytes.
ASSUME HeapsAssumption == MmHeap \in Nat \ {0} /\ ListHeap \in Nat \ {0, 1}
ASSUME RequestsAssumption == \A r \in MmRequests \cup ListRequests : r \in Nat \ {0}
ASSUME PredictionAssumption == AllocNumMin \in Nat /\ AllocNumMinInit \in Nat
ASSUME TreeAssumption ==
  TreeBlocks \subseteq Nat \ {0} /\ TreeSizes \in [TreeBlocks -> Nat] /\ TreeRequests \subseteq Nat
ASSUME TimersAssumption ==
  /\ {Word, Kbest, MaxSamples, Runs, Million} \subseteq Nat \ {0}
  /\ {Percent, MAX_ETIME} \cup Durations \cup Ratios \subseteq Nat
  \* The counter and the interval timer do not run out: they last for years
  \* and for a day.
  /\ \A d \in Durations : d < Word * Word /\ Runs * d <= MAX_ETIME * Million

VARIABLES
  program,     \* which one runs
  mm_heap, mm_tree, mm_ranges, alloc_num, heuristic_init, mm_sizes, mm_pc, mm_tracker,
  list_heap, list, list_ranges, list_pc, list_tracker,
  rbtree, free,
  timer, timer_pc, now, start, cyc_per_tick, values, samplecount, runs, result

\* (Size, Wanted, rbtree and free of the tree alone are not read by Mm.)
Mm == INSTANCE MmProofs WITH
  MaxHeap <- MmHeap, Node <- 1 .. MmHeap, Requests <- MmRequests,
  FreesTwice <- FALSE, freed <- {}, heap <- mm_heap, tree <- mm_tree, ranges <- mm_ranges,
  first <- heuristic_init, sizes <- mm_sizes, pc <- mm_pc, lst_tracker <- mm_tracker,
  Size <- [p \in 1 .. MmHeap |-> 0], Wanted <- {}, rbtree <- mm_tree, free <- {}
List == INSTANCE MmListProofs WITH
  MaxHeap <- ListHeap, Requests <- ListRequests, heap <- list_heap,
  ranges <- list_ranges, pc <- list_pc, lst_tracker <- list_tracker
Tree == INSTANCE FreeBlocksProofs WITH
  Node <- TreeBlocks, Size <- TreeSizes, Wanted <- TreeRequests
Timers == INSTANCE Fsecs WITH pc <- timer_pc

mm_vars == <<mm_heap, mm_tree, mm_ranges, alloc_num, heuristic_init, mm_sizes, mm_pc, mm_tracker>>
list_vars == <<list_heap, list, list_ranges, list_pc, list_tracker>>
tree_vars == <<rbtree, free>>
timer_vars ==
  <<timer, timer_pc, now, start, cyc_per_tick, values, samplecount, runs, result>>

LabInit ==
  /\ program \in {"driver", "mm", "list", "tree", "timers"}
  /\ Init /\ Mm!Init /\ List!Init /\ Tree!BlocksInit /\ Timers!Init
  /\ program # "driver" => allocator = "right"
  /\ program # "timers" => timer = "gettod" /\ now = 0

LabNext ==
  /\ UNCHANGED program
  /\ \/ program = "driver" /\ Next /\ UNCHANGED <<mm_vars, list_vars, tree_vars, timer_vars>>
     \/ program = "mm" /\ Mm!Next /\ UNCHANGED <<vars, list_vars, tree_vars, timer_vars>>
     \/ program = "list" /\ List!Next /\ UNCHANGED <<vars, mm_vars, tree_vars, timer_vars>>
     \/ program = "tree" /\ Tree!BlocksNext /\ UNCHANGED <<vars, mm_vars, list_vars, timer_vars>>
     \/ program = "timers" /\ Timers!Next /\ UNCHANGED <<vars, mm_vars, list_vars, tree_vars>>
LabSpec ==
  LabInit /\ [][LabNext]_<<program, vars, mm_vars, list_vars, tree_vars, timer_vars>>

-----------------------------------------------------------------------------
(* The state of every program is well formed.                              *)
LabTypeOK == TypeOK /\ Mm!TypeOK /\ List!TypeOK /\ Tree!BlocksTypeOK /\ Timers!TypeOK

(* Both heaps: splitting, coalescing and prediction keep the boundary tags *)
(* consistent, the allocated blocks are those that the driver has, and in  *)
(* the heap with the list no two free blocks are neighbours.               *)
HeapTiled == /\ Mm!HeapTiled /\ Mm!RangesAreBlocks
             /\ List!HeapTiled /\ List!RangesAreBlocks /\ List!Coalesced

(* No free block is lost, kept after it was taken or linked wrongly: by    *)
(* the tree in the heap, the tree by itself, and the list.                 *)
HoldsFree == Mm!TreeHoldsFree /\ Tree!HoldsFree /\ List!ListHoldsFree

(* The tree stays ordered and balanced through all cases of insert and     *)
(* delete; tree_checker says so of every tree but the empty one, of which  *)
(* it complains.                                                           *)
RedBlack == Tree!RedBlack /\ Tree!Ordered /\ Tree!Checked

(* find_block finds the best block of any tree.                            *)
BestFit == Tree!BestFit

(* mm.c takes new memory only if no free block is large enough.            *)
ReusesFirst == Mm!ReusesFirst

(* Both allocators do what mdriver demands.                                *)
ImplementsAllocator == Mm!ImplementsAllocator /\ List!ImplementsAllocator

(* What fsecs returns is what was measured.                                *)
Measures == Timers!Measures
=============================================================================
