SPECIFICATION LabSpec
CONSTANTS
  Traces <- SomeTraces
  NumFiles = 2
  ALIGNMENT = 2
  \* Bytes of two bits: as chars, 2 and 3 are negative.
  UCHAR_MAX = 3
  MaxHeap = 6
  Repeats = 2
  \* Requests of 1, 9 and 41 bytes take blocks of 3, 4 and 8 units, so that a
  \* free block may be too small, fit, fit with slack, or be split.
  MmHeap = 15
  MmRequests = {1, 41}
  ListHeap = 17
  ListRequests = {1, 9}
  AllocNumMin = 1
  AllocNumMinInit = 1
  TreeBlocks <- NineBlocks
  TreeSizes <- NineSizes
  TreeRequests = {3, 4, 8, 11, 13}
  Word = 4
  Kbest = 2
  MaxSamples = 4
  Percent = 10
  Runs = 3
  Million = 5
  MAX_ETIME = 20
  Durations = {1, 3, 14}
  Ratios = {4}
INVARIANT LabTypeOK
INVARIANT HeapTiled
INVARIANT HoldsFree
INVARIANT RedBlack
INVARIANT BestFit
INVARIANT AcceptedApart
INVARIANT JudgedRightly
INVARIANT UtilAtMostOne
INVARIANT Measures
PROPERTY ReusesFirst
PROPERTY ImplementsAllocator
\* The driver and a measurement end; mm.c may crash.
CHECK_DEADLOCK FALSE
