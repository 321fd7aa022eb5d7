SPECIFICATION SpecTwice
CONSTANTS
  MaxHeap = 15
  Node <- Addresses
  Requests <- SmallAndLarge
  AllocNumMin = 1
  AllocNumMinInit = 1
  FreesTwice = TRUE
INVARIANT DoubleFreePrevented
\* A trace may ask for more than the heap holds, or the process has crashed.
CHECK_DEADLOCK FALSE
