SPECIFICATION Spec
CONSTANTS
  Clients = {c1, c2}
  Threads = {t1, t2}
  MaxLines = 1
  Lengths = {3}
  Faults = {}
SYMMETRY Symmetry
INVARIANT OwnWords
\* Every client may have left, or the process ended.
CHECK_DEADLOCK FALSE
