SPECIFICATION Spec
CONSTANTS
  Clients = {c1, c2}
  Threads = {t1, t2}
  MaxLines = 1
  Lengths = {0, 2, 3}
  Faults <- AllFaults
SYMMETRY Symmetry
INVARIANT TypeOK
INVARIANT OwnConnection
INVARIANT OcNeverWaits
PROPERTY ImplementsRelayLog
\* Every client may have left, or the process ended.
CHECK_DEADLOCK FALSE
