SPECIFICATION FairSpec
CONSTANTS
  Clients = {c1, c2}
  Threads = {t1, t2}
  MaxLines = 1
  Lengths = {3}
  Faults = {"leave"}
PROPERTY Served
\* Every client may have left, or the process ended.
CHECK_DEADLOCK FALSE
