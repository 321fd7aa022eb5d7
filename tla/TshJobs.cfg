SPECIFICATION Spec
CONSTANTS
  MAXJOBS = 3
  Pids <- ThreePids
  Commands = {"run", "run&", "blank", "quit"}
  Keys <- BothKeys
  Faults = {}
INVARIANT TableAgrees
INVARIANT NextJidFresh
\* The shell may wait for the user, for a child that never ends, or have exited.
CHECK_DEADLOCK FALSE
