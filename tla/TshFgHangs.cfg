SPECIFICATION FairSpec
CONSTANTS
  MAXJOBS = 1
  Pids <- TwoPids
  Commands = {"run&", "fg"}
  Keys = {}
  Faults = {}
PROPERTY FgReturns
\* The shell may wait for the user, for a child that never ends, or have exited.
CHECK_DEADLOCK FALSE
