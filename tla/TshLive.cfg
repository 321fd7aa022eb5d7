SPECIFICATION FairSpec
CONSTANTS
  MAXJOBS = 1
  Pids <- TwoPids
  Commands = {"run", "run&", "bg"}
  Keys = {"INT"}
  Faults <- ChildFaults
PROPERTY FgReturns
PROPERTY ZombiesReaped
PROPERTY ImplementsJobControl
\* The shell may wait for the user, for a child that never ends, or have exited.
CHECK_DEADLOCK FALSE
