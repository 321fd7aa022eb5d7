SPECIFICATION Spec
CONSTANTS
  MAXJOBS = 2
  Pids <- TwoPids
  Commands <- JobCommands
  Keys <- BothKeys
  Faults <- AllFaults
INVARIANT TypeOK
INVARIANT AtMostOneFG
INVARIANT NoLostSigchld
INVARIANT MarkFindsJob
PROPERTY SparesBackground
PROPERTY AddedAlive
\* The shell may wait for the user, for a child that never ends, or have exited.
CHECK_DEADLOCK FALSE
