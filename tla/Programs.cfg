SPECIFICATION ProgramsSpec
CONSTANTS
  Bytes <- TwoLetters
  Newline = 0
  RIO_BUFSIZE = 2
  Sizes = {2, 4}
  MaxStream = 4
  Clients = {"c", "d"}
  MAXLINE = 3
  SIZE = 3
  MAXARGS = 3
  HostLength = 8
  PortReach = 10
  MaxProcs = 6
  N = 3
  MaxFaults = 4
INVARIANT RioTypeOK
INVARIANT NothingLost
INVARIANT EchoesInOrder
INVARIANT LinesAsTyped
INVARIANT ProgramsDo
PROPERTY ImplementsByteStream
PROPERTY Returns
PROPERTY Answered
\* Most programs end, or wait for their users.
CHECK_DEADLOCK FALSE
