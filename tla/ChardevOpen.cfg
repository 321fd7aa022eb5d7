SPECIFICATION DriversSpec
CONSTANTS
  Users <- TwoUsers
  BUF_LEN = 2
  MaxTree = 3
  Procs = {t, u}
  CPUs = {c0, c1}
  Layouts <- SomeLayouts
  MSR_VEC_LIMIT = 8
  MaxEvents = 1
SYMMETRY Alike
INVARIANT NeverTwo
CHECK_DEADLOCK FALSE
