SPECIFICATION DriversSpec
CONSTANTS
  Users <- TwoUsers
  BUF_LEN = 2
  MaxTree = 3
  Procs = {t, u}
  CPUs = {c0, c1}
  Layouts <- SomeLayouts
  MSR_VEC_LIMIT = 8
  MaxEvents = 1
SYMMETRY Alike
INVARIANT DriversTypeOK
INVARIANT OneProcess
INVARIANT ModuleStays
INVARIANT ReadsItsOwn
INVARIANT CountsTheWork
\* A process that has seen its counters ends.
CHECK_DEADLOCK FALSE
