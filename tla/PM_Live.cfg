\* Programs that wait only for their own living children and end after them, under a running system tick.
\* The system stops when the root process ends or the kernel fails.
SPECIFICATION FairSpec
CONSTANTS
  Proc = {p1, p2, p3}
  Null = Null
  MaxPid = 3
  Code <- OneCode
  MaxBlocked = 2
  Habits = {"siblings"}
INVARIANTS
  NoFault
  UserCodeIsPreemptible
  SomebodyCanRun
  PidsReturn
PROPERTIES
  EveryoneRuns
  WaiterReturns
  DeadAreReaped
CHECK_DEADLOCK FALSE
