\* create_process, failing allocations, refused calls and execs outside fresh vfork children, one child at a time.
\* The system stops when the root process ends or the kernel fails.
SPECIFICATION Spec
CONSTANTS
  Proc = {p1, p2, p3}
  Null = Null
  MaxPid = 3
  Code <- KernelCodes
  MaxBlocked = 2
  Habits = {"create", "outOfMemory", "lateWait", "badCall", "reExec"}
SYMMETRY Symmetry
INVARIANTS
  PidUnique
  GateAgrees
  CurrentIsCore
PROPERTIES
  WaitpidReportsItsChild
CHECK_DEADLOCK FALSE
