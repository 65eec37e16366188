\* Every way of ending and waiting, and several children at a time; exec in fresh vfork children only.
\* The system stops when the root process ends or the kernel fails.
SPECIFICATION Spec
CONSTANTS
  Proc = {p1, p2, p3}
  Null = Null
  MaxPid = 3
  Code <- KernelCodes
  MaxBlocked = 2
  Habits = {"siblings", "orphans", "lateWait", "strangerWait", "abort"}
SYMMETRY Symmetry
INVARIANTS
  TypeOK
  ListsExact
  BorrowedStackSafe
  WaitersKnown
  WaitersBlocked
CHECK_DEADLOCK FALSE
