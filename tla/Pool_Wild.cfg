\* Every habit at once.
\* Once the whole pool is lost or held by nobody able to free it, nothing is left to do.
SPECIFICATION Spec
CONSTANTS
  Pid = {p1, p2}
  PageCount = 3
  NoJob = NoJob
  MaxChunks = 2
  Habits = {"partial", "create", "outOfMemory"}
SYMMETRY Symmetry
INVARIANTS
  TypeOK
CHECK_DEADLOCK FALSE
