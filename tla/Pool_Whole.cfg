\* Programs that unmap whole chunks; the heap may be exhausted.
\* Once the whole pool is lost or held by nobody able to free it, nothing is left to do.
SPECIFICATION Spec
CONSTANTS
  Pid = {p1, p2, p3}
  PageCount = 4
  NoJob = NoJob
  MaxChunks = 4
  Habits = {"outOfMemory"}
INVARIANTS
  OneOwner
  OwnedAreMarked
  SearchIsFirstFit
PROPERTIES
  ImplementsOwnership
CHECK_DEADLOCK FALSE
