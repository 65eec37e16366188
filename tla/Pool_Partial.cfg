\* munmap of something else than one whole chunk.
\* Once the whole pool is lost or held by nobody able to free it, nothing is left to do.
SPECIFICATION Spec
CONSTANTS
  Pid = {p1, p2}
  PageCount = 3
  NoJob = NoJob
  MaxChunks = 2
  Habits = {"partial"}
INVARIANTS
  OneProcessOwns
CHECK_DEADLOCK FALSE
