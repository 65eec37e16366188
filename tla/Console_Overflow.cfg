\* One reader and an interrupt that overflows the ring buffer while it reads.
\* The system stops where a reader panics.
SPECIFICATION Spec
CONSTANTS
  Reader = {r1}
  BufferSize = 4
  Settings <- OneSetting
  MaxRead = 1
  MaxBytes = 6
INVARIANTS
  NewestIsKept
CHECK_DEADLOCK FALSE
