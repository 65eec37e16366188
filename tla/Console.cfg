\* One reader and an interrupt that may overflow the ring buffer.
\* A reader whose size() panics stays there: the system may stop.
SPECIFICATION FairSpec
CONSTANTS
  Reader = {r1}
  BufferSize = 4
  Settings <- UsedSettings
  MaxRead = 2
  MaxBytes = 6
INVARIANTS
  TypeOK
  NothingLost
PROPERTIES
  InOrder
  LineReadReturnsInput
  LineEndEndsRead
CHECK_DEADLOCK FALSE
