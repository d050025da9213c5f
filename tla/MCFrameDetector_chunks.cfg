SPECIFICATION Spec
CONSTANTS
  Preamble = 2
  Short = 2
  Long = 6
  LookShort = 5
  LookLong = 9
  Carry = 9
  Weight = 4
  Gain = 2
  Length = 17
  Busy = {0, 1, 2, 3, 4, 5, 6, 7, 8, 9}
  Signals <- Streams
INVARIANTS SplitsDoNotMatter AmpleChunks NoSquitterLost
CHECK_DEADLOCK FALSE
