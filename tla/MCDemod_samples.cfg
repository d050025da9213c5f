SPECIFICATION Spec
CONSTANTS
  NoValue = NoValue
  Grains = {4, 5, 6}
  Shift = 7
  Seeds = {0, 6}
  Levels = {1, 6}
  Amplitudes = {10, 60}
  Buffers <- AllBuffers
  MaxQuiet = 30
  MaxBefore = 0
INVARIANTS
  FloorWithinSamples
  LoudIsRead
  UnreadIsCarried
  ReadsInside
CHECK_DEADLOCK FALSE
