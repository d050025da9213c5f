SPECIFICATION SourceSpec
CONSTANTS
  Client = {e1, e2}
  None = None
  Files = {0, 1, 7}
  Transfers = {2, 8}
  Room = 3
  Scratch = 2
  MaxBytes = 10

INVARIANTS ZeroOnlyByInterrupt SamplesAligned ZeroMeansEnd
PROPERTIES DeathIsFollowedByRestart ImplementsServe
CHECK_DEADLOCK FALSE
