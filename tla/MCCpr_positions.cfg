SPECIFICATION Spec
CONSTANTS
  NoValue = NoValue
  Starts <- AllStarts
  Moves <- AllMoves
  Offsets <- AllOffsets
  Parts = 4
INVARIANTS
  GlobalRight
  RefusedAtTransitions
  LocalRight
CHECK_DEADLOCK FALSE
