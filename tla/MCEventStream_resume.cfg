SPECIFICATION Spec
CONSTANTS
  Client = {e1}
  Icao = {a1}
  Filter <- NoLosses
  ReplayCapacity = 2
  BroadcastCapacity = 2
  WireCapacity = 2
  MaxEvents = 6
  MaxLives = 2
  None = None
INVARIANTS InOrder
PROPERTIES DeliversLog
