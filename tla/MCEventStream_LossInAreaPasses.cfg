SPECIFICATION Spec
CONSTANTS
  Client = {e1}
  Icao = {a1}
  Filter <- InArea
  ReplayCapacity = 2
  BroadcastCapacity = 2
  WireCapacity = 1
  MaxEvents = 5
  MaxLives = 1
  None = None
PROPERTIES LossInAreaPasses
