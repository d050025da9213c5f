SPECIFICATION Spec
CONSTANTS
  Client = {e1}
  Icao = {a1}
  Filter <- Unfiltered
  ReplayCapacity = 2
  BroadcastCapacity = 2
  WireCapacity = 1
  MaxEvents = 5
  MaxLives = 2
  None = None
PROPERTIES ContinuesLive
