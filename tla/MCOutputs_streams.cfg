SPECIFICATION OutSpec
CONSTANTS
  Client = {c1, c2}
  Beast = {c1}
  Frames <- SomeFrames
  Capacity = 1
  Pieces = {23}
  Ticks = {6682}
  MaxFrames = 2
  MaxTime = 6682
  p1 = p1
  p2 = p2
  Plane = {p1, p2}
  Address <- TheAddress
  Looks <- SomeLooks
  Unknown = Unknown
  Seconds = {32381, 65661}
  Retained = 1
  Polled = {"nearest"}
INVARIANTS
  ReaderRecovers LagOnlySkips
  DatagramsTell EachIsReported
  StaleOnlyByLimit
PROPERTIES FeedsCatchUp ClientsSettle
CHECK_DEADLOCK FALSE
