SPECIFICATION DecoderSpec
CONSTANTS
  Icao = {a1, a2, a3}
  Callsign <- Calls
  Category <- Cats
  Velocity <- Vels
  Cpr <- Zones
  GlobalDecode <- DecodeByZone
  Frames <- EveryKind
  Capacity = 2
  CprPairWindow = 1
  ActiveIcaoWindow = 2
  StaleAfter = 1
  HasReference = TRUE
  MaxTime = 3
  MaxChunks = 3
  MaxFrames = 4
  ClockWrap = 10
  None = None
  c1 = c1  c2 = c2  k1 = k1  k2 = k2  v1 = v1  z1 = z1  z2 = z2  zx = zx  a1 = a1

INVARIANTS SnapshotInStep SnapshotBounded
PROPERTIES EventsTellLives
CHECK_DEADLOCK FALSE
