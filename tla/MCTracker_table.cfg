SPECIFICATION Spec
CONSTANTS
  Icao = {a1, a2, a3}
  Callsign <- Calls
  Category <- Cats
  Velocity <- Vels
  Cpr <- Zones
  GlobalDecode <- DecodeByZone
  Frames <- TableFrames
  Capacity = 2
  CprPairWindow = 1
  ActiveIcaoWindow = 2
  StaleAfter = 3
  HasReference = TRUE
  MaxTime = 4
  MaxFrames = 5
  None = None
  c1 = c1  c2 = c2  k1 = k1  k2 = k2  v1 = v1  z1 = z1  z2 = z2  zx = zx
  a1 = a1
  a2 = a2
  a3 = a3
INVARIANTS TypeOK TableWellFormed Sorted ScanComplete StoredPairDecodes FixIsCurrent
PROPERTIES LostAreOldest EventsMirrorTable SweepIsComplete
