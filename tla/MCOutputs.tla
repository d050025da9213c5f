------------------------------ MODULE MCOutputs ------------------------------
EXTENDS Outputs

CONSTANTS p1, p2

Frame(bytes, outcome, confidence) == [bytes |-> bytes, outcome |-> outcome, confidence |-> confidence]

\* Escape bytes at the ends, in pairs and before a byte that looks like a mode.
SomeFrames ==
  {Frame(<<26, 26, 50, 0, 255, 16, 26>>, "Clean", 26),
   Frame(<<141, 26, 51, 26, 26, 26, 50, 7, 80, 160, 9, 1, 26, 26>>, "Corrected", 0),
   Frame(<<26, 2, 3, 4, 5, 6, 7>>, "Failed", 9)}

\* Both flags of GDL90 are among the bytes of an address.
TheAddress == (p1 :> <<160, 125, 126>>) @@ (p2 :> <<0, 0, 26>>)

Place(lat, lon, alt) == [lat |-> lat, lon |-> lon, alt |-> alt]
Motion(gs, track, heading, vr) == [gs |-> gs, track |-> track, heading |-> heading, vr |-> vr]
Seen(place, motion, name) == [position |-> place, velocity |-> motion, callsign |-> name]

\* One below sea level at New York, at the limits of every field at the pole and
\* the date line, or beside the origin without an altitude; another as low beside
\* the origin, or without a position.
SomeLooks ==
  (p1 :> {Seen(Place(2667412, -4848523, -1000), Motion(150, Unknown, 2070, -1000), <<85, 65, 76, 95, 50, 51>>),
          Seen(Place(-5898240, 11796479, 406900), Motion(2900, 3599, Unknown, 32640), Unknown),
          Seen(Place(23, -23, Unknown), Unknown, Unknown)}) @@
  (p2 :> {Seen(Place(-1, 1, -1000), Motion(Unknown, 8, Unknown, 0), Unknown),
          Seen(Unknown, Unknown, <<78, 49>>)})

==============================================================================
