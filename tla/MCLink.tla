------------------------------- MODULE MCLink -------------------------------
EXTENDS Link

Address(v) == {k \in 0..23 : (v \div 2^k) % 2 = 1}

\* A0BA4E and A1B2C3 are active; A0BA5E, which differs from the first in one bit, transmits and is not.
AllIcaos == {Address(10533454), Address(10533470)}
KnownIcaos == {Address(10533454), Address(10597059)}

Cpr == [odd |-> TRUE, lat |-> 93000, lon |-> 51372]

Callsigns == {<<11, 12, 13, 49, 48, 50, 51>>, <<1, 32, 57>>, <<26, 26, 26, 26, 26, 26, 26, 26>>, <<>>}
Identifications == [kind : {"identification"}, set : {1, 4}, category : {0, 7}, callsign : Callsigns]

\* Altitudes with every pattern of the bits around the Q bit, and each bit alone set and alone clear.
Steps == (0..63) \cup {2^k : k \in 6..10} \cup {2047 - 2^k : k \in 0..10} \cup {2047}
Airborne(feet, metres, cpr) == [kind |-> "airborne", feet |-> feet, metres |-> metres, cpr |-> cpr]
Positions ==
  {Airborne(feet, NoValue, Cpr) : feet \in {25 * n - 1000 : n \in Steps} \cup {-990, 10010, NoValue}}
    \cup {Airborne(NoValue, metres, Cpr) : metres \in {1, 305, 2048, 4095}}
    \cup {Airborne(10000, NoValue, [odd |-> odd, lat |-> lat, lon |-> lon]) :
            odd \in BOOLEAN, lat \in {0, 1, 65536, 131071}, lon \in {0, 1, 65536, 131071}}

Surface(speed, track) == [kind |-> "surface", speed |-> speed, track |-> track, cpr |-> Cpr]
\* Both sides of each step of the scale.
Speeds == {LowerBound[code] - d : code \in 2..124, d \in 0..1} \cup {1500, NoValue}
Movements == {Surface(speed, NoValue) : speed \in Speeds} \cup {Surface(800, track) : track \in 0..127}

Rates == [vertical : {NoValue, 0, -64, 1000, 32640, -32640}, gnss : BOOLEAN]
Components == {NoValue, 0, 1, -1, 300, -1022, 1022, 1023, -4087}
Velocities ==
  [kind : {"ground"}, east : Components, north : Components, rate : {[vertical |-> -64, gnss |-> TRUE]}]
    \cup [kind : {"ground"}, east : {5}, north : {-6}, rate : Rates]
    \cup [kind : {"airspeed"}, speed : {0, 1, 1022, 1023, 4088}, heading : {NoValue, 0, 512, 1023},
          tas : BOOLEAN, rate : {[vertical |-> 64, gnss |-> FALSE]}]

AllMessages == Identifications \cup Positions \cup Movements \cup Velocities

AllCodes == {{}, {0}, {1, 3}}
AllReplies == {{}, {6, 17, 30, 31, 50, 80}}
SilentTails == {{}, {56, 57, 70, 100, 111}}

NoisyMessages ==
  {Airborne(10000, NoValue, Cpr), [kind |-> "all_call"], [kind |-> "reply", payload |-> {6, 17, 30, 31, 50, 80}]}

=============================================================================
