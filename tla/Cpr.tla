-------------------------------- MODULE Cpr --------------------------------
(***************************************************************************)
(* Compact position reports, rs1090/cpr.rs: an aircraft reports its        *)
(* position modulo a zone, on one of two grids, and a receiver recovers it *)
(* from two reports or from one and a place it knows.                      *)
(*                                                                         *)
(* The code's degrees become integers without loss.  Latitudes are counted *)
(* in units of which Circle make 360 degrees, so that every point that any *)
(* report can name is a whole number of them; a longitude is an index into *)
(* the 2^17 points of each of a number of zones around the globe.  True    *)
(* positions lie on a grid of 0.025 degrees.                               *)
(***************************************************************************)
EXTENDS Integers, Sequences, FiniteSets

CONSTANTS
  Starts,     \* where aircraft begin, as [lat, lon] of the grid
  Moves,      \* how far one may fly between its two reports
  Offsets,    \* where the receiver is from there: [lat, lon] in parts of half a zone
  Parts,      \* into how many parts that is divided
  NoValue

Frac == 131072   \* 2^17
Grid == 14400
Circle == 4 * 60 * 59 * Frac
NZ_AIRBORNE == 15

Lats == -3600..3600
Lons == -7200..7199
Place == [lat : Lats, lon : Lons]

ASSUME CprAssumption ==
  /\ Starts \subseteq Place
  /\ Moves \subseteq [lat : -2..2, lon : -2..2]
  /\ Parts \in Nat \ {0}
  /\ NoValue \notin {"none yet", "ParityMismatch", "LatitudeOutOfRange", "LatitudeZoneMismatch"}
  /\ Offsets \subseteq [lat : Int, lon : Int]

VARIABLES
  surface,  \* the aircraft reports surface positions
  at,       \* where it is
  sent,     \* its even and its odd report, as far as made
  recent,   \* whether the later of them is the odd one
  flown,    \* it has moved since the first
  receiver, \* the place of reference, once it is used
  answer    \* what the decoder made of the reports

vars == <<surface, at, sent, recent, flown, receiver, answer>>

\* ---------------------------------------------------------------- cpr.rs

\* The upper ends of the bands of 59 to 2 longitude zones, rounded up to units: abs < boundary, for whole units.
NL_TRANSITIONS ==
  << 53980501, 76446634, 93759258, 108417018, 121386444, 133162649, 144039411, 154207961,
     163801005, 172915087, 181623042, 189981421, 198035175, 205820741, 213368141, 220702469,
     227844942, 234813720, 241624472, 248290834, 254824774, 261236860, 267536482, 273732035,
     279831059, 285840357, 291766104, 297613913, 303388919, 309095824, 314738955, 320322303,
     325849556, 331324130, 336749199, 342127708, 347462400, 352755821, 358010337, 363228137,
     368411238, 373561482, 378680526, 383769826, 388830610, 393863827, 398870078, 403849497,
     408801567, 413724810, 418616732, 423473041, 428277557, 433019278, 437658850, 442111934,
     446132983, 448528384 >>

Abs(v) == IF v < 0 THEN -v ELSE v

\* NL: the table descends from 59 by one for each boundary passed, to 1 from 87 degrees on.
nl(lat) == 1 + Cardinality({i \in 1..58 : Abs(lat) < NL_TRANSITIONS[i]})

\* 360 over d_lat and over d_lon: the number of zones around the globe.
LatZones(odd) == IF odd THEN 4 * NZ_AIRBORNE - 1 ELSE 4 * NZ_AIRBORNE
LonZones(n, odd) == IF odd /\ n > 1 THEN n - 1 ELSE n

\* The units between two neighbouring latitudes of a report, whose zones are a number of times finer.
Step(odd, finer) == (IF odd THEN 240 ELSE 236) \div finer

(* Mutant: without wrapping. *)
plain_lat(lat) == lat

wrap_lat(lat) == IF lat >= 3 * (Circle \div 4) THEN lat - Circle ELSE lat
wrap_lon(n, zones) == IF 2 * n >= Frac * zones THEN n - Frac * zones ELSE n

(* Mutant: the fraction is cut off and not rounded. *)
ZoneCut(a, b) == (a - b) \div Frac

\* cpr_floor(a - b + 0.5), for multiples of the fraction.
Zone(a, b) == (a - b + Frac \div 2) \div Frac

\* The latitudes of both reports, from the index of their zone.
lat_e(even, odd) == wrap_lat(Step(FALSE, 1) * (Frac * (Zone(59 * even.lat, 60 * odd.lat) % 60) + even.lat))
lat_o(even, odd) == wrap_lat(Step(TRUE, 1) * (Frac * (Zone(59 * even.lat, 60 * odd.lat) % 59) + odd.lat))

\* The longitude of one of them, where there are so many zones.
lon(even, odd, n, of) ==
  LET m == Zone(even.lon * LonZones(n, TRUE), odd.lon * LonZones(n, FALSE))
      zones == LonZones(n, of.odd)
  IN  wrap_lon(Frac * (m % zones) + of.lon, zones)

global_decode(even, odd, most_recent_is_odd) ==
  LET recent_msg == IF most_recent_is_odd THEN odd ELSE even
      lat == IF most_recent_is_odd THEN lat_o(even, odd) ELSE lat_e(even, odd)
  IN  IF even.odd \/ ~odd.odd THEN [error |-> "ParityMismatch"]
      ELSE IF Abs(lat_e(even, odd)) > Circle \div 4 \/ Abs(lat_o(even, odd)) > Circle \div 4
        THEN [error |-> "LatitudeOutOfRange"]
      ELSE IF nl(lat_e(even, odd)) # nl(lat_o(even, odd)) THEN [error |-> "LatitudeZoneMismatch"]
      ELSE [error |-> NoValue, lat |-> lat, zones |-> LonZones(nl(lat), recent_msg.odd),
            lon |-> lon(even, odd, nl(lat), recent_msg)]

(* Mutant: the zone of the receiver instead of the nearest. *)
SameZone(k, frac, zones) == (k * zones) \div Grid

\* floor(ref / d) + floor(0.5 + mod(ref, d) / d - frac), for a reference k on the grid and d a zone.
NearestZone(k, frac, zones) ==
  (k * zones) \div Grid
    + (225 * 65536 + 2048 * ((k * zones) % Grid) - 225 * frac) \div (225 * Frac)

local_decode_with_dlat(msg, reference, finer) ==
  LET j == NearestZone(reference.lat, msg.lat, finer * LatZones(msg.odd))
      lat == wrap_lat(Step(msg.odd, finer) * (Frac * j + msg.lat))
      zones == finer * LonZones(nl(lat), msg.odd)
      m == NearestZone(reference.lon, msg.lon, zones)
  IN  [error |-> NoValue, lat |-> lat, zones |-> zones, lon |-> wrap_lon(Frac * m + msg.lon, zones)]

local_decode(msg, reference) == local_decode_with_dlat(msg, reference, 1)
local_decode_surface(msg, reference) == local_decode_with_dlat(msg, reference, 4)

\* ---------------------------------------------------------------- the transponder

\* The point of the lattice nearest to a place of the grid: 2^17 points in each of the zones.
Nearest(k, zones) == Frac * ((k * zones) \div Grid) + (4096 * ((k * zones) % Grid) + 225) \div 450

\* The latitude that is reported from a place, and the zones that longitude has there.
ReportedLat(odd, place, finer) == Step(odd, finer) * Nearest(place.lat, finer * LatZones(odd))
ReportedZones(odd, place, finer) == finer * LonZones(nl(ReportedLat(odd, place, finer)), odd)

Report(odd, place, finer) ==
  LET n == Nearest(place.lat, finer * LatZones(odd))
      m == Nearest(place.lon, ReportedZones(odd, place, finer))
  IN  [msg |-> [odd |-> odd, lat |-> n % Frac, lon |-> m % Frac],
       lat |-> ReportedLat(odd, place, finer), lon |-> m, zones |-> ReportedZones(odd, place, finer)]

Nothing == [lat |-> NoValue]
Unanswered == [error |-> "none yet"]

Finer == IF surface THEN 4 ELSE 1

WrapGrid(k) == ((k + 7200) % Grid) - 7200

\* ---------------------------------------------------------------- steps

Send(odd) ==
  /\ sent[odd] = Nothing /\ answer = Unanswered
  /\ sent' = [sent EXCEPT ![odd] = Report(odd, at, Finer)]
  /\ recent' = odd
  /\ UNCHANGED <<surface, at, flown, receiver, answer>>

Fly(move) ==
  /\ \E odd \in BOOLEAN : sent[odd] # Nothing /\ sent[~odd] = Nothing
  /\ ~flown /\ answer = Unanswered
  /\ at.lat + move.lat \in Lats
  /\ at' = [lat |-> at.lat + move.lat, lon |-> WrapGrid(at.lon + move.lon)]
  /\ flown' = TRUE
  /\ UNCHANGED <<surface, sent, recent, receiver, answer>>

Pair ==
  /\ sent[FALSE] # Nothing /\ sent[TRUE] # Nothing /\ ~surface
  /\ answer = Unanswered
  /\ answer' = global_decode(sent[FALSE].msg, sent[TRUE].msg, recent)
  /\ UNCHANGED <<surface, at, sent, recent, flown, receiver>>

\* The place so many parts of half a zone away, as exactly as the grid has it below that.
Apart(parts, zones) ==
  IF parts < 0 THEN -((-parts * (Grid - 1)) \div (2 * Parts * zones)) ELSE (parts * (Grid - 1)) \div (2 * Parts * zones)
Beside(offset) ==
  [lat |-> at.lat + Apart(offset.lat, Finer * LatZones(recent)),
   lon |-> WrapGrid(at.lon + Apart(offset.lon, ReportedZones(recent, at, Finer)))]

Locate(offset) ==
  /\ sent[recent] # Nothing /\ sent[~recent] = Nothing
  /\ ~flown /\ answer = Unanswered
  /\ Beside(offset) \in Place
  /\ receiver' = Beside(offset)
  /\ answer' = IF surface THEN local_decode_surface(sent[recent].msg, receiver')
               ELSE local_decode(sent[recent].msg, receiver')
  /\ UNCHANGED <<surface, at, sent, recent, flown>>

Init ==
  /\ surface \in BOOLEAN
  /\ at \in Starts
  /\ sent = [odd \in BOOLEAN |-> Nothing]
  /\ recent = FALSE
  /\ flown = FALSE
  /\ receiver = Nothing
  /\ answer = Unanswered

Next ==
  \/ \E odd \in BOOLEAN : Send(odd)
  \/ \E move \in Moves : Fly(move)
  \/ Pair
  \/ \E offset \in Offsets : Locate(offset)

Spec == Init /\ [][Next]_vars

\* ---------------------------------------------------------------- properties

Answered == answer # Unanswered
Position == Answered /\ answer.error = NoValue

\* The point of the later report, up to whole turns of longitude.
NamesReport ==
  /\ answer.lat = sent[recent].lat
  /\ answer.zones = sent[recent].zones
  /\ (answer.lon - sent[recent].lon) % (Frac * answer.zones) = 0

\* A position from two reports is the exact point of the later one, wherever on the globe and however the
\* aircraft has moved within 3 miles in between (cpr.rs, "the result reflects the aircraft's current position").
GlobalRight == Position /\ receiver = Nothing => NamesReport

\* Two reports of one aircraft are refused only where their latitudes have different numbers of zones
\* (cpr.rs, "normal during fast latitude transitions"), never as corrupt.
RefusedAtTransitions ==
  Answered /\ answer.error # NoValue =>
    /\ answer.error = "LatitudeZoneMismatch"
    /\ nl(sent[FALSE].lat) # nl(sent[TRUE].lat)

\* How far the receiver is from the aircraft, east or west by the shorter way.
North == Abs(receiver.lat - at.lat)
East == Abs(WrapGrid(receiver.lon - at.lon))

\* A position from one report and a receiver less than half a zone away is the exact point of the report
\* (cpr.rs, "the reference must be within roughly 180 NM").
LocalRight ==
  Position /\ receiver # Nothing
    /\ 2 * Finer * LatZones(recent) * North < Grid /\ 2 * ReportedZones(recent, at, Finer) * East < Grid => NamesReport

=============================================================================
