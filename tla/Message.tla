------------------------------ MODULE Message ------------------------------
(***************************************************************************)
(* The fields of an extended squitter, rs1090/message.rs: a received frame *)
(* (the positions of its one bits, as in Crc) becomes a typed payload.     *)
(* Knots of surface movement are counted in eighths; ground velocity stays *)
(* a pair of components, of which the code hands on the hypotenuse and the *)
(* angle; characters stay what the standard calls them.                    *)
(***************************************************************************)
EXTENDS Integers, Sequences, FiniteSetsExt

CONSTANT NoValue   \* the code's Option::None

\* BitReader::bits and ::bit: a field of the ME, 1-indexed as in the standard.  The ME starts behind 32 bits.
Bits(bytes, pos, len) ==
  MapThenSumSet(LAMBDA p : 2^(31 + pos + len - 1 - p), bytes \cap (31 + pos)..(31 + pos + len - 1))

Bit(bytes, pos) == 31 + pos \in bytes

\* DownlinkFormat::from_first_byte, ::frame_bytes and ::has_clean_crc.
FormatWeight == <<16, 8, 4, 2, 1>>
DownlinkFormat(bytes) ==
  LET Worth(p) == IF p \in bytes THEN FormatWeight[p + 1] ELSE 0
  IN  Worth(0) + Worth(1) + Worth(2) + Worth(3) + Worth(4)
CleanCrc == {11, 17, 18}
AddressedCrc == {0, 4, 5, 16, 20, 21}
Reserved(df) == df \notin CleanCrc \cup AddressedCrc
FrameBytes(df) == IF df >= 16 THEN 14 ELSE 7

\* TypeCode::from_raw.
TypeCode(tc) ==
  CASE tc \in 1..4 -> "identification"
    [] tc \in 5..8 -> "surface"
    [] tc \in (9..18) \cup (20..22) -> "airborne"
    [] tc = 19 -> "velocity"
    [] OTHER -> "raw"

\* callsign_char: letters, digits and the space keep their code, the rest is an underscore.
Underscore == 95
Char(code) == IF code \in (1..26) \cup {32} \cup (48..57) THEN code ELSE Underscore

decode_identification(bytes) ==
  LET chars == [k \in 1..8 |-> Char(Bits(bytes, 9 + 6 * (k - 1), 6))]
      kept == {k \in 1..8 : chars[k] \notin {32, Underscore}}
  IN  [kind |-> "identification", set |-> Bits(bytes, 1, 5), category |-> Bits(bytes, 6, 3),
       callsign |-> SubSeq(chars, 1, IF kept = {} THEN 0 ELSE Max(kept))]

decode_altitude_ac12(ac12, tc) ==
  CASE ac12 = 0 -> NoValue
    [] ac12 # 0 /\ tc \in 20..22 -> <<"gnss", (ac12 * 328084) \div 100000>>
    [] ac12 # 0 /\ tc \notin 20..22 /\ (ac12 \div 16) % 2 = 1 ->
         <<"baro", ((ac12 % 16) + 16 * (ac12 \div 32)) * 25 - 1000>>
    [] OTHER -> <<"gillham", ac12 * 100 - 1000>>

Position(bytes) ==
  [odd |-> Bit(bytes, 22), lat |-> Bits(bytes, 23, 17), lon |-> Bits(bytes, 40, 17)]

decode_airborne_position(bytes) ==
  [kind |-> "airborne", cpr |-> Position(bytes),
   altitude |-> decode_altitude_ac12(Bits(bytes, 9, 12), Bits(bytes, 1, 5))]

\* surface_speed_kt, in eighths of a knot.
SurfaceSpeed(movement) ==
  CASE movement = 1 -> 0
    [] movement \in 2..8 -> 1 + (movement - 2)
    [] movement \in 9..12 -> 8 + (movement - 9) * 2
    [] movement \in 13..38 -> 16 + (movement - 13) * 4
    [] movement \in 39..93 -> 120 + (movement - 39) * 8
    [] movement \in 94..108 -> 560 + (movement - 94) * 16
    [] movement \in 109..123 -> 800 + (movement - 109) * 40
    [] movement = 124 -> 1400
    [] OTHER -> NoValue

decode_surface_position(bytes) ==
  [kind |-> "surface", cpr |-> Position(bytes), speed |-> SurfaceSpeed(Bits(bytes, 6, 7)),
   track |-> IF Bit(bytes, 13) THEN Bits(bytes, 14, 7) ELSE NoValue]

Signed(negative, v) == IF negative THEN -v ELSE v

\* A component of the ground velocity: raw - 1, and 0 when it is not available.
Component(bytes, pos, scale) ==
  LET raw == Bits(bytes, pos + 1, 10)
  IN  Signed(Bit(bytes, pos), IF raw = 0 THEN 0 ELSE raw - 1) * scale

VerticalRate(bytes) ==
  LET raw == Bits(bytes, 38, 9)
  IN  IF raw = 0 THEN NoValue ELSE Signed(Bit(bytes, 37), (raw - 1) * 64)

\* Subtypes other than 1 to 4 are refused, and the squitter keeps its raw ME.
decode_velocity(bytes) ==
  LET subtype == Bits(bytes, 6, 3)
      scale == IF subtype \in {2, 4} THEN 4 ELSE 1
      airspeed == Bits(bytes, 26, 10)
      rate == [vertical |-> VerticalRate(bytes), gnss |-> Bit(bytes, 36)]
  IN  CASE subtype \in {1, 2} ->
             [kind |-> "ground", rate |-> rate,
              east |-> Component(bytes, 14, scale), north |-> Component(bytes, 25, scale)]
        [] subtype \in {3, 4} ->
             [kind |-> "airspeed", rate |-> rate, magnetic |-> ~Bit(bytes, 25),
              speed |-> IF airspeed = 0 THEN 0 ELSE (airspeed - 1) * scale,
              heading |-> IF Bit(bytes, 14) THEN Bits(bytes, 15, 10) ELSE NoValue]
        [] OTHER -> [kind |-> "raw", me |-> bytes \cap 32..87]

Payload(bytes) ==
  CASE TypeCode(Bits(bytes, 1, 5)) = "identification" -> decode_identification(bytes)
    [] TypeCode(Bits(bytes, 1, 5)) = "airborne" -> decode_airborne_position(bytes)
    [] TypeCode(Bits(bytes, 1, 5)) = "surface" -> decode_surface_position(bytes)
    [] TypeCode(Bits(bytes, 1, 5)) = "velocity" -> decode_velocity(bytes)
    [] OTHER -> [kind |-> "raw", me |-> bytes \cap 32..87]

\* Bytes 1 to 3, most significant bit first.
AnnouncedAddress(bytes) == {31 - p : p \in bytes \cap 8..31}

\* decode, for the formats whose bytes are believed; a surveillance reply is passed on as it is.
decode(bytes, df) ==
  CASE df \in {17, 18} ->
         [kind |-> "squitter", icao |-> AnnouncedAddress(bytes),
          capability |-> bytes \cap 5..7, payload |-> Payload(bytes)]
    [] df = 11 -> [kind |-> "all_call", icao |-> AnnouncedAddress(bytes)]
    [] df \in AddressedCrc -> [kind |-> "surveillance"]
    [] OTHER -> [kind |-> "other"]

=============================================================================
