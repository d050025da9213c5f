------------------------------ MODULE Airspace ------------------------------
(***************************************************************************)
(* AppState::snapshot as the GDL90 and the Bluetooth feed see it: a map    *)
(* from addresses to what is known of each aircraft, which the decoder     *)
(* changes under them and only then tells of (run_decoder and              *)
(* update_snapshot in rs1090-serve/main.rs).                               *)
(*                                                                         *)
(* Latitude and longitude are in 65536ths of a degree, directions in       *)
(* tenths of one, vertical rates in feet per minute, speeds in metres per  *)
(* second, callsigns sequences of ASCII codes.                             *)
(***************************************************************************)
EXTENDS Integers, SequencesExt

CONSTANTS
  Plane,   \* addresses
  Address, \* their three bytes
  Looks,   \* what the decoder may put, by address: [position, velocity, callsign]
  Unknown  \* an absent field

VARIABLES
  snapshot,  \* the map
  untold     \* it was changed for an event that is not sent yet

airVars == <<snapshot, untold>>

Span(low, high) == {n \in Int : low <= n /\ n <= high}

(* Local decoding does not bring longitudes back into their circle (cpr.rs:399); a Gillham code is taken *)
(* for hundreds of feet (message.rs:680).                                                                *)
Latitude == Span(-(90 * 65536), 90 * 65536)
Longitude == Span(-(360 * 65536), 360 * 65536)
Altitude == Span(-1000, 406900)
Bearing == Span(0, 3600)

(* Letters, digits, spaces, and underscores for the other codes. *)
Letters == 65..90 \cup 48..57 \cup {32, 95}

Look ==
  [position : [lat : Latitude, lon : Longitude, alt : Altitude \cup {Unknown}] \cup {Unknown},
   velocity : [gs : Span(0, 3000) \cup {Unknown}, track : Bearing \cup {Unknown},
               heading : Bearing \cup {Unknown}, vr : Span(-32640, 32640) \cup {Unknown}] \cup {Unknown},
   callsign : Seq(Letters) \cup {Unknown}]

ASSUME AirspaceAssumption ==
  /\ \A p \in Plane : Address[p] \in [1..3 -> 0..255] /\ Looks[p] \subseteq Look
  /\ \A p \in Plane : \A look \in Looks[p] : look.callsign = Unknown \/ Len(look.callsign) <= 8
  /\ Unknown \notin Longitude  \* and so in no interval of the others

Shown(p, look) ==
  [q \in DOMAIN snapshot \cup {p} |-> IF q = p THEN look ELSE snapshot[q]]

Removed(p) == [q \in DOMAIN snapshot \ {p} |-> snapshot[q]]

(* An event may leave the summary as it was; one of an aircraft in the table puts it. *)
Refresh ==
  /\ ~ untold
  /\ \E p \in Plane :
       \/ \E look \in Looks[p] : snapshot' = Shown(p, look)
       \/ p \in DOMAIN snapshot /\ snapshot' = Removed(p)
  /\ untold' = TRUE

Tell == untold /\ untold' = FALSE /\ UNCHANGED snapshot

AirInit == snapshot = <<>> /\ untold = FALSE

-----------------------------------------------------------------------------
(* Numbers as the code's casts make them *)

(* f64::round: halves away from zero. *)
Rounded(n, d) == IF n >= 0 THEN (2 * n + d) \div (2 * d) ELSE - ((d - 2 * n) \div (2 * d))

(* Division of integers, and `as` of a fraction: towards zero. *)
Truncated(n, d) == IF n >= 0 THEN n \div d ELSE - ((- n) \div d)

Clamp(n, low, high) == Max({low, Min({n, high})})

Either(a, b) == IF a = Unknown THEN b ELSE a

(* A field of the velocity, if there is one. *)
Field(look, f) == IF look.velocity = Unknown THEN Unknown ELSE look.velocity[f]

Direction(look) == Either(Field(look, "track"), Field(look, "heading"))

=============================================================================
