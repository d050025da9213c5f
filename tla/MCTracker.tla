------------------------------ MODULE MCTracker ------------------------------
(***************************************************************************)
(* Small instances of Tracker.                                             *)
(***************************************************************************)
EXTENDS Tracker

CONSTANTS
  c1, c2,  \* callsigns
  k1, k2,  \* emitter categories
  v1,      \* a velocity
  z1, z2, zx,  \* CPR halves of two latitude zones, and one out of range
  a1       \* the aircraft that sends positions

Calls == {c1, c2}

Cats == {k1, k2}

Vels == {v1}

Zones == {z1, z2, zx}

(* Halves of one zone pair up, halves of two zones do not, and zx decodes to *)
(* a latitude outside [-90, 90] with any partner.                            *)
DecodeByZone ==
  [p \in Zones \X Zones |->
     IF zx \in {p[1], p[2]} THEN "range" ELSE IF p[1] = p[2] THEN "ok" ELSE "zone"]

Clean(p) == [crc : {"clean"}, icao : Icao, payload : p]

Anonymous == [crc : {"clean"}, icao : {None}, payload : [kind : {"raw"}]]

Failed == [crc : {"failed"}, icao : Icao \cup {None}, payload : {None}]

(* Who is in the table and when: no payload that touches a half. *)
LruFrames ==
  Clean({[kind |-> "allcall"]}) \cup Failed \cup Anonymous

(* Positions of every parity and zone, from the air and on the ground. *)
PositionsOf(a) ==
       [crc : {"clean"}, icao : {a}, payload : [kind : {"airborne"}, odd : BOOLEAN, cpr : Zones]]
  \cup [crc : {"clean"}, icao : {a}, payload : [kind : {"surface"}, velocity : {v1, None}]]

TableFrames == LruFrames \cup PositionsOf(a1)

==============================================================================
