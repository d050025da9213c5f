------------------------------ MODULE MCDecoder ------------------------------
(***************************************************************************)
(* Small instances of Decoder.                                             *)
(***************************************************************************)
EXTENDS Decoder, MCTracker

(* A frame of every kind, sent by anyone. *)
EveryKind ==
       Clean([kind : {"ident"}, callsign : Calls, category : {k1}])
  \cup [crc : {"corrected"}, icao : Icao, payload : [kind : {"velocity"}, velocity : Vels]]
  \cup Clean({[kind |-> "raw"]})
  \cup Clean([kind : {"airborne"}, odd : {TRUE}, cpr : {z1}])
  \cup Clean([kind : {"surface"}, velocity : {v1}])
  \cup Failed \cup Anonymous

==============================================================================
