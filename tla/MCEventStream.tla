---------------------------- MODULE MCEventStream ----------------------------
(***************************************************************************)
(* Small instances of EventStream.                                         *)
(***************************************************************************)
EXTENDS EventStream

(* A client without query parameters. *)
Everything == [kinds |-> Kind, icaos |-> Icao, area |-> FALSE]

Unfiltered == [c \in Client |-> Everything]

(* A client that asks for two kinds of event only. *)
NoLosses == [c \in Client |-> [Everything EXCEPT !.kinds = {"acquired", "update"}]]

(* A client that asks for an area. *)
InArea == [c \in Client |-> [Everything EXCEPT !.area = TRUE]]

==============================================================================
