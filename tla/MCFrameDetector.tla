--------------------------- MODULE MCFrameDetector ---------------------------
(***************************************************************************)
(* Small instances of FrameDetector.                                       *)
(***************************************************************************)
EXTENDS FrameDetector

CONSTANT Busy  \* positions at which something other than noise may start

(* A pulse is eight times as loud as noise, and a preamble scores eleven. *)
At(v) == [what |-> v, sample |-> IF v = "noise" THEN 1 ELSE 8, score |-> IF v = "noise" THEN 0 ELSE 11]

(* Noise, and something at two positions at most. *)
Sparse ==
  {[p \in Position |-> At(IF p = q THEN v ELSE IF p = r THEN w ELSE "noise")] :
     q \in Busy, r \in Busy, v \in What, w \in What}
(* A squitter first, so that the address is known, then a squitter and a *)
(* reply that may overlap.                                               *)
Crowded ==
  {[p \in Position |-> At(IF p = r THEN "reply" ELSE IF p \in {0, q} THEN "squitter" ELSE "noise")] :
     q \in Busy, r \in Busy}

Streams == Sparse \cup Crowded

==============================================================================
