---------------------------- MODULE FrameDetector ----------------------------
(***************************************************************************)
(* The frame detector of crates/rs1090 (FrameDetector::process in frame.rs *)
(* and process_2400 in demod_2400.rs): it is handed the stream of samples  *)
(* in chunks of any size, walks over them looking for frames, and carries  *)
(* the tail of one chunk over to the next.  There are two walks, one for   *)
(* 2.4 MS/s and one for every other rate.                                  *)
(*                                                                         *)
(* Abstractions.                                                           *)
(*  - Of the samples only what the walk makes of them at each position is  *)
(*    kept: signal[p] is what starts at position p of the stream, the      *)
(*    magnitude of the sample there, and the score of the preamble window. *)
(*  - The noise floor is kept for the first walk, whose threshold it sets. *)
(*    The walk at 2.4 MS/s updates it too but never reads it.              *)
(*  - Positions count from the start of the stream: the buffer of one call *)
(*    holds the positions from base to before end.                         *)
(*  - All aircraft share one address.                                      *)
(***************************************************************************)
EXTENDS Integers, Sequences, FiniteSets

CONSTANTS
  Preamble,   \* samples of a preamble
  Short,      \* samples of the payload of a short frame
  Long,       \* samples of the payload of a long frame
  LookShort,  \* samples a position needs before the 2.4 MS/s walk tries it
  LookLong,   \* samples that walk needs for a long frame
  Carry,      \* samples that may be carried over
  Weight,     \* samples the noise floor averages over, 2^DEFAULT_SHIFT
  Gain,       \* PREAMBLE_GAIN
  Signals,    \* the streams to detect frames in
  Length      \* bound on the samples of a stream

(* A clean extended squitter, one whose CRC fails, one of low confidence, a *)
(* surveillance reply, a reserved format, or nothing.                       *)
What == {"squitter", "corrupt", "weak", "reply", "reserved", "noise"}

Position == 0 .. Length - 1

Point == [what : What, sample : Nat, score : Int]

ASSUME FrameDetectorAssumption ==
  /\ Preamble \in Nat \ {0}
  /\ Short \in Nat \ {0}
  /\ Long \in Nat /\ Long >= Short
  /\ LookShort \in Nat /\ LookShort >= Preamble + Short
  /\ LookLong \in LookShort .. LookShort + Preamble + Long
  /\ LookLong >= Preamble + Long
  /\ Carry \in Nat /\ Carry >= LookLong
  /\ Weight \in Nat \ {0} /\ Gain \in Nat
  /\ Length \in Nat
  /\ Signals \subseteq [Position -> Point]
  /\ \A s \in Signals : \A p \in Position : s[p].what = "noise" => s[p].score <= 0

VARIABLES
  signal,    \* the stream
  fast,      \* the detector was built for 2.4 MS/s
  walking,   \* a call of process is under way
  base,      \* position of the first sample in the buffer
  end,       \* position behind the last sample in the buffer
  i,         \* position of the walk
  consumed,  \* longest advance reported in this call (2.4 MS/s)
  heard,     \* the address has been seen in a clean frame (IcaoFilter)
  acc,       \* NoiseFloor::acc, the floor times Weight
  found,     \* positions of the frames handed to the callback
  drowned,   \* history: the preambles passed over because they did not clear the threshold
  ample      \* history: every chunk so far was as long as a long frame

vars == <<signal, fast, walking, base, end, i, consumed, heard, acc, found, drowned, ample>>

-----------------------------------------------------------------------------

(* DownlinkFormat::frame_bytes, in samples, with the preamble. *)
Span(p) == Preamble + (IF signal[p].what = "reply" THEN Short ELSE Long)

(* A call begins: the carried samples and n new ones. *)
Feed(n) ==
  /\ ~ walking
  /\ end + n <= Length
  /\ walking' = TRUE
  /\ end' = end + n
  /\ i' = base
  /\ consumed' = 0
  /\ ample' = (ample /\ n >= Preamble + Long)
  /\ UNCHANGED <<signal, fast, base, heard, acc, found, drowned>>

-----------------------------------------------------------------------------
(* The walk at any rate but 2.4 MS/s *)

Window(p) == p + Preamble + Short <= end

(* Enough samples for the frame its format announces. *)
Whole(p) == p + Span(p) <= end

(* NoiseFloor::update with the sample at p, from an average a. *)
Updated(a, p) == a + signal[p].sample - a \div Weight

(* preamble_clears_threshold at p, against that floor. *)
Clears(a, p) == signal[p].score > Gain * (a \div Weight)

(* Mutant: the sample is taken in twice. *)
TurnsTwice ==
  /\ walking /\ ~ fast
  /\ Window(i)
  /\ acc' = Updated(Updated(acc, i), i)

(* Every turn of the walk takes the sample at i into the floor, also one that *)
(* breaks off there: the next call takes it in again.                         *)
Turns ==
  /\ walking /\ ~ fast
  /\ Window(i)
  /\ acc' = Updated(acc, i)

(* Nothing that clears the threshold, or a reserved format behind it. *)
PassOver ==
  /\ Turns
  /\ \/ /\ ~ Clears(acc', i)
        /\ i' = i + 1
        /\ drowned' = IF signal[i].what = "noise" THEN drowned ELSE drowned \cup {i}
     \/ /\ Clears(acc', i) /\ signal[i].what = "reserved"
        /\ i' = i + Preamble
        /\ drowned' = drowned
  /\ UNCHANGED <<signal, fast, walking, base, end, consumed, heard, found, ample>>

(* A frame, whatever its CRC says, is handed on if its confidence suffices; *)
(* the walk goes on behind it in any case.                                  *)
Detect ==
  /\ Turns
  /\ Clears(acc', i)
  /\ signal[i].what # "reserved"
  /\ Whole(i)
  /\ found' = IF signal[i].what = "weak" THEN found ELSE Append(found, i)
  /\ i' = i + Span(i)
  /\ UNCHANGED <<signal, fast, walking, base, end, consumed, heard, drowned, ample>>

(* The walk stops for want of samples, of a window or of the whole frame. *)
BreaksOff ==
  \/ walking /\ ~ fast /\ ~ Window(i) /\ acc' = acc
  \/ Turns /\ Clears(acc', i) /\ signal[i].what # "reserved" /\ ~ Whole(i)

(* Mutants: the carry holds a short frame only; it is always filled. *)
RetainedShort(tail) == IF tail > Preamble + Short THEN Preamble + Short ELSE tail

RetainedFull(tail) == IF end - base > Carry THEN Carry ELSE end - base

(* Samples kept of a tail of that length. *)
Retained(tail) == IF tail > Carry THEN Carry ELSE tail

Stash ==
  /\ BreaksOff
  /\ walking' = FALSE
  /\ base' = end - Retained(end - i)
  /\ UNCHANGED <<signal, fast, end, i, consumed, heard, found, drowned, ample>>

-----------------------------------------------------------------------------
(* The walk at 2.4 MS/s (process_2400 and run_2400) *)

InReach(p) == p + LookShort <= end

(* The candidate at p scores: its CRC is right, or it is a reply whose        *)
(* syndrome belongs to a known address; and its confidence suffices.          *)
Accepts(p) ==
  \/ signal[p].what = "squitter" /\ p + LookLong <= end
  \/ signal[p].what = "reply" /\ heard

PassOver2400 ==
  /\ walking /\ fast
  /\ InReach(i)
  /\ ~ Accepts(i)
  /\ i' = i + 1
  /\ UNCHANGED <<signal, fast, walking, base, end, consumed, heard, acc, found, drowned, ample>>

Detect2400 ==
  /\ walking /\ fast
  /\ InReach(i)
  /\ Accepts(i)
  /\ found' = Append(found, i)
  /\ heard' = (heard \/ signal[i].what = "squitter")
  /\ consumed' = IF Span(i) > consumed THEN Span(i) ELSE consumed
  /\ i' = i + Span(i)
  /\ UNCHANGED <<signal, fast, walking, base, end, acc, drowned, ample>>

(* What was consumed is the length of the longest frame, not the place where *)
(* the walk ended.                                                           *)
Stash2400 ==
  /\ walking /\ fast
  /\ ~ InReach(i)
  /\ walking' = FALSE
  /\ base' = end - Retained(end - base - consumed)
  /\ UNCHANGED <<signal, fast, end, i, consumed, heard, acc, found, drowned, ample>>

-----------------------------------------------------------------------------

Init ==
  /\ signal \in Signals
  /\ fast \in BOOLEAN
  /\ walking = FALSE
  /\ base = 0
  /\ end = 0
  /\ i = 0
  /\ consumed = 0
  /\ heard = FALSE
  /\ acc = 0
  /\ found = <<>>
  /\ drowned = {}
  /\ ample = TRUE

Next ==
  \/ \E n \in 1 .. Length : Feed(n)
  \/ PassOver \/ Detect \/ Stash
  \/ PassOver2400 \/ Detect2400 \/ Stash2400

Spec == Init /\ [][Next]_vars

-----------------------------------------------------------------------------
(* Properties *)

(* Type invariant of the detector: the walk and the carry stay inside the     *)
(* samples it was given.                                                      *)
TypeOK ==
  /\ signal \in Signals
  /\ fast \in BOOLEAN
  /\ walking \in BOOLEAN
  /\ end \in 0 .. Length
  /\ base \in 0 .. end
  /\ i \in 0 .. end
  /\ consumed \in {0, Preamble + Short, Preamble + Long}
  /\ heard \in BOOLEAN
  /\ acc \in Nat
  /\ found \in Seq(Position)
  /\ drowned \subseteq Position
  /\ ample \in BOOLEAN

(* What one walk from each position over the samples before e finds, if it  *)
(* hears every preamble but those in deaf.                                  *)
Walk(e, deaf) ==
  LET walk[p \in 0 .. Length] ==
        IF p + Preamble + Short > e THEN <<>>
        ELSE IF signal[p].what = "noise" \/ p \in deaf THEN walk[p + 1]
        ELSE IF signal[p].what = "reserved" THEN walk[p + Preamble]
        ELSE IF p + Span(p) > e THEN <<>>
        ELSE IF signal[p].what = "weak" THEN walk[p + Span(p)]
        ELSE <<p>> \o walk[p + Span(p)]
  IN  walk

(* "The detector retains the tail of the previous chunk so a preamble         *)
(* straddling a boundary is not lost" (frame.rs): however the stream is cut   *)
(* into chunks, the frames found so far are those of one walk over all of it  *)
(* that passes over the same drowned preambles.  Through the carry and the    *)
(* positions none is lost, none comes twice and none appears; a cut can make  *)
(* a difference only by what it makes of the noise floor.                     *)
SplitsDoNotMatter == (~ fast /\ ~ walking) => found = Walk(end, drowned)[0]

(* What one call of process finds in all the samples so far. *)
OneCall ==
  LET turn(w) ==
        LET p == w.at
            a == Updated(w.acc, p)
            loud == Clears(a, p)
        IN  IF ~ Window(p) \/ w.over THEN w
            ELSE [at    |-> IF ~ loud THEN p + 1
                            ELSE IF signal[p].what = "reserved" THEN p + Preamble
                            ELSE p + Span(p),
                  acc   |-> a,
                  found |-> IF loud /\ signal[p].what \notin {"reserved", "weak"} /\ Whole(p)
                            THEN Append(w.found, p) ELSE w.found,
                  over  |-> loud /\ signal[p].what # "reserved" /\ ~ Whole(p)]
      after[n \in 0 .. Length] ==
        IF n = 0 THEN [at |-> 0, acc |-> 0, found |-> <<>>, over |-> FALSE] ELSE turn(after[n - 1])
  IN  after[Length].found

(* "`samples` may be of any length" (frame.rs) is true of chunks as long as a  *)
(* frame, and of preambles that clear the threshold with something to spare:  *)
(* then what is found is what one call finds, the noise floor included.  With *)
(* smaller chunks the pulse at which each call breaks off drowns itself.      *)
AmpleChunks == (~ fast /\ ~ walking /\ ample) => found = OneCall

(* The carry always reaches back to where the walk stopped: no sample falls   *)
(* between two calls and none is walked over twice.                           *)
ResumesWhereItStopped == (~ fast /\ ~ walking) => base = i

(* Two frames that begin at p and q share samples. *)
Overlap(p, q) == p < q + Span(q) /\ q < p + Span(p)

(* The frame at p was found, or one that shares samples with it. *)
Met(p) == \E k \in 1 .. Len(found) : Overlap(found[k], p)

(* At 2.4 MS/s too nothing is lost at a boundary ("defer to next chunk's      *)
(* carry-over", demod_2400.rs): a squitter that lies wholly in the samples so *)
(* far, with the walk's lookahead, has been found, unless a frame that was    *)
(* found overlaps it.                                                         *)
NoSquitterLost ==
  (fast /\ ~ walking) =>
     \A p \in Position : signal[p].what = "squitter" /\ p + LookLong <= end => Met(p)

==============================================================================
