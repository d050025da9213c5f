-------------------------------- MODULE Demod --------------------------------
(***************************************************************************)
(* From samples to bits (rs1090/demod.rs, rs1090/demod_2400.rs and the     *)
(* walks over them in rs1090/frame.rs): the noise floor, the search for a  *)
(* preamble and the slicing of a payload, at 2.4 MS/s and at any other     *)
(* rate.  FrameDetector takes from here what starts at a position.         *)
(*                                                                         *)
(* Time is counted in ticks of a twelfth of a microsecond, so that a bit   *)
(* is 12 ticks and a sample of every rate used is a whole number of them.  *)
(* Bits are the positions of the ones, as in Message.  A checksum is right *)
(* for what was transmitted and for nothing else (see Link for more).      *)
(***************************************************************************)
EXTENDS Message, SequencesExt

CONSTANTS
  Grains,      \* sample rates, as ticks per sample: 5 is 2.4 MS/s, 6 is 2 MS/s
  Shift,       \* NoiseFloor::DEFAULT_SHIFT
  Seeds,       \* noise floors a detector is reset to; fresh() is 0
  Levels,      \* magnitudes of the noise
  Amplitudes,  \* what a pulse adds to the noise
  Buffers,     \* buffers: what is on the air, a sequence of [bits, bytes, start], and by how
               \* many samples the buffer is longer than that
  MaxQuiet,    \* bound on the samples of noise
  MaxBefore    \* bound on those before a buffer with something on the air

(* The largest u16. *)
Top == 65535

VARIABLES
  grain,     \* the detector's rate
  acc,       \* NoiseFloor::acc
  least,     \* least seed or sample so far
  most,      \* largest seed or sample so far
  quiet,     \* samples of noise so far
  air,       \* what is on the air in this buffer; empty before it
  level,     \* the noise under it
  amplitude, \* and the strength of its pulses
  len,       \* samples in the buffer
  walking,   \* the walk over it is under way
  j,         \* its position
  read       \* frames handed on: which bits, and what the check makes of them

vars == <<grain, acc, least, most, quiet, air, level, amplitude, len, walking, j, read>>

\* ---------------------------------------------------------------- the air

BitTicks == 12
PulseTicks == 6
PreambleTicks == 96
PreamblePulses == {0, 12, 42, 54}

(* A transmission has a pulse at this tick: of its preamble, or in the first half of a one or the second of a zero. *)
Pulse(t, x) ==
  LET at == x - t.start
      bit == at - PreambleTicks
  IN  \/ \E p \in PreamblePulses : at \in p..p + PulseTicks - 1
      \/ /\ bit \in 0..8 * BitTicks * t.bytes - 1
         /\ (bit % BitTicks < PulseTicks) <=> (bit \div BitTicks \in t.bits)

(* The magnitude of sample k: the noise, and the part of the sample's time that pulses fill. *)
Sample(k) ==
  LET lit == {x \in k * grain..k * grain + grain - 1 : \E n \in DOMAIN air : Pulse(air[n], x)}
  IN  level + (amplitude * Cardinality(lit)) \div grain

Ends(t) == t.start + PreambleTicks + 8 * BitTicks * t.bytes

ASSUME DemodAssumption ==
  /\ Grains \subseteq Nat \ {0}
  /\ Shift \in 1..16 /\ 2^Shift \in Nat \ {0}
  /\ Seeds \cup Levels \subseteq 0..Top /\ Amplitudes \subseteq Nat
  /\ \A noise \in Levels, strength \in Amplitudes : noise + strength <= Top
  /\ \A buffer \in Buffers : Ends(Last(buffer.air)) \in Nat /\ buffer.spare \in Int
  /\ MaxQuiet \in Nat /\ MaxBefore \in Nat

\* ---------------------------------------------------------------- NoiseFloor

Gain == 16

(* Mutant: the leak of the old value is forgotten. *)
AddedOnly(a, sample) == a + sample

Updated(a, sample) == a + sample - a \div 2^Shift

Floor(a) == IF a \div 2^Shift > Top THEN Top ELSE a \div 2^Shift

Track(sample) ==
  /\ acc' = Updated(acc, sample)
  /\ least' = IF sample < least THEN sample ELSE least
  /\ most' = IF sample > most THEN sample ELSE most

\* ---------------------------------------------------------------- DemodConfig

Rounded(n, d) == (2 * n + d) \div (2 * d)
Ceiling(n, d) == (n + d - 1) \div d

preamble_samples == Rounded(PreambleTicks, grain)
samples_for_bits(n) == Ceiling(BitTicks * n, grain)

preamble_high_idx ==
  UNION {p \div grain..(p + PulseTicks - 1) \div grain : p \in PreamblePulses} \cap 0..preamble_samples - 1
preamble_low_idx == (0..preamble_samples - 1) \ preamble_high_idx

(* Mutant: without the padding. *)
Unpadded == preamble_samples + samples_for_bits(112)

(* carry_samples_for: one preamble and a long frame, padded to whole blocks of 64. *)
carry_samples == Ceiling(preamble_samples + samples_for_bits(112), 64) * 64

\* ---------------------------------------------------------------- any rate but 2.4 MS/s

SumAt(idx) == MapThenSumSet(LAMBDA k : Sample(j + k), idx)

preamble_score ==
  (SumAt(preamble_high_idx) * 4) \div Cardinality(preamble_high_idx)
    - (SumAt(preamble_low_idx) * 12) \div Cardinality(preamble_low_idx)

preamble_clears_threshold(floor) == preamble_score > Gain * floor

(* The mean of a stretch of ticks counted from a sample, of samples up to last. *)
integrated_magnitude(at, first, end, last) ==
  LET Share(k) == Min({(k + 1) * grain, end}) - Max({k * grain, first})
      touched == first \div grain..Min({last, (end - 1) \div grain})
  IN  IF touched = {} THEN 0
      ELSE Rounded(MapThenSumSet(LAMBDA k : Share(k) * Sample(at + k), touched), MapThenSumSet(Share, touched))

(* The bit that two halves make. *)
slice_bit(s0, s1) == s0 > s1

slice_bits(at, n) ==
  LET last == samples_for_bits(n) - 1
  IN  {i \in 0..n - 1 :
         slice_bit(integrated_magnitude(at, BitTicks * i, BitTicks * i + PulseTicks, last),
                   integrated_magnitude(at, BitTicks * i + PulseTicks, BitTicks * (i + 1), last))}

slice_df_prefix(at) == slice_bits(at, 5)

Frame(bits, bytes, outcome) == [bits |-> bits, bytes |-> bytes, outcome |-> outcome]

(* What the check makes of a slice: right, right but for one bit, or wrong. *)
Checked(bits, df) ==
  LET Near(e) == {n \in DOMAIN air : /\ air[n].bytes = FrameBytes(df)
                                     /\ Cardinality((air[n].bits \ bits) \cup (bits \ air[n].bits)) = e}
  IN  IF df \in CleanCrc /\ Near(0) # {} THEN Frame(bits, FrameBytes(df), "Clean")
      ELSE IF df \in CleanCrc /\ Near(1) # {}
           THEN Frame(air[Min(Near(1))].bits, FrameBytes(df), "Corrected")
           ELSE Frame(bits, FrameBytes(df), "Failed")

Generic == walking /\ grain # 5
Window == j + preamble_samples + samples_for_bits(56) <= len
payload_start == j + preamble_samples
Df == DownlinkFormat(slice_df_prefix(payload_start))
payload_end == payload_start + samples_for_bits(8 * FrameBytes(Df))

(* No preamble here, or one that is followed by a reserved format. *)
PassOver ==
  /\ Generic /\ Window
  /\ Track(Sample(j))
  /\ \/ ~preamble_clears_threshold(Floor(acc')) /\ j' = j + 1
     \/ preamble_clears_threshold(Floor(acc')) /\ Reserved(Df) /\ j' = payload_start
  /\ UNCHANGED <<grain, quiet, air, level, amplitude, len, walking, read>>

(* A frame is handed on whatever its checksum says. *)
Detect ==
  /\ Generic /\ Window
  /\ Track(Sample(j))
  /\ preamble_clears_threshold(Floor(acc'))
  /\ ~Reserved(Df) /\ payload_end <= len
  /\ read' = Append(read, Checked(slice_bits(payload_start, 8 * FrameBytes(Df)), Df))
  /\ j' = payload_end
  /\ UNCHANGED <<grain, quiet, air, level, amplitude, len, walking>>

(* The walk ends: the frame is not whole, or there is no room for the shortest. *)
BreakOff ==
  /\ Generic
  /\ \/ /\ Window
        /\ Track(Sample(j))
        /\ preamble_clears_threshold(Floor(acc'))
        /\ ~Reserved(Df) /\ payload_end > len
     \/ ~Window /\ UNCHANGED <<acc, least, most>>
  /\ walking' = FALSE
  /\ UNCHANGED <<grain, quiet, air, level, amplitude, len, j, read>>

\* ---------------------------------------------------------------- 2.4 MS/s

PREAMBLE_SAMPLES_2400 == 19
LOOKAHEAD_SHORT == 19 + 1 + 135

(* detect_preamble: where the samples of a window rise and fall, which of them are the peaks, and which *)
(* stand for signal and for noise.  Every window rises behind its first sample and falls behind sample 12. *)
Patterns ==
  <<[up |-> {2, 8, 10}, down |-> {1, 3, 9}, high |-> {1, 3, 9, 11, 12}, signal |-> {1, 3, 9}, noise |-> {5, 6, 7}],
    [up |-> {2, 8, 11}, down |-> {1, 3, 9}, high |-> {1, 3, 9, 12}, signal |-> {1, 3, 9, 12}, noise |-> 5..8],
    [up |-> {2, 8, 11}, down |-> {1, 4, 10}, high |-> {1, 3, 4, 9, 10, 12}, signal |-> {1, 12}, noise |-> {6, 7}],
    [up |-> {3, 9, 11}, down |-> {1, 4, 10}, high |-> {1, 4, 10, 12}, signal |-> {1, 4, 10, 12}, noise |-> 5..8],
    [up |-> {3, 9, 11}, down |-> {2, 4, 10}, high |-> {1, 2, 4, 10, 12}, signal |-> {4, 10, 12}, noise |-> {6, 7, 8}]>>

Matching ==
  {n \in DOMAIN Patterns :
     /\ \A k \in Patterns[n].up \cup {0} : Sample(j + k) < Sample(j + k + 1)
     /\ \A k \in Patterns[n].down \cup {12} : Sample(j + k) > Sample(j + k + 1)}

Quiet == (5..8) \cup (14..18)

(* The first pattern that matches, enough signal for the noise, and nothing between the pulses as high as they. *)
Preamble2400 ==
  /\ Matching # {}
  /\ LET hit == Patterns[Min(Matching)]
     IN  /\ SumAt(hit.signal) * 2 >= 3 * SumAt(hit.noise)
         /\ \A k \in Quiet : Sample(j + k) < SumAt(hit.high) \div 4

(* slice_phase0 to 4: weights of three or four samples. *)
Weights == <<<<5, -3, -2>>, <<4, -1, -3>>, <<3, 1, -4>>, <<2, 3, -5>>, <<1, 5, -5, -1>>>>

slice_phase(c, at) ==
  MapThenSumSet(LAMBDA k : Weights[c + 1][k] * Sample(at + k - 1), DOMAIN Weights[c + 1])

(* For each phase of a byte, the slicer of each of its bits and the sample that starts at. *)
Slicers ==
  <<<<<<0, 0>>, <<2, 2>>, <<4, 4>>, <<1, 7>>, <<3, 9>>, <<0, 12>>, <<2, 14>>, <<4, 16>>>>,
    <<<<1, 0>>, <<3, 2>>, <<0, 5>>, <<2, 7>>, <<4, 9>>, <<1, 12>>, <<3, 14>>, <<0, 17>>>>,
    <<<<2, 0>>, <<4, 2>>, <<1, 5>>, <<3, 7>>, <<0, 10>>, <<2, 12>>, <<4, 14>>, <<1, 17>>>>,
    <<<<3, 0>>, <<0, 3>>, <<2, 5>>, <<4, 7>>, <<1, 10>>, <<3, 12>>, <<0, 15>>, <<2, 17>>>>,
    <<<<4, 0>>, <<1, 3>>, <<3, 5>>, <<0, 8>>, <<2, 10>>, <<4, 12>>, <<1, 15>>, <<3, 17>>>>>>

(* The slicer of a bit of the message. *)
Slicer(try, b) == Slicers[((try + b \div 8) % 5) + 1][(b % 8) + 1]

(* Mutant: every byte advances by 19 samples. *)
PointerOf19(base, try, byte) == base + try \div 5 + 19 * byte

(* Where a byte starts: 19 samples behind the one before, 20 if that was in phase 4. *)
Pointer(base, try, byte) == base + try \div 5 + 19 * byte + ((try % 5) + byte) \div 5

slice_message(base, try, bytes) ==
  {b \in 0..8 * bytes - 1 :
     slice_phase(Slicer(try, b)[1], Pointer(base, try, b \div 8) + Slicer(try, b)[2]) > 0}

(* Mutant: a short frame's room is enough. *)
RoomShort(try, bytes) == j + PREAMBLE_SAMPLES_2400 + try \div 5 + 7 * 19 + 4 <= len

(* The room a payload must have in the buffer before it is sliced. *)
Room(try, bytes) == j + PREAMBLE_SAMPLES_2400 + try \div 5 + (IF bytes = 14 THEN 14 * 20 ELSE 7 * 19) + 4 <= len

Attempt(try) ==
  LET base == j + PREAMBLE_SAMPLES_2400
      df == DownlinkFormat(slice_message(base, try, 1))
  IN  IF ~Room(try, 7) \/ Reserved(df) \/ ~Room(try, FrameBytes(df))
      THEN Frame({}, FrameBytes(df), "Failed")
      ELSE Checked(slice_message(base, try, FrameBytes(df)), df)

(* The attempt with the highest score, the earliest of equals; replies, which need the filter of known *)
(* addresses, are left to FrameDetector. *)
Best ==
  LET attempts == [try \in 4..8 |-> Attempt(try)]
      With(outcome) == {try \in 4..8 : attempts[try].outcome = outcome}
  IN  IF With("Clean") # {} THEN attempts[Min(With("Clean"))]
      ELSE IF With("Corrected") # {} THEN attempts[Min(With("Corrected"))]
           ELSE Frame({}, 0, "Failed")

Fast == walking /\ grain = 5
InReach == j + LOOKAHEAD_SHORT <= len

Advance(bytes) == PREAMBLE_SAMPLES_2400 + (bytes * 8 * 12) \div 5

PassOver2400 ==
  /\ Fast /\ InReach
  /\ Track(Sample(j))
  /\ Preamble2400 => Best.outcome = "Failed"
  /\ j' = j + 1
  /\ UNCHANGED <<grain, quiet, air, level, amplitude, len, walking, read>>

Detect2400 ==
  /\ Fast /\ InReach
  /\ Track(Sample(j))
  /\ Preamble2400
  /\ LET best == Best
     IN  /\ best.outcome # "Failed"
         /\ read' = Append(read, best)
         /\ j' = j + Advance(best.bytes)
  /\ UNCHANGED <<grain, quiet, air, level, amplitude, len, walking>>

Stop2400 ==
  /\ Fast /\ ~InReach
  /\ walking' = FALSE
  /\ UNCHANGED <<grain, acc, least, most, quiet, air, level, amplitude, len, j, read>>

\* ---------------------------------------------------------------- specification

(* A walk over noise moves the floor and finds nothing. *)
Hear(sample) ==
  /\ air = <<>> /\ quiet < MaxQuiet
  /\ Track(sample)
  /\ quiet' = quiet + 1
  /\ UNCHANGED <<grain, air, level, amplitude, len, walking, j, read>>

(* A call of process, with a buffer in which something is on the air. *)
Receive(buffer, noise, strength) ==
  /\ air = <<>> /\ quiet <= MaxBefore
  /\ air' = buffer.air /\ level' = noise /\ amplitude' = strength
  /\ len' = Ceiling(Ends(Last(buffer.air)), grain) + buffer.spare
  /\ walking' = TRUE
  /\ UNCHANGED <<grain, acc, least, most, quiet, j, read>>

(* NoiseFloor::new, for a detector of some rate. *)
Init ==
  /\ grain \in Grains
  /\ \E seed \in Seeds : acc = seed * 2^Shift /\ least = seed /\ most = seed
  /\ quiet = 0 /\ air = <<>> /\ level = 0 /\ amplitude = 0
  /\ len = 0 /\ walking = FALSE /\ j = 0 /\ read = <<>>

Next ==
  \/ \E sample \in Levels : Hear(sample)
  \/ \E buffer \in Buffers, noise \in Levels, strength \in Amplitudes : Receive(buffer, noise, strength)
  \/ PassOver \/ Detect \/ BreakOff
  \/ PassOver2400 \/ Detect2400 \/ Stop2400

Spec == Init /\ [][Next]_vars

\* ---------------------------------------------------------------- properties

(* "The floor itself can't exceed the sample range" (demod.rs:296): for all the truncation of the average it *)
(* lies between the least and the largest of the seed and the samples so far.                               *)
FloorWithinSamples == acc \div 2^Shift \in least..most

(* The shapes of the 2.4 MS/s walk need little contrast, the threshold of the other one ten to one. *)
Loud == IF grain = 5 THEN amplitude > level ELSE amplitude >= 10 * Max(Seeds \cup Levels)
OnGrid(t) == grain = 5 \/ t.start % grain = 0
Believed == SelectSeq(read, LAMBDA frame : frame.outcome # "Failed")
Intended(t) == Frame(t.bits, t.bytes, "Clean")

(* Transmissions that stand out of the noise are read to the bit, each once and in order, and nothing else   *)
(* passes for one.  At 2.4 MS/s that holds wherever a transmission falls between the samples, half a bit     *)
(* behind the one before at the earliest; at other rates for one that starts with a sample.  At the end of a *)
(* buffer the 2.4 MS/s walk wants 16 samples more than the frame has.                                        *)
LoudIsRead ==
  Loud =>
    /\ Len(Believed) <= Len(air)
    /\ (\A n \in DOMAIN air : OnGrid(air[n])) =>
         /\ \A n \in DOMAIN Believed : Believed[n] = Intended(air[n])
         /\ ~walking => \A n \in DOMAIN air : Ends(air[n]) + 16 * grain <= len * grain => n <= Len(Believed)

(* A transmission that was not read for want of samples fits into what is carried over to the next call,     *)
(* from the sample before its preamble: the carry was sized for the frame, and the walk wants more.          *)
UnreadIsCarried ==
  ~walking /\ Loud =>
    \A n \in DOMAIN air :
      OnGrid(air[n]) /\ n > Len(Believed) => len - air[n].start \div grain + 1 <= carry_samples

(* No slicer reads behind the end of the buffer, for any phase and either length.                            *)
ReadsInside ==
  Fast /\ InReach =>
    \A try \in 4..8, bytes \in {7, 14} :
      Room(try, bytes) =>
        \A b \in 0..8 * bytes - 1 :
          Pointer(j + PREAMBLE_SAMPLES_2400, try, b \div 8)
            + Slicer(try, b)[2] + Len(Weights[Slicer(try, b)[1] + 1]) <= len

=============================================================================
