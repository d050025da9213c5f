----------------------------- MODULE DemodProofs -----------------------------
(***************************************************************************)
(* Proofs about Demod: the noise floor for any rate, gain and samples, and *)
(* the slicers of 2.4 MS/s for any buffer.                                 *)
(***************************************************************************)
EXTENDS Demod, FiniteSetTheorems, TLAPS

-----------------------------------------------------------------------------
(* The noise floor: the average is a whole number and a part of one, of which *)
(* an update takes the whole number once and adds the sample.                 *)

Divisor == 2^Shift

(* The accumulator lies in the range of the samples, scaled. *)
Between(a, low, high) ==
  /\ low * Divisor <= a
  /\ a < high * Divisor + Divisor

LEMMA DivisorPositive == Divisor \in Nat \ {0}
BY DemodAssumption DEF Divisor

LEMMA Scaled ==
  ASSUME NEW e \in Nat, NEW x \in Nat, NEW y \in Nat, x <= y
  PROVE  x * e <= y * e
<1>1. PICK d \in Nat : y = x + d
  <2>1. y - x \in Nat /\ y = x + (y - x)
    OBVIOUS
  <2>. QED
    BY <2>1
<1>2. y * e = x * e + d * e /\ d * e \in Nat /\ x * e \in Nat
  BY <1>1
<1>. QED
  BY <1>2

(* What the floor reads is between the bounds of the accumulator. *)
LEMMA WholeBetween ==
  ASSUME NEW a \in Nat, NEW low \in Nat, NEW high \in Nat, Between(a, low, high)
  PROVE  a \div Divisor \in low .. high
<1>. DEFINE d == Divisor
            q == a \div d
<1>1. d \in Nat \ {0}
  BY DivisorPositive
<1>2. low * d <= a /\ a < high * d + d
  BY DEF Between
<1>. HIDE DEF d
<1>3. q \in Nat /\ q * d <= a /\ a < q * d + d
  BY <1>1
<1>. HIDE DEF q
<1>4. ~ (q < low)
  <2>1. SUFFICES ASSUME q + 1 <= low PROVE FALSE
    BY <1>3
  <2>2. (q + 1) * d <= low * d
    BY <1>1, <1>3, <2>1, Scaled
  <2>3. (q + 1) * d = q * d + d
    BY <1>1, <1>3
  <2>. QED
    BY <1>1, <1>2, <1>3, <2>2, <2>3
<1>5. ~ (high < q)
  <2>1. SUFFICES ASSUME high + 1 <= q PROVE FALSE
    BY <1>3
  <2>2. (high + 1) * d <= q * d
    BY <1>1, <1>3, <2>1, Scaled
  <2>3. (high + 1) * d = high * d + d
    BY <1>1
  <2>. QED
    BY <1>1, <1>2, <1>3, <2>2, <2>3
<1>. QED
  BY <1>3, <1>4, <1>5 DEF q, d

(* An update keeps the accumulator between the bounds, once they include the *)
(* sample: what it loses is no less than the lower one and no more than the  *)
(* upper.                                                                    *)
LEMMA UpdateBetween ==
  ASSUME NEW a \in Nat, NEW q \in Nat, q = a \div Divisor,
         NEW s \in Nat, NEW low \in Nat, NEW high \in Nat,
         low <= q, low <= s, q <= high, s <= high
  PROVE  /\ Updated(a, s) \in Nat
         /\ Between(Updated(a, s), low, high)
<1>. DEFINE d == Divisor
<1>1. d \in Nat \ {0} /\ Updated(a, s) = a + s - q
  BY DivisorPositive DEF Updated, Divisor
<1>. HIDE DEF d
<1>2. q = a \div d
  BY DEF d
<1>3. q * d <= a /\ a < q * d + d
  BY <1>1, <1>2
<1>4. PICK e \in Nat : d = e + 1
  <2>1. d - 1 \in Nat /\ d = (d - 1) + 1
    BY <1>1
  <2>. QED
    BY <2>1
<1>5. /\ q * d = q * e + q /\ low * d = low * e + low /\ high * d = high * e + high
      /\ q * e \in Nat /\ low * e \in Nat /\ high * e \in Nat
  BY <1>4
<1>6. low * e <= q * e /\ q * e <= high * e
  BY <1>4, Scaled
<1>7. /\ a + s - q \in Nat
      /\ low * d <= a + s - q
      /\ a + s - q < high * d + d
  <2>. DEFINE qd == q * d  qe == q * e  ld == low * d  le == low * e  hd == high * d  he == high * e
  <2>1. /\ qd = qe + q /\ ld = le + low /\ hd = he + high
        /\ qe \in Nat /\ le \in Nat /\ he \in Nat
        /\ le <= qe /\ qe <= he /\ qd <= a /\ a < qd + d
    BY <1>3, <1>5, <1>6
  <2>. HIDE DEF qd, qe, ld, le, hd, he
  <2>2. a + s - q \in Nat /\ ld <= a + s - q /\ a + s - q < hd + d
    BY <1>1, <2>1
  <2>. QED
    BY <2>2 DEF ld, hd
<1>. QED
  BY <1>1, <1>7 DEF Between, d

FloorInv ==
  /\ acc \in Nat /\ least \in Nat /\ most \in Nat
  /\ Between(acc, least, most)

LEMMA TrackInv ==
  ASSUME FloorInv, NEW s \in Nat, Track(s)
  PROVE  FloorInv'
<1>. DEFINE q == acc \div Divisor
            low == IF s < least THEN s ELSE least
            high == IF s > most THEN s ELSE most
<1>1. q \in least .. most /\ acc \in Nat /\ least \in Nat /\ most \in Nat
  BY WholeBetween DEF FloorInv
<1>2. low \in Nat /\ high \in Nat /\ low <= q /\ low <= s /\ q <= high /\ s <= high
  BY <1>1
<1>3. acc' = Updated(acc, s) /\ least' = low /\ most' = high
  BY DEF Track
<1>. HIDE DEF low, high
<1>4. Updated(acc, s) \in Nat /\ Between(Updated(acc, s), low, high)
  BY <1>1, <1>2, UpdateBetween
<1>. HIDE DEF q
<1>. QED
  BY <1>2, <1>3, <1>4, Divisor' = Divisor, Zenon DEF FloorInv, Between

-----------------------------------------------------------------------------
(* A sample is a natural number, wherever the walk is. *)

WalkInv ==
  /\ grain \in Nat \ {0}
  /\ level \in Nat /\ amplitude \in Nat
  /\ j \in Nat /\ len \in Int

LEMMA SampleNat ==
  ASSUME WalkInv
  PROVE  Sample(j) \in Nat
<1>. DEFINE span == j * grain .. j * grain + grain - 1
            lit == {x \in span : \E n \in DOMAIN air : Pulse(air[n], x)}
            c == Cardinality(lit)
<1>1. /\ grain \in Nat \ {0} /\ level \in Nat /\ amplitude \in Nat /\ j \in Nat
  BY DEF WalkInv
<1>2. c \in Nat
  <2>1. j * grain \in Int /\ j * grain + grain - 1 \in Int
    BY <1>1
  <2>2. IsFiniteSet(span)
    BY <2>1, FS_Interval
  <2>3. lit \subseteq span
    OBVIOUS
  <2>4. IsFiniteSet(lit)
    BY <2>2, <2>3, FS_Subset
  <2>. QED
    BY <2>4, FS_CardinalityType
<1>3. Sample(j) = level + (amplitude * c) \div grain
  BY DEF Sample
<1>. HIDE DEF c
<1>4. amplitude * c \in Nat
  BY <1>1, <1>2
<1>5. \A x \in Nat : x \div grain \in Nat
  BY <1>1
<1>. QED
  BY <1>1, <1>3, <1>4, <1>5

LEMMA LengthsNat ==
  ASSUME WalkInv
  PROVE  /\ preamble_samples \in Nat
         /\ \A n \in Nat : samples_for_bits(n) \in Nat
<1>1. grain \in Nat \ {0}
  BY DEF WalkInv
<1>2. preamble_samples \in Nat
  BY <1>1 DEF preamble_samples, Rounded, PreambleTicks
<1>3. ASSUME NEW n \in Nat
      PROVE  samples_for_bits(n) \in Nat
  BY <1>1 DEF samples_for_bits, Ceiling, BitTicks
<1>. QED
  BY <1>2, <1>3

LEMMA FrameBytesNat == \A df : FrameBytes(df) \in {7, 14}
BY DEF FrameBytes

(* The attempt that is chosen is one of five, and has the length of a frame. *)
LEMMA BestBytes ==
  ASSUME Best.outcome # "Failed"
  PROVE  Best.bytes \in Nat
<1>. DEFINE attempts == [try \in 4 .. 8 |-> Attempt(try)]
            With(outcome) == {try \in 4 .. 8 : attempts[try].outcome = outcome}
<1>1. ASSUME NEW df, NEW bits
      PROVE  Checked(bits, df).bytes \in {7, 14}
  BY FrameBytesNat DEF Checked, Frame
<1>2. ASSUME NEW try \in 4 .. 8
      PROVE  Attempt(try).bytes \in {7, 14}
  BY <1>1, FrameBytesNat DEF Attempt, Frame
<1>3. ASSUME NEW S, S \subseteq 4 .. 8, S # {}
      PROVE  Min(S) \in 4 .. 8
  <2>1. \E x \in S : \A y \in S : x =< y
    <3>1. CASE 4 \in S
      BY <1>3, <3>1
    <3>2. CASE 4 \notin S /\ 5 \in S
      BY <1>3, <3>2
    <3>3. CASE 4 \notin S /\ 5 \notin S /\ 6 \in S
      BY <1>3, <3>3
    <3>4. CASE 4 \notin S /\ 5 \notin S /\ 6 \notin S /\ 7 \in S
      BY <1>3, <3>4
    <3>5. CASE S \subseteq {8}
      <4>1. S = {8}
        BY <1>3, <3>5
      <4>. QED
        BY <4>1
    <3>. QED
      BY <1>3, <3>1, <3>2, <3>3, <3>4, <3>5
  <2>2. Min(S) \in S
    BY <2>1, Zenon DEF Min
  <2>. QED
    BY <1>3, <2>2
<1>4. ASSUME NEW outcome, With(outcome) # {}
      PROVE  attempts[Min(With(outcome))].bytes \in {7, 14}
  <2>1. With(outcome) \subseteq 4 .. 8
    OBVIOUS
  <2>. HIDE DEF With
  <2>2. Min(With(outcome)) \in 4 .. 8
    BY <1>3, <1>4, <2>1
  <2>. QED
    BY <1>2, <2>2
<1>5. Best = IF With("Clean") # {} THEN attempts[Min(With("Clean"))]
             ELSE IF With("Corrected") # {} THEN attempts[Min(With("Corrected"))]
                  ELSE Frame({}, 0, "Failed")
  BY DEF Best
<1>. HIDE DEF With, attempts
<1>6. Frame({}, 0, "Failed").outcome = "Failed"
  BY DEF Frame
<1>7. CASE With("Clean") # {}
  BY <1>4, <1>5, <1>7
<1>8. CASE With("Clean") = {} /\ With("Corrected") # {}
  BY <1>4, <1>5, <1>8
<1>. QED
  BY <1>5, <1>6, <1>7, <1>8

DemodInv == FloorInv /\ WalkInv

LEMMA MagnitudesNat == Seeds \subseteq Nat /\ Levels \subseteq Nat /\ Amplitudes \subseteq Nat
<1>1. 0 .. Top \subseteq Nat
  BY DEF Top
<1>2. Seeds \cup Levels \subseteq 0 .. Top /\ Amplitudes \subseteq Nat
  BY DemodAssumption, Zenon
<1>. QED
  BY <1>1, <1>2, Zenon

LEMMA InitInv == Init => DemodInv
<1>. SUFFICES ASSUME Init PROVE DemodInv
  OBVIOUS
<1>1. PICK seed \in Seeds : acc = seed * Divisor /\ least = seed /\ most = seed
  BY DEF Init, Divisor
<1>2. seed \in Nat
  BY MagnitudesNat
<1>3. FloorInv
  <2>. DEFINE d == Divisor
  <2>1. d \in Nat \ {0} /\ acc = seed * d /\ least = seed /\ most = seed
    BY <1>1, DivisorPositive
  <2>. HIDE DEF d
  <2>2. seed * d \in Nat
    BY <1>2, <2>1
  <2>3. seed * d <= seed * d /\ seed * d < seed * d + d
    BY <2>1, <2>2
  <2>. QED
    BY <1>2, <2>1, <2>2, <2>3, Zenon DEF FloorInv, Between, d
<1>4. WalkInv
  BY DemodAssumption DEF Init, WalkInv
<1>. QED
  BY <1>3, <1>4 DEF DemodInv

(* The noise around a buffer. *)
LEMMA HearInv ==
  ASSUME DemodInv, NEW sample \in Levels, Hear(sample)
  PROVE  DemodInv'
<1>1. sample \in Nat
  BY MagnitudesNat
<1>2. FloorInv'
  BY <1>1, TrackInv DEF Hear, DemodInv
<1>3. WalkInv'
  BY DEF Hear, DemodInv, WalkInv
<1>. QED
  BY <1>2, <1>3 DEF DemodInv

LEMMA ReceiveInv ==
  ASSUME DemodInv, NEW buffer \in Buffers, NEW noise \in Levels, NEW strength \in Amplitudes,
         Receive(buffer, noise, strength)
  PROVE  DemodInv'
<1>1. noise \in Nat /\ strength \in Nat
  BY MagnitudesNat
<1>2. FloorInv'
  BY DEF Receive, DemodInv, FloorInv, Between
<1>3. len' \in Int
  <2>1. Ends(Last(buffer.air)) \in Nat /\ buffer.spare \in Int
    BY DemodAssumption, Zenon
  <2>2. len' = Ceiling(Ends(Last(buffer.air)), grain) + buffer.spare
    BY DEF Receive
  <2>3. \A n \in Nat : Ceiling(n, grain) \in Int
    BY DEF Ceiling, DemodInv, WalkInv
  <2>. QED
    BY <2>1, <2>2, <2>3
<1>4. WalkInv'
  BY <1>1, <1>3 DEF Receive, DemodInv, WalkInv
<1>. QED
  BY <1>2, <1>4 DEF DemodInv

(* The walk takes the floor along, one sample at a time, and moves forward. *)
LEMMA GenericInv ==
  ASSUME DemodInv, PassOver \/ Detect \/ BreakOff
  PROVE  DemodInv'
<1>1. Sample(j) \in Nat
  BY SampleNat DEF DemodInv
<1>2. /\ preamble_samples \in Nat
      /\ \A n \in Nat : samples_for_bits(n) \in Nat
  BY LengthsNat DEF DemodInv
<1>3. /\ j \in Nat /\ grain \in Nat \ {0} /\ level \in Nat /\ amplitude \in Nat
      /\ len \in Int /\ len' = len /\ grain' = grain /\ level' = level /\ amplitude' = amplitude
  BY DEF DemodInv, WalkInv, PassOver, Detect, BreakOff
<1>4. payload_start \in Nat /\ payload_end \in Nat
  <2>1. payload_start \in Nat
    BY <1>2, <1>3 DEF payload_start
  <2>2. 8 * FrameBytes(Df) \in Nat
    BY FrameBytesNat
  <2>3. samples_for_bits(8 * FrameBytes(Df)) \in Nat
    BY <1>2, <2>2
  <2>. QED
    BY <2>1, <2>3 DEF payload_end
<1>5. j' \in Nat
  BY <1>3, <1>4 DEF PassOver, Detect, BreakOff
<1>6. FloorInv'
  <2>1. CASE Track(Sample(j))
    BY <1>1, <2>1, TrackInv DEF DemodInv
  <2>2. CASE UNCHANGED <<acc, least, most>>
    BY <2>2 DEF DemodInv, FloorInv, Between
  <2>. QED
    BY <2>1, <2>2 DEF PassOver, Detect, BreakOff
<1>. QED
  BY <1>3, <1>5, <1>6, Zenon DEF DemodInv, WalkInv

LEMMA FastInv ==
  ASSUME DemodInv, PassOver2400 \/ Detect2400 \/ Stop2400
  PROVE  DemodInv'
<1>1. Sample(j) \in Nat
  BY SampleNat DEF DemodInv
<1>2. /\ j \in Nat /\ grain \in Nat \ {0} /\ level \in Nat /\ amplitude \in Nat
      /\ len \in Int /\ len' = len /\ grain' = grain /\ level' = level /\ amplitude' = amplitude
  BY DEF DemodInv, WalkInv, PassOver2400, Detect2400, Stop2400
<1>3. j' \in Nat
  <2>1. CASE Detect2400
    <3>1. Best.outcome # "Failed" /\ j' = j + Advance(Best.bytes)
      BY <2>1 DEF Detect2400
    <3>2. Best.bytes \in Nat
      BY <3>1, BestBytes
    <3>3. \A b \in Nat : Advance(b) \in Nat
      BY DEF Advance, PREAMBLE_SAMPLES_2400
    <3>. QED
      BY <1>2, <3>1, <3>2, <3>3
  <2>2. CASE PassOver2400 \/ Stop2400
    BY <1>2, <2>2 DEF PassOver2400, Stop2400
  <2>. QED
    BY <2>1, <2>2
<1>4. FloorInv'
  <2>1. CASE Track(Sample(j))
    BY <1>1, <2>1, TrackInv DEF DemodInv
  <2>2. CASE Stop2400
    BY <2>2 DEF Stop2400, DemodInv, FloorInv, Between
  <2>. QED
    BY <2>1, <2>2 DEF PassOver2400, Detect2400
<1>. QED
  BY <1>2, <1>3, <1>4, Zenon DEF DemodInv, WalkInv

LEMMA StepInv == DemodInv /\ [Next]_vars => DemodInv'
<1>. SUFFICES ASSUME DemodInv, [Next]_vars PROVE DemodInv'
  OBVIOUS
<1>1. CASE UNCHANGED vars
  BY <1>1 DEF vars, DemodInv, FloorInv, Between, WalkInv
<1>. QED
  BY <1>1, HearInv, ReceiveInv, GenericInv, FastInv DEF Next

(* The noise floor never leaves the range of what it has heard, for any rate, *)
(* any gain and any samples: the truncation neither drifts nor sticks.        *)
THEOREM FloorWithinSamplesHolds == Spec => []FloorWithinSamples
<1>1. DemodInv => FloorWithinSamples
  BY WholeBetween DEF DemodInv, FloorInv, FloorWithinSamples, Divisor
<1>. QED
  BY <1>1, InitInv, StepInv, PTL DEF Spec

-----------------------------------------------------------------------------
(* The slicers of 2.4 MS/s: none begins later than 17 samples into a byte, *)
(* and none takes more than four.                                          *)

LEMMA SlicerBounds ==
  ASSUME NEW try \in Nat, NEW b \in Nat
  PROVE  /\ Slicer(try, b)[2] \in 0 .. 17
         /\ Len(Weights[Slicer(try, b)[1] + 1]) \in 3 .. 4
<1>. DEFINE Fits(p, q) == Slicers[p][q][1] \in 0 .. 4 /\ Slicers[p][q][2] \in 0 .. 17
<1>1. \A q \in 1 .. 8 : Fits(1, q)
  BY DEF Slicers
<1>2. \A q \in 1 .. 8 : Fits(2, q)
  BY DEF Slicers
<1>3. \A q \in 1 .. 8 : Fits(3, q)
  BY DEF Slicers
<1>4. \A q \in 1 .. 8 : Fits(4, q)
  BY DEF Slicers
<1>5. \A q \in 1 .. 8 : Fits(5, q)
  BY DEF Slicers
<1>6. \A c \in 0 .. 4 : Len(Weights[c + 1]) \in 3 .. 4
  BY DEF Weights
<1>. DEFINE p == ((try + b \div 8) % 5) + 1
            q == (b % 8) + 1
<1>7. p \in {1, 2, 3, 4, 5} /\ q \in 1 .. 8
  OBVIOUS
<1>8. Slicer(try, b) = Slicers[p][q]
  BY DEF Slicer
<1>. HIDE DEF p, q
<1>9. Fits(p, q)
  <2>. HIDE DEF Fits
  <2>. QED
    BY <1>1, <1>2, <1>3, <1>4, <1>5, <1>7
<1>. QED
  BY <1>6, <1>8, <1>9

(* Where the slicers may go is bounded by the room asked for: 137 samples for *)
(* a short frame, 284 for a long one.                                         *)
LEMMA SlicesInside ==
  ASSUME j \in Nat, len \in Int,
         NEW try \in 4 .. 8, NEW bytes \in {7, 14}, Room(try, bytes),
         NEW b \in 0 .. 8 * bytes - 1
  PROVE  Pointer(j + PREAMBLE_SAMPLES_2400, try, b \div 8)
           + Slicer(try, b)[2] + Len(Weights[Slicer(try, b)[1] + 1]) <= len
<1>. DEFINE offset == Slicer(try, b)[2]
            taps == Len(Weights[Slicer(try, b)[1] + 1])
            byte == b \div 8
            late == ((try % 5) + byte) \div 5
            first == try \div 5
<1>1. b \in Nat /\ try \in Nat
  OBVIOUS
<1>2. offset \in 0 .. 17 /\ taps \in 3 .. 4
  BY <1>1, SlicerBounds
<1>3. /\ byte \in 0 .. bytes - 1
      /\ first \in Nat
      /\ bytes = 7 => late \in 0 .. 2
      /\ bytes = 14 => late \in 0 .. 3
  OBVIOUS
<1>4. Pointer(j + PREAMBLE_SAMPLES_2400, try, b \div 8) = j + 19 + first + 19 * byte + late
  BY DEF Pointer, PREAMBLE_SAMPLES_2400
<1>5. /\ bytes = 7 => j + 19 + first + 133 + 4 <= len
      /\ bytes = 14 => j + 19 + first + 280 + 4 <= len
  BY DEF Room, PREAMBLE_SAMPLES_2400
<1>. HIDE DEF offset, taps, byte, late, first
<1>6. j + 19 + first + 19 * byte + late + offset + taps <= len
  BY <1>2, <1>3, <1>5
<1>. QED
  BY <1>4, <1>6 DEF offset, taps

(* No slicer reads behind the end of a buffer, whatever its length, wherever *)
(* the walk is, for every phase and either length of a frame.                *)
THEOREM ReadsInsideHolds == Spec => []ReadsInside
<1>1. DemodInv => ReadsInside
  BY SlicesInside DEF DemodInv, WalkInv, ReadsInside
<1>. QED
  BY <1>1, InitInv, StepInv, PTL DEF Spec

=============================================================================
