----------------------------- MODULE DecoderProofs -----------------------------
(***************************************************************************)
(* Proofs about Tracker and about Decoder, which extends it, for every     *)
(* value of their constants.                                               *)
(*                                                                         *)
(* First the table alone, with a clock that never runs back.  The virtual  *)
(* clock of the decoder may (its product wraps), so the second part rests  *)
(* on that part of the table's invariant which mentions no instant         *)
(* (TableInv).                                                             *)
(***************************************************************************)
EXTENDS Decoder, FiniteSetTheorems, SequenceTheorems, TLAPS

-----------------------------------------------------------------------------
(* What applying a message does to one aircraft *)

(* The events a frame causes about an aircraft that is in the table. *)
Kinds == {"identification", "position", "velocity", "address_recovered"}

PairOK(ac) ==
  ac.even # None /\ ac.odd # None =>
     /\ Gap(ac.even.at, ac.odd.at) <= CprPairWindow
     /\ Verdict(ac) = "ok"

(* A fix was computed from halves of its own instant. *)
FixOK(p) ==
  CASE p.source = "global" ->
         /\ p.at \in {p.even.at, p.odd.at}
         /\ p.at - p.even.at <= CprPairWindow
         /\ p.at - p.odd.at <= CprPairWindow
    [] p.source = "local" -> \A h \in {p.even, p.odd} \ {None} : h.at = p.at
    [] OTHER -> TRUE

(* The halves are as old as the last frame or older. *)
HalvesSeen(ac) ==
  /\ ac.even # None => ac.even.at <= ac.lastSeen
  /\ ac.odd # None => ac.odd.at <= ac.lastSeen

Current(ac) == HalvesSeen(ac) /\ (ac.position # None => FixOK(ac.position))

LEMMA KindSeqs ==
  /\ <<>> \in Seq(Kinds)
  /\ \A k \in Kinds : <<k>> \in Seq(Kinds)
OBVIOUS

(* A result is good for an instant at: typed, last seen at that instant. *)
GoodResult(r, at) ==
  /\ r.ac \in Aircraft
  /\ r.ac.lastSeen = at
  /\ r.kinds \in Seq(Kinds)
  /\ PairOK(r.ac)

(* Recording a fix leaves the halves alone. *)
LEMMA FixGood ==
  ASSUME NEW ac \in Aircraft, NEW at \in Time, ac.lastSeen = at, PairOK(ac),
         NEW source \in {"global", "local", "surface"},
         NEW e \in Halves, NEW o \in Halves
  PROVE  GoodResult(Fix(ac, at, source, e, o), at)
<1> DEFINE p == [at |-> at, source |-> source, even |-> e, odd |-> o]
           ac2 == [ac EXCEPT !.position = p]
<1>1. p \in Position
  BY DEF Position
<1>2. ac2 \in Aircraft /\ ac2.even = ac.even /\ ac2.odd = ac.odd /\ ac2.lastSeen = at
  BY <1>1 DEF Aircraft
<1>3. PairOK(ac2)
  BY <1>2 DEF PairOK, Verdict
<1>4. <<"position">> \in Seq(Kinds)
  BY DEF Kinds
<1>. QED
  BY <1>2, <1>3, <1>4 DEF GoodResult, Fix, Result

(* The fallback to a local fix changes nothing but the position. *)
LEMMA LocalFixGood ==
  ASSUME NEW ac \in Aircraft, NEW at \in Time, ac.lastSeen = at, PairOK(ac)
  PROVE  GoodResult(LocalFix(ac, at), at)
<1>1. GoodResult(Result(ac, <<>>), at)
  BY DEF GoodResult, Result
<1>2. ac.even \in Halves /\ ac.odd \in Halves /\ None \in Halves
  BY DEF Aircraft, Halves
<1>3. /\ GoodResult(Fix(ac, at, "local", ac.even, None), at)
      /\ GoodResult(Fix(ac, at, "local", None, ac.odd), at)
  BY <1>2, FixGood
<1>. QED
  BY <1>1, <1>3 DEF LocalFix

(* Whatever is done with the two halves, a pair that stays decodes. *)
LEMMA ResolvePositionGood ==
  ASSUME NEW ac \in Aircraft, NEW at \in Time, ac.lastSeen = at
  PROVE  GoodResult(ResolvePosition(ac, at), at)
<1>1. CASE ac.even = None \/ ac.odd = None
  <2>1. PairOK(ac)
    BY <1>1 DEF PairOK
  <2>. QED
    BY <1>1, <2>1, LocalFixGood DEF ResolvePosition
<1>2. CASE ac.even # None /\ ac.odd # None
  <2> DEFINE noEven == [ac EXCEPT !.even = None]
             noOdd  == [ac EXCEPT !.odd = None]
             none   == [ac EXCEPT !.even = None, !.odd = None]
  <2>1. /\ noEven \in Aircraft /\ noEven.lastSeen = at /\ noEven.even = None
        /\ noOdd \in Aircraft /\ noOdd.lastSeen = at /\ noOdd.odd = None
        /\ none \in Aircraft /\ none.lastSeen = at /\ none.even = None
    BY DEF Aircraft, Halves
  <2>2. PairOK(noEven) /\ PairOK(noOdd) /\ PairOK(none)
    BY <2>1 DEF PairOK
  <2>3. /\ GoodResult(LocalFix(DropOlder(ac), at), at)
        /\ GoodResult(LocalFix(none, at), at)
    BY <2>1, <2>2, LocalFixGood DEF DropOlder
  <2>4. ASSUME ~ (Gap(ac.even.at, ac.odd.at) > CprPairWindow \/ Verdict(ac) = "zone"),
               Verdict(ac) # "range"
        PROVE  GoodResult(Fix(ac, at, "global", ac.even, ac.odd), at)
    <3>1. ac.even \in Half /\ ac.odd \in Half
      BY <1>2 DEF Aircraft, Halves
    <3>2. Verdict(ac) \in {"ok", "zone", "range"}
      BY <3>1, TrackerAssumption DEF Verdict, Half
    <3>3. Gap(ac.even.at, ac.odd.at) \in Int
      BY <3>1 DEF Half, Gap, Time
    <3>4. PairOK(ac)
      BY <2>4, <3>2, <3>3, TrackerAssumption DEF PairOK
    <3>. QED
      BY <3>1, <3>4, FixGood DEF Halves
  <2>. QED
    BY <1>2, <2>3, <2>4 DEF ResolvePosition
<1>. QED
  BY <1>1, <1>2

(* Storing a half and resolving, whatever was stored before. *)
LEMMA AirborneGood ==
  ASSUME NEW ac \in Aircraft, NEW at \in Time, ac.lastSeen = at,
         NEW p \in [kind : {"airborne"}, odd : BOOLEAN, cpr : Cpr]
  PROVE  GoodResult(ApplyAirborne(ac, p, at), at)
<1> DEFINE half == [at |-> at, cpr |-> p.cpr]
           withOdd  == [ac EXCEPT !.odd = half]
           withEven == [ac EXCEPT !.even = half]
<1>1. half \in Halves
  BY DEF Halves, Half
<1>2. /\ withOdd \in Aircraft /\ withOdd.lastSeen = at
      /\ withEven \in Aircraft /\ withEven.lastSeen = at
  BY <1>1 DEF Aircraft
<1>3. GoodResult(ResolvePosition(withOdd, at), at) /\ GoodResult(ResolvePosition(withEven, at), at)
  BY <1>2, ResolvePositionGood
<1>. QED
  BY <1>3 DEF ApplyAirborne

LEMMA SurfaceGood ==
  ASSUME NEW ac \in Aircraft, NEW at \in Time, ac.lastSeen = at, PairOK(ac),
         NEW p \in [kind : {"surface"}, velocity : Velocity \cup {None}]
  PROVE  GoodResult(ApplySurface(ac, p, at), at)
<1> DEFINE ac2 == IF p.velocity # None THEN [ac EXCEPT !.velocity = p.velocity] ELSE ac
           vel == IF p.velocity # None THEN <<"velocity">> ELSE <<>>
           r == Fix(ac2, at, "surface", None, None)
<1>1. ac2 \in Aircraft /\ ac2.even = ac.even /\ ac2.odd = ac.odd /\ ac2.lastSeen = at
  BY DEF Aircraft
<1>2. PairOK(ac2)
  BY <1>1 DEF PairOK, Verdict
<1>3. vel \in Seq(Kinds)
  <2>1. "velocity" \in Kinds
    BY DEF Kinds
  <2>. QED
    BY <2>1, KindSeqs
<1>4. GoodResult(r, at)
  BY <1>1, <1>2, FixGood DEF Halves
<1>5. GoodResult(Result(r.ac, vel \o r.kinds), at) /\ GoodResult(Result(ac2, vel), at)
  <2>1. vel \o r.kinds \in Seq(Kinds)
    BY <1>3, <1>4 DEF GoodResult
  <2>. QED
    BY <1>1, <1>2, <1>3, <1>4, <2>1 DEF GoodResult, Result
<1>. QED
  BY <1>5 DEF ApplySurface

LEMMA ApplyGood ==
  ASSUME NEW ac \in Aircraft, NEW at \in Time, ac.lastSeen = at, PairOK(ac),
         NEW p \in Payload
  PROVE  GoodResult(Apply(ac, p, at), at)
<1>1. CASE p.kind = "ident"
  <2> DEFINE ac2 == [ac EXCEPT !.callsign = p.callsign, !.category = p.category]
             kinds == IF ac.callsign = p.callsign THEN <<>> ELSE <<"identification">>
  <2>1. p.callsign \in Callsign /\ p.category \in Category
    BY <1>1 DEF Payload
  <2>2. ac2 \in Aircraft /\ ac2.even = ac.even /\ ac2.odd = ac.odd /\ ac2.lastSeen = at
    BY <2>1 DEF Aircraft
  <2>3. PairOK(ac2)
    BY <2>2 DEF PairOK, Verdict
  <2>4. kinds \in Seq(Kinds)
    <3>1. "identification" \in Kinds
      BY DEF Kinds
    <3>. QED
      BY <3>1, KindSeqs
  <2>5. GoodResult(Result(ac2, kinds), at)
    BY <2>2, <2>3, <2>4 DEF GoodResult, Result
  <2>. QED
    BY <1>1, <2>5 DEF Apply, ApplyIdent
<1>2. CASE p.kind = "airborne"
  <2>1. p \in [kind : {"airborne"}, odd : BOOLEAN, cpr : Cpr]
    BY <1>2 DEF Payload
  <2>. QED
    BY <1>2, <2>1, AirborneGood DEF Apply
<1>3. CASE p.kind = "surface"
  <2>1. p \in [kind : {"surface"}, velocity : Velocity \cup {None}]
    BY <1>3 DEF Payload
  <2>. QED
    BY <1>3, <2>1, SurfaceGood DEF Apply
<1>4. CASE p.kind = "velocity"
  <2> DEFINE ac2 == [ac EXCEPT !.velocity = p.velocity]
  <2>1. p.velocity \in Velocity
    BY <1>4 DEF Payload
  <2>2. ac2 \in Aircraft /\ ac2.even = ac.even /\ ac2.odd = ac.odd /\ ac2.lastSeen = at
    BY <2>1 DEF Aircraft
  <2>3. PairOK(ac2)
    BY <2>2 DEF PairOK, Verdict
  <2>4. <<"velocity">> \in Seq(Kinds)
    BY DEF Kinds
  <2>5. GoodResult(Result(ac2, <<"velocity">>), at)
    BY <2>2, <2>3, <2>4 DEF GoodResult, Result
  <2>. QED
    BY <1>4, <2>5 DEF Apply, ApplyVelocity
<1>5. CASE p.kind \notin {"ident", "airborne", "surface", "velocity"}
  <2>1. GoodResult(Result(ac, <<>>), at)
    BY DEF GoodResult, Result
  <2>. QED
    BY <1>5, <2>1 DEF Apply
<1>. QED
  BY <1>1, <1>2, <1>3, <1>4, <1>5

(* Hearing a frame: the aircraft is seen now and keeps a sound pair. *)
LEMMA HearGood ==
  ASSUME NEW ac \in Aircraft, NEW at \in Time, PairOK(ac),
         NEW f \in Frames, f.crc = "failed" \/ f.icao # None
  PROVE  GoodResult(Hear(ac, f, at), at)
<1> DEFINE ac2 == Touch(ac, f, at)
<1>1. f \in FrameType
  BY TrackerAssumption
<1>2. Tally(ac.counters, f.crc) \in Counters
  BY DEF Tally, Aircraft, Counters
<1>3. ac2 \in Aircraft /\ ac2.even = ac.even /\ ac2.odd = ac.odd /\ ac2.lastSeen = at
  BY <1>2 DEF Touch, Aircraft
<1>4. PairOK(ac2)
  BY <1>3 DEF PairOK, Verdict
<1>5. CASE f.crc = "failed"
  <2>1. <<"address_recovered">> \in Seq(Kinds)
    BY DEF Kinds
  <2>. QED
    BY <1>3, <1>4, <1>5, <2>1 DEF Hear, GoodResult, Result
<1>6. CASE f.crc # "failed"
  <2>1. f.payload \in Payload
    BY <1>1, <1>6 DEF FrameType
  <2>. QED
    BY <1>3, <1>4, <1>6, <2>1, ApplyGood DEF Hear
<1>. QED
  BY <1>5, <1>6

(* The same operators, for a clock that does not run backwards. *)

(* The half just received is of this instant, and none is from later. *)
Fresh(ac, at) ==
  /\ ac.even # None => ac.even.at <= at
  /\ ac.odd # None => ac.odd.at <= at
  /\ (ac.even # None /\ ac.even.at = at) \/ (ac.odd # None /\ ac.odd.at = at)

LEMMA FixCurrent ==
  ASSUME NEW ac \in Aircraft, NEW at \in Time, HalvesSeen(ac),
         NEW source \in {"global", "local", "surface"}, NEW e \in Halves, NEW o \in Halves,
         FixOK([at |-> at, source |-> source, even |-> e, odd |-> o])
  PROVE  Current(Fix(ac, at, source, e, o).ac)
<1> DEFINE p == [at |-> at, source |-> source, even |-> e, odd |-> o]
           ac2 == [ac EXCEPT !.position = p]
<1>1. /\ ac2.even = ac.even /\ ac2.odd = ac.odd /\ ac2.lastSeen = ac.lastSeen
      /\ ac2.position = p
  BY DEF Aircraft
<1>2. Fix(ac, at, source, e, o).ac = ac2
  BY DEF Fix, Result
<1> HIDE DEF ac2, p
<1>3. FixOK(p)
  BY DEF p
<1>. QED
  BY <1>1, <1>2, <1>3 DEF Current, HalvesSeen

(* A local fix takes a half of this instant, if there is one. *)
LEMMA LocalFixCurrent ==
  ASSUME NEW ac \in Aircraft, NEW at \in Time, Current(ac),
         Fresh(ac, at) \/ (ac.even = None /\ ac.odd = None)
  PROVE  Current(LocalFix(ac, at).ac)
<1>1. ac.even \in Halves /\ ac.odd \in Halves /\ None \in Halves /\ HalvesSeen(ac)
  BY DEF Aircraft, Halves, Current
<1>2. /\ ac.even # None => ac.even.at \in Int
      /\ ac.odd # None => ac.odd.at \in Int
      /\ at \in Int
  BY <1>1, TrackerAssumption DEF Halves, Half, Time
<1>3. CASE ~ HasReference \/ (ac.even = None /\ ac.odd = None)
  BY <1>3 DEF LocalFix, Result
<1>4. CASE ~ (~ HasReference \/ (ac.even = None /\ ac.odd = None))
  <2>1. Fresh(ac, at)
    BY <1>4
  <2>2. CASE ac.even # None /\ (ac.odd # None => ac.even.at >= ac.odd.at)
    <3>1. ac.even.at = at
      BY <1>2, <2>1, <2>2 DEF Fresh
    <3>2. FixOK([at |-> at, source |-> "local", even |-> ac.even, odd |-> None])
      BY <3>1 DEF FixOK
    <3>3. Current(Fix(ac, at, "local", ac.even, None).ac)
      BY <1>1, <3>2, FixCurrent
    <3>. QED
      BY <1>4, <2>2, <3>3 DEF LocalFix
  <2>3. CASE ~ (ac.even # None /\ (ac.odd # None => ac.even.at >= ac.odd.at))
    <3>1. ac.odd.at = at
      BY <1>2, <2>1, <2>3 DEF Fresh
    <3>2. FixOK([at |-> at, source |-> "local", even |-> None, odd |-> ac.odd])
      BY <3>1 DEF FixOK
    <3>3. Current(Fix(ac, at, "local", None, ac.odd).ac)
      BY <1>1, <3>2, FixCurrent
    <3>. QED
      BY <1>4, <2>3, <3>3 DEF LocalFix
  <2>. QED
    BY <2>2, <2>3
<1>. QED
  BY <1>3, <1>4

(* Dropping the older of two halves keeps the one of this instant. *)
LEMMA ResolvePositionCurrent ==
  ASSUME NEW ac \in Aircraft, NEW at \in Time, Current(ac), Fresh(ac, at)
  PROVE  Current(ResolvePosition(ac, at).ac)
<1>1. CASE ac.even = None \/ ac.odd = None
  BY <1>1, LocalFixCurrent DEF ResolvePosition
<1>2. CASE ac.even # None /\ ac.odd # None
  <2> DEFINE noEven == [ac EXCEPT !.even = None]
             noOdd  == [ac EXCEPT !.odd = None]
             none   == [ac EXCEPT !.even = None, !.odd = None]
  <2>1. /\ ac.even \in Half /\ ac.odd \in Half /\ at \in Int
        /\ ac.even.at \in Int /\ ac.odd.at \in Int
    BY <1>2, TrackerAssumption DEF Aircraft, Halves, Half, Time
  <2>2. /\ noEven \in Aircraft /\ noEven.even = None /\ noEven.odd = ac.odd
        /\ noEven.position = ac.position /\ noEven.lastSeen = ac.lastSeen
        /\ noOdd \in Aircraft /\ noOdd.odd = None /\ noOdd.even = ac.even
        /\ noOdd.position = ac.position /\ noOdd.lastSeen = ac.lastSeen
        /\ none \in Aircraft /\ none.even = None /\ none.odd = None
        /\ none.position = ac.position /\ none.lastSeen = ac.lastSeen
    BY DEF Aircraft, Halves
  <2> HIDE DEF noEven, noOdd, none
  <2>3. Current(noEven) /\ Current(noOdd) /\ Current(none)
    BY <1>2, <2>2 DEF Current, HalvesSeen
  <2>4. Current(LocalFix(DropOlder(ac), at).ac)
    <3>1. CASE ac.odd.at >= ac.even.at
      <4>1. Fresh(noEven, at)
        BY <1>2, <2>1, <2>2, <3>1 DEF Fresh
      <4>2. DropOlder(ac) = noEven
        BY <3>1 DEF DropOlder, noEven
      <4>. QED
        BY <2>2, <2>3, <4>1, <4>2, LocalFixCurrent
    <3>2. CASE ~ (ac.odd.at >= ac.even.at)
      <4>1. Fresh(noOdd, at)
        BY <1>2, <2>1, <2>2, <3>2 DEF Fresh
      <4>2. DropOlder(ac) = noOdd
        BY <3>2 DEF DropOlder, noOdd
      <4>. QED
        BY <2>2, <2>3, <4>1, <4>2, LocalFixCurrent
    <3>. QED
      BY <3>1, <3>2
  <2>5. Current(LocalFix(none, at).ac)
    BY <2>2, <2>3, LocalFixCurrent
  <2>6. ASSUME ~ (Gap(ac.even.at, ac.odd.at) > CprPairWindow)
        PROVE  Current(Fix(ac, at, "global", ac.even, ac.odd).ac)
    <3>1. at \in {ac.even.at, ac.odd.at}
      BY <1>2 DEF Fresh
    <3>2. at - ac.even.at <= CprPairWindow /\ at - ac.odd.at <= CprPairWindow
      BY <2>1, <2>6, <3>1, TrackerAssumption DEF Gap
    <3>3. FixOK([at |-> at, source |-> "global", even |-> ac.even, odd |-> ac.odd])
      BY <3>1, <3>2 DEF FixOK
    <3>4. ac.even \in Halves /\ ac.odd \in Halves /\ HalvesSeen(ac)
      BY <2>1 DEF Halves, Current
    <3>. QED
      BY <3>3, <3>4, FixCurrent
  <2>7. none = [ac EXCEPT !.even = None, !.odd = None]
    BY DEF none
  <2>. QED
    BY <1>2, <2>4, <2>5, <2>6, <2>7 DEF ResolvePosition
<1>. QED
  BY <1>1, <1>2

LEMMA AirborneCurrent ==
  ASSUME NEW ac \in Aircraft, NEW at \in Time, ac.lastSeen = at, Current(ac),
         NEW p \in [kind : {"airborne"}, odd : BOOLEAN, cpr : Cpr]
  PROVE  Current(ApplyAirborne(ac, p, at).ac)
<1> DEFINE half == [at |-> at, cpr |-> p.cpr]
           withOdd  == [ac EXCEPT !.odd = half]
           withEven == [ac EXCEPT !.even = half]
<1>1. half \in Halves /\ half \in Half /\ half.at = at
  BY DEF Halves, Half
<1>2. half # None
  BY <1>1, TrackerAssumption DEF Half
<1> HIDE DEF half
<1>3. /\ withOdd \in Aircraft /\ withOdd.lastSeen = at /\ withOdd.odd = half
      /\ withOdd.even = ac.even /\ withOdd.position = ac.position
      /\ withEven \in Aircraft /\ withEven.lastSeen = at /\ withEven.even = half
      /\ withEven.odd = ac.odd /\ withEven.position = ac.position
  BY <1>1 DEF Aircraft
<1> HIDE DEF withOdd, withEven
<1>4. at <= at
  BY TrackerAssumption DEF Time
<1>5. Fresh(withOdd, at) /\ Fresh(withEven, at)
  BY <1>1, <1>2, <1>3, <1>4 DEF Fresh, Current, HalvesSeen
<1>6. Current(withOdd) /\ Current(withEven)
  BY <1>1, <1>2, <1>3, <1>4 DEF Current, HalvesSeen
<1>7. Current(ResolvePosition(withOdd, at).ac) /\ Current(ResolvePosition(withEven, at).ac)
  BY <1>3, <1>5, <1>6, ResolvePositionCurrent
<1>. QED
  BY <1>7 DEF ApplyAirborne, withOdd, withEven, half

LEMMA SurfaceCurrent ==
  ASSUME NEW ac \in Aircraft, NEW at \in Time, Current(ac), NEW p
  PROVE  Current(ApplySurface(ac, p, at).ac)
<1> DEFINE ac2 == IF p.velocity # None THEN [ac EXCEPT !.velocity = p.velocity] ELSE ac
           fix == [at |-> at, source |-> "surface", even |-> None, odd |-> None]
           ac3 == [ac2 EXCEPT !.position = fix]
<1>1. /\ ac2.even = ac.even /\ ac2.odd = ac.odd /\ ac2.lastSeen = ac.lastSeen
      /\ ac2.position = ac.position
  BY DEF Aircraft
<1>2. /\ ac3.even = ac.even /\ ac3.odd = ac.odd /\ ac3.lastSeen = ac.lastSeen
      /\ ac3.position = fix
  BY DEF Aircraft
<1>3. FixOK(fix)
  BY DEF FixOK
<1>4. ApplySurface(ac, p, at).ac = IF HasReference THEN ac3 ELSE ac2
  BY DEF ApplySurface, Fix, Result
<1> HIDE DEF ac2, ac3, fix
<1>5. Current(ac2) /\ Current(ac3)
  BY <1>1, <1>2, <1>3 DEF Current, HalvesSeen
<1>. QED
  BY <1>4, <1>5

LEMMA HearCurrent ==
  ASSUME NEW ac \in Aircraft, NEW at \in Time, ac.lastSeen <= at, Current(ac),
         NEW f \in Frames, f.crc = "failed" \/ f.icao # None
  PROVE  Current(Hear(ac, f, at).ac)
<1> DEFINE ac2 == Touch(ac, f, at)
           p == f.payload
<1>1. f \in FrameType
  BY TrackerAssumption
<1>2. Tally(ac.counters, f.crc) \in Counters
  BY DEF Tally, Aircraft, Counters
<1>3. /\ ac2 \in Aircraft /\ ac2.even = ac.even /\ ac2.odd = ac.odd /\ ac2.lastSeen = at
      /\ ac2.position = ac.position
  BY <1>2 DEF Touch, Aircraft
<1>4. /\ ac.even # None => ac.even.at \in Int
      /\ ac.odd # None => ac.odd.at \in Int
      /\ at \in Int /\ ac.lastSeen \in Int
  BY TrackerAssumption DEF Aircraft, Halves, Half, Time
<1> HIDE DEF ac2
<1>5. Current(ac2)
  BY <1>3, <1>4 DEF Current, HalvesSeen
<1>6. CASE f.crc = "failed"
  BY <1>5, <1>6 DEF Hear, Result, ac2
<1>7. CASE f.crc # "failed"
  <2>1. p \in Payload
    BY <1>1, <1>7 DEF FrameType
  <2>2. Current(Apply(ac2, p, at).ac)
    <3>1. CASE p.kind = "airborne"
      <4>1. p \in [kind : {"airborne"}, odd : BOOLEAN, cpr : Cpr]
        BY <2>1, <3>1 DEF Payload
      <4>. QED
        BY <1>3, <1>5, <3>1, <4>1, AirborneCurrent DEF Apply
    <3>2. CASE p.kind = "surface"
      BY <1>3, <1>5, <3>2, SurfaceCurrent DEF Apply
    <3>3. CASE p.kind \notin {"airborne", "surface"}
      <4> DEFINE r == Apply(ac2, p, at).ac
      <4>1. r.even = ac2.even /\ r.odd = ac2.odd /\ r.lastSeen = ac2.lastSeen /\ r.position = ac2.position
        BY <1>3, <3>3 DEF Apply, ApplyIdent, ApplyVelocity, Result, Aircraft
      <4> HIDE DEF r
      <4>2. Current(r)
        BY <1>5, <4>1 DEF Current, HalvesSeen
      <4>. QED
        BY <4>2 DEF r
    <3>. QED
      BY <3>1, <3>2, <3>3
  <2>. QED
    BY <1>7, <2>2 DEF Hear, ac2
<1>. QED
  BY <1>6, <1>7

-----------------------------------------------------------------------------
(* The two moves on the order *)

(* to_back on a list without repetitions permutes it: the entries behind the *)
(* moved one shift forward by one, the others stay.                          *)
LEMMA ToBackFacts ==
  ASSUME order \in Seq(Icao), TableWellFormed, NEW a \in Tracked
  PROVE  /\ ToBack(a) \in Seq(Icao)
         /\ Len(ToBack(a)) = Len(order)
         /\ Len(order) > 0
         /\ ToBack(a)[Len(order)] = a
         /\ \E i \in 1 .. Len(order) :
              /\ order[i] = a
              /\ \A j \in 1 .. Len(order) - 1 :
                   ToBack(a)[j] = order[IF j < i THEN j ELSE j + 1]
<1> DEFINE i == CHOOSE i \in 1 .. Len(order) : order[i] = a
<1>1. i \in 1 .. Len(order) /\ order[i] = a
  BY DEF TableWellFormed
<1> HIDE DEF i
<1> DEFINE s == [j \in 1 .. Len(order) |->
                   IF j < i THEN order[j] ELSE IF j < Len(order) THEN order[j + 1] ELSE a]
<1>2. ToBack(a) = s
  BY DEF ToBack, i
<1>3. Len(order) \in Nat /\ \A j \in 1 .. Len(order) : order[j] \in Icao
  OBVIOUS
<1>4. \A j \in 1 .. Len(order) : s[j] \in Icao
  BY <1>1, <1>3
<1>5. s \in Seq(Icao) /\ Len(s) = Len(order)
  BY <1>3, <1>4
<1>6. s[Len(order)] = a
  BY <1>1, <1>3
<1>7. \A j \in 1 .. Len(order) - 1 : s[j] = order[IF j < i THEN j ELSE j + 1]
  BY <1>1, <1>3
<1> HIDE DEF s
<1>. QED
  BY <1>1, <1>2, <1>3, <1>5, <1>6, <1>7

(* Dropping a prefix. *)
LEMMA DropFacts ==
  ASSUME order \in Seq(Icao), NEW n \in 0 .. Len(order)
  PROVE  /\ Drop(n) \in Seq(Icao)
         /\ Len(Drop(n)) = Len(order) - n
         /\ \A i \in 1 .. Len(order) - n : Drop(n)[i] = order[i + n]
BY DEF Drop

LEMMA EventsType ==
  ASSUME NEW a \in Icao, NEW kinds \in Seq(Kinds)
  PROVE  EventsOf(a, kinds) \in Seq(StateEvent)
<1>1. \A i \in 1 .. Len(kinds) : Event(kinds[i], a) \in StateEvent
  BY DEF Event, StateEvent, Kinds
<1>. QED
  BY <1>1 DEF EventsOf

LEMMA LostType ==
  ASSUME order \in Seq(Icao), NEW n \in 0 .. Len(order)
  PROVE  LostEvents(n) \in Seq(StateEvent)
<1>1. \A i \in 1 .. n : Event("lost", order[i]) \in StateEvent
  BY DEF Event, StateEvent
<1>. QED
  BY <1>1 DEF LostEvents

-----------------------------------------------------------------------------
(* The inductive invariant *)

SeenByNow == \A a \in Tracked : byIcao[a].lastSeen <= now

AllCurrent == \A a \in Tracked : Current(byIcao[a])

IInv ==
  /\ TypeOK
  /\ TableWellFormed
  /\ Sorted
  /\ SeenByNow
  /\ StoredPairDecodes
  /\ AllCurrent

(* Resolution answers with an address, and with a tracked one for a frame *)
(* whose CRC failed.                                                      *)
LEMMA ResolveFacts ==
  ASSUME order \in Seq(Icao), TableWellFormed,
         NEW f \in Frames, NEW at, ~ Unresolved(f, at)
  PROVE  /\ Resolve(f, at) \in Icao
         /\ f.crc = "failed" \/ f.icao # None
         /\ Resolve(f, at) = f.icao
<1>1. f \in FrameType
  BY TrackerAssumption
<1>. QED
  BY <1>1, TrackerAssumption DEF Resolve, Unresolved, FrameType

LEMMA InitIInv == Init => IInv
<1> SUFFICES ASSUME Init PROVE IInv
  OBVIOUS
<1>1. Tracked = {} /\ byIcao \in [Tracked -> Aircraft]
  BY DEF Init, Tracked
<1>2. now \in Time /\ frames \in 0 .. MaxFrames
  BY TrackerAssumption DEF Init, Time
<1>3. Len(order) = 0 /\ order \in Seq(Icao) /\ out \in Seq(StateEvent)
  BY DEF Init
<1>. QED
  BY <1>1, <1>2, <1>3, TrackerAssumption
  DEF IInv, TypeOK, TableWellFormed, Sorted, SeenByNow, StoredPairDecodes, AllCurrent

-----------------------------------------------------------------------------
(* Each operation preserves the invariant *)

(* A new aircraft starts with no halves. *)
LEMMA NewAircraftGood ==
  ASSUME NEW at \in Time
  PROVE  NewAircraft(at) \in Aircraft /\ PairOK(NewAircraft(at))
<1>1. NewAircraft(at) \in Aircraft
  BY DEF NewAircraft, Aircraft, Counters, Halves
<1>2. NewAircraft(at).even = None
  BY DEF NewAircraft
<1>. QED
  BY <1>1, <1>2 DEF PairOK

(* The part of the invariant that speaks of the table only. *)
TableInv(o, m) ==
  /\ o \in Seq(Icao)
  /\ DOMAIN m \subseteq Icao
  /\ m \in [DOMAIN m -> Aircraft]
  /\ \A i, j \in 1 .. Len(o) : o[i] = o[j] => i = j
  /\ DOMAIN m = {o[i] : i \in 1 .. Len(o)}
  /\ Len(o) <= Capacity
  /\ \A a \in DOMAIN m : PairOK(m[a])

(* The part that needs a clock which does not run backwards. *)
Timed(o, m, at) ==
  /\ \A i, j \in 1 .. Len(o) : i <= j => m[o[i]].lastSeen <= m[o[j]].lastSeen
  /\ \A a \in DOMAIN m : m[a].lastSeen <= at /\ Current(m[a])

LEMMA IInvIsTableInv ==
  IInv <=> /\ TableInv(order, byIcao) /\ Timed(order, byIcao, now)
           /\ now \in Time /\ out \in Seq(StateEvent) /\ frames \in 0 .. MaxFrames
BY DEF IInv, TableInv, Timed, TypeOK, TableWellFormed, Sorted, SeenByNow, StoredPairDecodes,
       AllCurrent, Tracked, PairOK

(* Touching: the aircraft moves to the back, where now is the latest time. *)
LEMMA TouchTable ==
  ASSUME TableInv(order, byIcao), now \in Time, NEW a \in Tracked,
         NEW ac \in Aircraft, ac.lastSeen = now, PairOK(ac)
  PROVE  /\ TableInv(ToBack(a), [byIcao EXCEPT ![a] = ac])
         /\ Timed(order, byIcao, now) /\ Current(ac) =>
              Timed(ToBack(a), [byIcao EXCEPT ![a] = ac], now)
<1> DEFINE s == ToBack(a)
           m == [byIcao EXCEPT ![a] = ac]
           L == Len(order)
<1>1. order \in Seq(Icao) /\ TableWellFormed /\ L \in Nat /\ L <= Capacity
  BY DEF TableInv, TableWellFormed, Tracked
<1>2. s \in Seq(Icao) /\ Len(s) = L /\ L > 0 /\ s[L] = a
  BY <1>1, ToBackFacts
<1>3. PICK k \in 1 .. L :
        /\ order[k] = a
        /\ \A j \in 1 .. L - 1 : s[j] = order[IF j < k THEN j ELSE j + 1]
  BY <1>1, ToBackFacts
<1> HIDE DEF s
<1> DEFINE Old(j) == IF j = L THEN k ELSE IF j < k THEN j ELSE j + 1
<1>4. \A j \in 1 .. L : Old(j) \in 1 .. L /\ s[j] = order[Old(j)]
  BY <1>1, <1>2, <1>3
<1>5. \A i, j \in 1 .. L : Old(i) = Old(j) => i = j
  BY <1>1, <1>3
<1>6. \A i \in 1 .. L : \E j \in 1 .. L : Old(j) = i
  <2> TAKE i \in 1 .. L
  <2> DEFINE j == IF i = k THEN L ELSE IF i < k THEN i ELSE i - 1
  <2>1. j \in 1 .. L /\ Old(j) = i
    BY <1>1, <1>3
  <2>. QED
    BY <2>1
<1>7. \A i, j \in 1 .. L : i <= j /\ j < L => Old(i) <= Old(j) /\ Old(i) # k /\ Old(j) # k
  BY <1>1, <1>3
<1>8. DOMAIN m = DOMAIN byIcao /\ m \in [DOMAIN m -> Aircraft] /\ m[a] = ac
      /\ \A x \in DOMAIN m : x # a => m[x] = byIcao[x]
  BY DEF TableInv, Tracked
<1> HIDE DEF m, Old
<1>9. \A i, j \in 1 .. L : s[i] = s[j] => i = j
  BY <1>1, <1>4, <1>5 DEF TableInv
<1>10. DOMAIN m = {s[i] : i \in 1 .. L}
  <2>1. \A x \in DOMAIN m : \E i \in 1 .. L : x = order[i]
    BY <1>8 DEF TableInv
  <2>2. \A x \in DOMAIN m : \E j \in 1 .. L : x = s[j]
    <3> TAKE x \in DOMAIN m
    <3>1. PICK i \in 1 .. L : x = order[i]
      BY <2>1
    <3>2. PICK j \in 1 .. L : Old(j) = i
      BY <1>6
    <3>3. x = s[j]
      BY <1>4, <3>1, <3>2
    <3>. QED
      BY <3>3
  <2>3. \A j \in 1 .. L : s[j] \in DOMAIN m
    BY <1>4, <1>8 DEF TableInv
  <2>. QED
    BY <2>2, <2>3
<1>11. \A x \in DOMAIN m : PairOK(m[x])
  BY <1>8 DEF TableInv
<1>12. ASSUME Timed(order, byIcao, now), Current(ac) PROVE Timed(s, m, now)
  <2>0. \A x \in DOMAIN m : m[x].lastSeen <= now /\ Current(m[x])
    BY <1>8, <1>12 DEF Timed, Time
  <2> SUFFICES ASSUME NEW i \in 1 .. L, NEW j \in 1 .. L, i <= j
               PROVE  m[s[i]].lastSeen <= m[s[j]].lastSeen
    BY <1>2, <2>0 DEF Timed
  <2>1. CASE j = L
    BY <1>2, <1>8, <1>10, <2>0, <2>1
  <2>2. CASE j < L
    <3>1. /\ Old(i) \in 1 .. L /\ Old(j) \in 1 .. L /\ Old(i) <= Old(j)
          /\ s[i] = order[Old(i)] /\ s[j] = order[Old(j)]
          /\ Old(i) # k /\ Old(j) # k
      BY <1>4, <1>7, <2>2
    <3>2. s[i] # a /\ s[j] # a
      BY <1>3, <3>1 DEF TableInv
    <3>3. m[s[i]] = byIcao[s[i]] /\ m[s[j]] = byIcao[s[j]]
      BY <1>8, <1>10, <3>2
    <3>. QED
      BY <1>12, <3>1, <3>3 DEF Timed
  <2>. QED
    BY <1>1, <2>1, <2>2
<1>13. DOMAIN m \subseteq Icao
  BY <1>8 DEF TableInv
<1>. QED
  BY <1>1, <1>2, <1>8, <1>9, <1>10, <1>11, <1>12, <1>13 DEF TableInv, s, m

(* Dropping a prefix keeps a sound table. *)
LEMMA DropTable ==
  ASSUME TableInv(order, byIcao), NEW n \in 0 .. Len(order)
  PROVE  /\ TableInv(Drop(n), [x \in Survivors(n) |-> byIcao[x]])
         /\ Timed(order, byIcao, now) => Timed(Drop(n), [x \in Survivors(n) |-> byIcao[x]], now)
         /\ Survivors(n) = {Drop(n)[i] : i \in 1 .. Len(Drop(n))}
         /\ Survivors(n) \subseteq Tracked
<1> DEFINE d == Drop(n)
           m == [x \in Survivors(n) |-> byIcao[x]]
           L == Len(order)
<1>1. order \in Seq(Icao) /\ L \in Nat /\ L <= Capacity
  BY DEF TableInv
<1>2. d \in Seq(Icao) /\ Len(d) = L - n /\ \A i \in 1 .. L - n : d[i] = order[i + n]
  BY <1>1, DropFacts
<1> HIDE DEF d
<1>3. Survivors(n) = {d[i] : i \in 1 .. L - n}
  <2>1. \A i \in n + 1 .. L : i - n \in 1 .. L - n /\ d[i - n] = order[i]
    <3> TAKE i \in n + 1 .. L
    <3>1. i - n \in 1 .. L - n /\ (i - n) + n = i
      BY <1>1
    <3>. QED
      BY <1>2, <3>1
  <2>2. \A j \in 1 .. L - n : j + n \in n + 1 .. L /\ d[j] = order[j + n]
    BY <1>1, <1>2
  <2>3. \A x \in Survivors(n) : \E j \in 1 .. L - n : x = d[j]
    BY <2>1 DEF Survivors
  <2>4. \A j \in 1 .. L - n : d[j] \in Survivors(n)
    BY <2>2 DEF Survivors
  <2>. QED
    BY <2>3, <2>4
<1>4. Survivors(n) \subseteq Tracked
  BY <1>1 DEF Survivors, TableInv, Tracked
<1>5. \A i, j \in 1 .. L - n : d[i] = d[j] => i = j
  <2> TAKE i, j \in 1 .. L - n
  <2>1. i + n \in 1 .. L /\ j + n \in 1 .. L /\ (i + n = j + n => i = j)
    BY <1>1
  <2>. QED
    BY <1>2, <2>1 DEF TableInv
<1>6. \A i \in 1 .. L - n : m[d[i]] = byIcao[order[i + n]]
  BY <1>2, <1>3
<1>7. ASSUME Timed(order, byIcao, now) PROVE Timed(d, m, now)
  <2>1. ASSUME NEW i \in 1 .. L - n, NEW j \in 1 .. L - n, i <= j
        PROVE  m[d[i]].lastSeen <= m[d[j]].lastSeen
    <3>1. i + n \in 1 .. L /\ j + n \in 1 .. L /\ i + n <= j + n
      BY <1>1, <2>1
    <3>. QED
      BY <1>6, <1>7, <3>1 DEF Timed
  <2>2. \A a \in DOMAIN m : m[a].lastSeen <= now /\ Current(m[a])
    BY <1>4, <1>7 DEF Timed, Tracked
  <2> HIDE DEF m
  <2>. QED
    BY <1>2, <2>1, <2>2 DEF Timed
<1>8. /\ DOMAIN m = Survivors(n) /\ m \in [DOMAIN m -> Aircraft]
      /\ \A a \in DOMAIN m : PairOK(m[a])
  BY <1>4 DEF TableInv, Tracked
<1> HIDE DEF m
<1>9. Survivors(n) \subseteq Icao /\ L - n <= Capacity
  BY <1>1, <1>4, TrackerAssumption DEF TableInv, Tracked
<1>. QED
  BY <1>2, <1>3, <1>4, <1>5, <1>7, <1>8, <1>9 DEF TableInv, d, m

(* Inserting at the back with room left: now is the latest time. *)
LEMMA InsertTable ==
  ASSUME NEW o, NEW m, TableInv(o, m), now \in Time, Len(o) < Capacity,
         NEW a \in Icao, a \notin DOMAIN m,
         NEW ac \in Aircraft, ac.lastSeen = now, PairOK(ac)
  PROVE  LET q == [x \in DOMAIN m \cup {a} |-> IF x = a THEN ac ELSE m[x]]
         IN  /\ TableInv(Append(o, a), q)
             /\ Timed(o, m, now) /\ Current(ac) => Timed(Append(o, a), q, now)
<1> DEFINE s == Append(o, a)
           q == [x \in DOMAIN m \cup {a} |-> IF x = a THEN ac ELSE m[x]]
           L == Len(o)
<1>1. o \in Seq(Icao) /\ L \in Nat /\ L + 1 <= Capacity
  BY TrackerAssumption DEF TableInv
<1>2. s \in Seq(Icao) /\ Len(s) = L + 1 /\ s[L + 1] = a /\ \A i \in 1 .. L : s[i] = o[i]
  BY <1>1
<1> HIDE DEF s
<1>3. \A i \in 1 .. L : o[i] \in DOMAIN m /\ o[i] # a
  BY <1>1 DEF TableInv
<1>4. \A i, j \in 1 .. L + 1 : s[i] = s[j] => i = j
  BY <1>1, <1>2, <1>3 DEF TableInv
<1>5. DOMAIN q = {s[i] : i \in 1 .. L + 1}
  <2>1. \A x \in DOMAIN q : \E i \in 1 .. L + 1 : x = s[i]
    <3> TAKE x \in DOMAIN q
    <3>1. CASE x = a
      BY <1>1, <1>2, <3>1
    <3>2. CASE x # a
      <4>1. PICK i \in 1 .. L : x = o[i]
        BY <3>2 DEF TableInv
      <4>. QED
        BY <1>1, <1>2, <4>1
    <3>. QED
      BY <3>1, <3>2
  <2>2. \A i \in 1 .. L + 1 : s[i] \in DOMAIN q
    BY <1>1, <1>2, <1>3
  <2>. QED
    BY <2>1, <2>2
<1>6. /\ DOMAIN q \subseteq Icao /\ q \in [DOMAIN q -> Aircraft]
      /\ q[a] = ac /\ \A x \in DOMAIN m : q[x] = m[x]
  BY DEF TableInv
<1>7. \A x \in DOMAIN q : PairOK(q[x])
  BY <1>6 DEF TableInv
<1>8. ASSUME Timed(o, m, now), Current(ac) PROVE Timed(s, q, now)
  <2>0. \A x \in DOMAIN q : q[x].lastSeen <= now /\ Current(q[x])
    BY <1>6, <1>8 DEF Timed, Time
  <2> HIDE DEF q
  <2> SUFFICES ASSUME NEW i \in 1 .. L + 1, NEW j \in 1 .. L + 1, i <= j
               PROVE  q[s[i]].lastSeen <= q[s[j]].lastSeen
    BY <1>2, <2>0 DEF Timed
  <2>1. CASE j = L + 1
    BY <1>2, <1>5, <1>6, <2>0, <2>1
  <2>2. CASE j # L + 1
    <3>1. i \in 1 .. L /\ j \in 1 .. L
      BY <1>1, <2>2
    <3>2. q[s[i]] = m[o[i]] /\ q[s[j]] = m[o[j]]
      BY <1>2, <1>3, <1>6, <3>1
    <3>. QED
      BY <1>8, <3>1, <3>2 DEF Timed
  <2>. QED
    BY <2>1, <2>2
<1> HIDE DEF q
<1>. QED
  BY <1>1, <1>2, <1>4, <1>5, <1>6, <1>7, <1>8 DEF TableInv, s, q

(* A call of ingest keeps the table sound under any clock, and its times in *)
(* order under one that does not run backwards.                             *)
LEMMA IngestTable ==
  ASSUME TableInv(order, byIcao), now \in Time, NEW f \in Frames, Ingest(f, now)
  PROVE  /\ TableInv(order', byIcao')
         /\ Timed(order, byIcao, now) => Timed(order', byIcao', now)
         /\ out' \in Seq(StateEvent)
<1>1. order \in Seq(Icao) /\ TableWellFormed
  BY DEF TableInv, TableWellFormed, Tracked
<1> DEFINE a == Resolve(f, now)
<1>2. CASE IngestOrphan(f, now)
  <2>1. <<Event("orphan", None)>> \in Seq(StateEvent)
    BY DEF Event, StateEvent
  <2>. QED
    BY <1>2, <2>1 DEF IngestOrphan
<1>3. CASE IngestKnown(f, now)
  <2> DEFINE r == Hear(byIcao[a], f, now)
  <2>1. a \in Tracked /\ ~ Unresolved(f, now)
    BY <1>3 DEF IngestKnown
  <2>2. byIcao[a] \in Aircraft /\ PairOK(byIcao[a])
    BY <2>1 DEF TableInv, Tracked
  <2>3. GoodResult(r, now) /\ a \in Icao
    BY <1>1, <2>1, <2>2, ResolveFacts, HearGood
  <2>4. r.ac \in Aircraft /\ r.ac.lastSeen = now /\ PairOK(r.ac)
    BY <2>3 DEF GoodResult
  <2>5. EventsOf(a, r.kinds) \in Seq(StateEvent)
    BY <2>3, EventsType DEF GoodResult
  <2>6. Timed(order, byIcao, now) => Current(r.ac)
    <3>1. SUFFICES ASSUME Timed(order, byIcao, now) PROVE Current(r.ac)
      OBVIOUS
    <3>2. Current(byIcao[a]) /\ byIcao[a].lastSeen <= now
      BY <2>1, <3>1 DEF Timed, Tracked
    <3>. QED
      BY <1>1, <2>1, <2>2, <3>2, ResolveFacts, HearCurrent
  <2>7. order' = ToBack(a) /\ byIcao' = [byIcao EXCEPT ![a] = r.ac] /\ out' = EventsOf(a, r.kinds)
    BY <1>3 DEF IngestKnown
  <2> HIDE DEF r, a
  <2>8. /\ TableInv(ToBack(a), [byIcao EXCEPT ![a] = r.ac])
        /\ Timed(order, byIcao, now) /\ Current(r.ac) =>
             Timed(ToBack(a), [byIcao EXCEPT ![a] = r.ac], now)
    BY <2>1, <2>4, TouchTable
  <2>. QED
    BY <2>5, <2>6, <2>7, <2>8
<1>4. CASE IngestNew(f, now)
  <2> DEFINE r == Hear(NewAircraft(now), f, now)
  <2>1. a \notin Tracked /\ ~ Unresolved(f, now)
    BY <1>4 DEF IngestNew, Announce
  <2>2. PICK n \in 0 .. Len(order) :
          /\ Overflow(n, now)
          /\ order' = Append(Drop(n), a)
          /\ byIcao' = [x \in Survivors(n) \cup {a} |-> IF x = a THEN r.ac ELSE byIcao[x]]
          /\ out' = LostEvents(n) \o <<Event("acquired", a)>> \o EventsOf(a, r.kinds)
    BY <1>4 DEF IngestNew, Announce
  <2>3. GoodResult(r, now) /\ a \in Icao
    BY <1>1, <2>1, ResolveFacts, HearGood, NewAircraftGood
  <2>4. Current(r.ac)
    <3>1. /\ NewAircraft(now) \in Aircraft /\ NewAircraft(now).lastSeen = now
          /\ Current(NewAircraft(now))
      BY NewAircraftGood DEF NewAircraft, Current, HalvesSeen
    <3>. QED
      BY <1>1, <2>1, <3>1, ResolveFacts, HearCurrent DEF Time
  <2> DEFINE m == [x \in Survivors(n) |-> byIcao[x]]
             q == [x \in DOMAIN m \cup {a} |-> IF x = a THEN r.ac ELSE m[x]]
  <2>5. /\ TableInv(Drop(n), m) /\ Survivors(n) \subseteq Tracked
        /\ Timed(order, byIcao, now) => Timed(Drop(n), m, now)
    BY DropTable
  <2>6. Len(Drop(n)) < Capacity
    BY <1>1, <2>2, DropFacts, TrackerAssumption DEF Overflow, StopsAt, TableWellFormed
  <2>7. /\ TableInv(Append(Drop(n), a), q)
        /\ Timed(order, byIcao, now) => Timed(Append(Drop(n), a), q, now)
    <3>1. a \notin DOMAIN m
      BY <2>1, <2>5
    <3>2. r.ac \in Aircraft /\ r.ac.lastSeen = now /\ PairOK(r.ac)
      BY <2>3 DEF GoodResult
    <3> HIDE DEF m, r, a
    <3>. QED
      BY <2>3, <2>4, <2>5, <2>6, <3>1, <3>2, InsertTable
  <2>8. byIcao' = q
    BY <2>2
  <2>9. out' \in Seq(StateEvent)
    <3>1. <<Event("acquired", a)>> \in Seq(StateEvent)
      BY <2>3 DEF Event, StateEvent
    <3>2. LostEvents(n) \in Seq(StateEvent) /\ EventsOf(a, r.kinds) \in Seq(StateEvent)
      BY <1>1, <2>3, LostType, EventsType DEF GoodResult
    <3>. QED
      BY <2>2, <3>1, <3>2
  <2> HIDE DEF q
  <2>. QED
    BY <2>2, <2>7, <2>8, <2>9
<1>. QED
  BY <1>2, <1>3, <1>4 DEF Ingest

LEMMA ReceiveIInv ==
  ASSUME IInv, Receive
  PROVE  IInv'
<1>1. /\ TableInv(order, byIcao) /\ Timed(order, byIcao, now)
      /\ now \in Time /\ out \in Seq(StateEvent) /\ frames \in 0 .. MaxFrames
  BY IInvIsTableInv
<1>2. now' = now /\ frames' \in 0 .. MaxFrames
  BY <1>1, TrackerAssumption DEF Receive
<1>3. PICK f \in Frames : Ingest(f, now)
  BY DEF Receive
<1>4. TableInv(order', byIcao') /\ Timed(order', byIcao', now) /\ out' \in Seq(StateEvent)
  BY <1>1, <1>3, IngestTable
<1>. QED
  BY <1>1, <1>2, <1>4
  DEF TableInv, Timed, PairOK, IInv, TypeOK, TableWellFormed, Sorted, SeenByNow, StoredPairDecodes,
      AllCurrent, Tracked, Verdict

LEMMA SweepIInv ==
  ASSUME IInv, Sweep
  PROVE  IInv'
<1>1. /\ TableInv(order, byIcao) /\ Timed(order, byIcao, now)
      /\ now \in Time /\ out \in Seq(StateEvent) /\ frames \in 0 .. MaxFrames
  BY IInvIsTableInv
<1>2. PICK n \in 0 .. Len(order) :
        /\ order' = Drop(n)
        /\ byIcao' = [x \in Survivors(n) |-> byIcao[x]]
        /\ out' = LostEvents(n)
  BY DEF Sweep, EvictStale
<1>3. TableInv(order', byIcao') /\ Timed(order', byIcao', now) /\ out' \in Seq(StateEvent)
  <2>1. order \in Seq(Icao)
    BY DEF IInv, TypeOK
  <2>. QED
    BY <1>1, <1>2, <2>1, DropTable, LostType
<1>4. now' = now /\ frames' = frames
  BY DEF Sweep
<1>. QED
  BY <1>1, <1>3, <1>4
  DEF TableInv, Timed, PairOK, IInv, TypeOK, TableWellFormed, Sorted, SeenByNow, StoredPairDecodes,
      AllCurrent, Tracked, Verdict

LEMMA TickIInv ==
  ASSUME IInv, Tick
  PROVE  IInv'
<1>1. /\ TableInv(order, byIcao) /\ Timed(order, byIcao, now)
      /\ now \in Time /\ frames \in 0 .. MaxFrames
  BY IInvIsTableInv
<1>2. now' \in Time /\ now < now' /\ out' = <<>> /\ UNCHANGED <<order, byIcao, frames>>
  BY <1>1, TrackerAssumption DEF Tick, Time
<1>3. \A x \in Tracked : byIcao[x].lastSeen <= now'
  BY <1>1, <1>2 DEF TableInv, Timed, Time, Aircraft, Tracked
<1>. QED
  BY <1>1, <1>2, <1>3
  DEF TableInv, Timed, PairOK, IInv, TypeOK, TableWellFormed, Sorted, SeenByNow, StoredPairDecodes,
      AllCurrent, Tracked, Verdict

LEMMA StepIInv == IInv /\ [Next]_vars => IInv'
<1> SUFFICES ASSUME IInv, [Next]_vars PROVE IInv'
  OBVIOUS
<1>1. CASE UNCHANGED vars
  BY <1>1 DEF vars, IInv, TypeOK, TableWellFormed, Sorted, SeenByNow, StoredPairDecodes,
    AllCurrent, Tracked, Verdict
<1>. QED
  BY <1>1, ReceiveIInv, SweepIInv, TickIInv DEF Next

(* The inductive invariant holds in every reachable state of the table. *)
THEOREM InvariantHolds == Spec => []IInv
BY InitIInv, StepIInv, PTL DEF Spec

-----------------------------------------------------------------------------
(* Safety *)

(* The tracker's state keeps its types: ingest and evict_stale never write a *)
(* half, a fix or a time that the record types exclude.                      *)
THEOREM TypeHolds == Spec => []TypeOK
<1>1. IInv => TypeOK
  BY DEF IInv
<1>. QED
  BY <1>1, InvariantHolds, PTL

(* The two views of the LinkedHashMap agree and the table never exceeds the  *)
(* capacity given to with_capacity.                                          *)
THEOREM TableHolds == Spec => []TableWellFormed
<1>1. IInv => TableWellFormed
  BY DEF IInv
<1>. QED
  BY <1>1, InvariantHolds, PTL

(* The table stays ordered by last_seen, which the early exits rest on. *)
THEOREM SortedHolds == Spec => []Sorted
<1>1. IInv => Sorted
  BY DEF IInv
<1>. QED
  BY <1>1, InvariantHolds, PTL

(* Two stored halves always pair: try_resolve_position leaves no half behind *)
(* that could be paired with a later one against the window or the zone.     *)
THEOREM PairHolds == Spec => []StoredPairDecodes
<1>1. IInv => StoredPairDecodes
  BY DEF IInv
<1>. QED
  BY <1>1, InvariantHolds, PTL

(* Every fix in the table was computed from halves of its own instant. *)
THEOREM FixIsCurrentHolds == Spec => []FixIsCurrent
<1>1. IInv => FixIsCurrent
  BY DEF IInv, AllCurrent, Current, FixIsCurrent, FixOK
<1>. QED
  BY <1>1, InvariantHolds, PTL

(* A later entry of the order is no older than an earlier one. *)
LEMMA AgeFalls ==
  ASSUME IInv, NEW i \in 1 .. Len(order), NEW j \in i .. Len(order)
  PROVE  /\ j \in 1 .. Len(order)
         /\ Age(now, byIcao[order[j]].lastSeen) <= Age(now, byIcao[order[i]].lastSeen)
<1>1. j \in 1 .. Len(order) /\ i <= j
  BY DEF IInv, TypeOK
<1>2. order[i] \in Tracked /\ order[j] \in Tracked
  BY <1>1 DEF IInv, TableWellFormed
<1>3. byIcao[order[i]].lastSeen \in Time /\ byIcao[order[j]].lastSeen \in Time /\ now \in Time
  BY <1>2 DEF IInv, TypeOK, Aircraft
<1>4. byIcao[order[i]].lastSeen <= byIcao[order[j]].lastSeen
  BY <1>1 DEF IInv, Sorted
<1>. QED
  BY <1>1, <1>3, <1>4, TrackerAssumption DEF Age, Time

(* The scan of resolve_icao finds every active aircraft and no other. *)
LEMMA ScanIsComplete == IInv => ScanComplete
<1> SUFFICES ASSUME IInv, NEW a \in Icao
             PROVE  ScanFinds(a, now) <=> (a \in Tracked /\ Active(a, now))
  BY DEF ScanComplete
<1>1. ASSUME ScanFinds(a, now) PROVE a \in Tracked /\ Active(a, now)
  <2>1. PICK i \in 1 .. Len(order) : order[i] = a /\ \A j \in i .. Len(order) : Active(order[j], now)
    BY <1>1 DEF ScanFinds
  <2>2. i \in i .. Len(order)
    BY DEF IInv, TypeOK
  <2>. QED
    BY <2>1, <2>2 DEF IInv, TableWellFormed
<1>2. ASSUME a \in Tracked, Active(a, now) PROVE ScanFinds(a, now)
  <2>1. PICK i \in 1 .. Len(order) : order[i] = a
    BY <1>2 DEF IInv, TableWellFormed
  <2>2. ASSUME NEW j \in i .. Len(order) PROVE Active(order[j], now)
    <3>1. Age(now, byIcao[order[j]].lastSeen) <= Age(now, byIcao[a].lastSeen)
      BY <2>1, AgeFalls
    <3>2. order[j] \in Tracked
      BY AgeFalls DEF IInv, TableWellFormed
    <3>3. byIcao[order[j]].lastSeen \in Int /\ byIcao[a].lastSeen \in Int /\ now \in Int
      BY <1>2, <3>2, TrackerAssumption DEF IInv, TypeOK, Aircraft, Time
    <3>. QED
      BY <1>2, <3>1, <3>3, TrackerAssumption DEF Active, Age
  <2>. QED
    BY <2>1, <2>2 DEF ScanFinds
<1>. QED
  BY <1>1, <1>2

(* No reply of an active aircraft is turned into an orphan by the scan, and *)
(* an aircraft outside the active window is never revived by one.           *)
THEOREM ScanHolds == Spec => []ScanComplete
  BY ScanIsComplete, InvariantHolds, PTL

-----------------------------------------------------------------------------
(* What one call may do to the table *)

(* A call leaves the set of tracked aircraft alone, drops a prefix, or drops *)
(* a prefix and adds the sender.                                             *)
Keeps == Tracked' = Tracked

Drops(n) ==
  /\ n \in 0 .. Len(order)
  /\ Tracked' = Survivors(n)
  /\ out' = LostEvents(n)

Swaps(n, a, kinds) ==
  /\ n \in 0 .. Len(order)
  /\ a \in Icao \ Tracked
  /\ kinds \in Seq(Kinds)
  /\ Tracked' = Survivors(n) \cup {a}
  /\ out' = LostEvents(n) \o <<Event("acquired", a)>> \o EventsOf(a, kinds)

(* What a frame from a known sender or from nobody pushes. *)
Speaks ==
  \/ out' = <<>>
  \/ out' = <<Event("orphan", None)>>
  \/ \E a \in Icao, kinds \in Seq(Kinds) : out' = EventsOf(a, kinds)

(* A frame from a sender that is not in the table. *)
LEMMA NewShape ==
  ASSUME TableInv(order, byIcao), now \in Time, NEW f \in Frames, IngestNew(f, now)
  PROVE  \E n \in 0 .. Len(order), a \in Icao, kinds \in Seq(Kinds) :
           /\ Swaps(n, a, kinds)
           /\ Overflow(n, now)
           /\ byIcao'[a].lastSeen = now
           /\ \A x \in Survivors(n) : byIcao'[x] = byIcao[x]
<1> DEFINE a == Resolve(f, now)
           r == Hear(NewAircraft(now), f, now)
<1>1. order \in Seq(Icao) /\ TableWellFormed
  BY DEF TableInv, TableWellFormed, Tracked
<1>2. a \in Icao \ Tracked
  BY <1>1, ResolveFacts DEF IngestNew
<1>3. GoodResult(r, now)
  BY <1>1, NewAircraftGood, ResolveFacts, HearGood DEF IngestNew
<1>4. PICK n \in 0 .. Len(order) :
        /\ Overflow(n, now)
        /\ byIcao' = [x \in Survivors(n) \cup {a} |-> IF x = a THEN r.ac ELSE byIcao[x]]
        /\ out' = LostEvents(n) \o <<Event("acquired", a)>> \o EventsOf(a, r.kinds)
  BY DEF IngestNew, Announce
<1>5. Survivors(n) \subseteq Tracked
  BY DropTable
<1> HIDE DEF r
<1>6. /\ Tracked' = Survivors(n) \cup {a}
      /\ byIcao'[a] = r.ac
      /\ \A x \in Survivors(n) : byIcao'[x] = byIcao[x]
  BY <1>2, <1>4, <1>5 DEF Tracked
<1>7. Swaps(n, a, r.kinds)
  BY <1>2, <1>3, <1>4, <1>6 DEF Swaps, GoodResult
<1>. QED
  BY <1>2, <1>3, <1>4, <1>6, <1>7 DEF GoodResult

LEMMA ReceiveShape ==
  ASSUME TableInv(order, byIcao), now \in Time, Receive
  PROVE  \/ Keeps /\ Speaks
         \/ \E n \in 0 .. Len(order), a \in Icao, kinds \in Seq(Kinds) :
              /\ Swaps(n, a, kinds)
              /\ Overflow(n, now)
              /\ byIcao'[a].lastSeen = now
              /\ \A x \in Survivors(n) : byIcao'[x] = byIcao[x]
<1>1. PICK f \in Frames : Ingest(f, now)
  BY DEF Receive
<1>2. order \in Seq(Icao) /\ TableWellFormed
  BY DEF TableInv, TableWellFormed, Tracked
<1>3. CASE IngestOrphan(f, now)
  BY <1>3 DEF IngestOrphan, Keeps, Speaks, Tracked
<1>4. CASE IngestKnown(f, now)
  <2> DEFINE a == Resolve(f, now)
             r == Hear(byIcao[a], f, now)
  <2>1. a \in Tracked /\ a \in Icao
    BY <1>2, <1>4, ResolveFacts DEF IngestKnown
  <2>2. byIcao[a] \in Aircraft /\ PairOK(byIcao[a])
    BY <2>1 DEF TableInv, Tracked
  <2>3. r.kinds \in Seq(Kinds)
    BY <1>2, <1>4, <2>2, ResolveFacts, HearGood DEF IngestKnown, GoodResult
  <2>4. Tracked' = Tracked /\ out' = EventsOf(a, r.kinds)
    BY <1>4 DEF IngestKnown, Tracked
  <2>. QED
    BY <2>1, <2>3, <2>4 DEF Keeps, Speaks
<1>5. CASE IngestNew(f, now)
  BY <1>5, NewShape
<1>. QED
  BY <1>1, <1>3, <1>4, <1>5 DEF Ingest

LEMMA SweepShape ==
  ASSUME IInv, Sweep
  PROVE  \E n \in 0 .. Len(order) :
           /\ Drops(n)
           /\ StopsAt(0, n, now)
           /\ \A x \in Survivors(n) : byIcao'[x] = byIcao[x]
BY DEF Sweep, EvictStale, Drops, Tracked

LEMMA QuietShape ==
  ASSUME Tick \/ UNCHANGED vars
  PROVE  Keeps /\ byIcao' = byIcao
BY DEF Tick, vars, Keeps, Tracked

(* What survives a drop sits behind what is dropped. *)
LEMMA DroppedAreOlder ==
  ASSUME IInv, NEW n \in 0 .. Len(order),
         NEW x \in Tracked \ Survivors(n), NEW y \in Survivors(n)
  PROVE  byIcao[x].lastSeen <= byIcao[y].lastSeen
<1>1. order \in Seq(Icao)
  BY DEF IInv, TypeOK
<1>2. PICK i \in 1 .. Len(order) : order[i] = x
  BY DEF IInv, TableWellFormed
<1>3. PICK j \in n + 1 .. Len(order) : order[j] = y
  BY DEF Survivors
<1>4. i \notin n + 1 .. Len(order)
  BY <1>2 DEF Survivors
<1>5. j \in 1 .. Len(order) /\ i <= j
  BY <1>1, <1>2, <1>3, <1>4
<1>. QED
  BY <1>2, <1>3, <1>5 DEF IInv, Sorted

(* Whatever is dropped, by a full table or by a pass over the stale ones, is *)
(* never fresher than what the same call keeps.                              *)
THEOREM LostAreOldestHolds == Spec => LostAreOldest
<1>1. ASSUME IInv, [Next]_vars,
             NEW x \in Tracked \ Tracked', NEW y \in Tracked \cap Tracked'
      PROVE  byIcao[x].lastSeen <= byIcao[y].lastSeen
  <2>1. CASE Keeps
    BY <2>1 DEF Keeps
  <2>2. ASSUME NEW n, NEW a, NEW kinds, Swaps(n, a, kinds) PROVE byIcao[x].lastSeen <= byIcao[y].lastSeen
    BY <1>1, <2>2, DroppedAreOlder DEF Swaps
  <2>3. ASSUME NEW n, Drops(n) PROVE byIcao[x].lastSeen <= byIcao[y].lastSeen
    BY <1>1, <2>3, DroppedAreOlder DEF Drops
  <2>. QED
    BY <1>1, <2>1, <2>2, <2>3, IInvIsTableInv, ReceiveShape, SweepShape, QuietShape DEF Next
<1>2. IInv /\ [Next]_vars =>
        [\A x \in Tracked \ Tracked', y \in Tracked \cap Tracked' :
            byIcao[x].lastSeen <= byIcao[y].lastSeen]_vars
  BY <1>1
<1>. QED
  BY <1>2, InvariantHolds, PTL DEF Spec, LostAreOldest

(* Nothing stale is left behind the first fresh entry. *)
LEMMA NoStaleBehind ==
  ASSUME IInv, NEW n \in 0 .. Len(order), NEW k, StopsAt(k, n, now), NEW y \in Survivors(n)
  PROVE  Age(now, byIcao[y].lastSeen) <= StaleAfter
<1>1. order \in Seq(Icao)
  BY DEF IInv, TypeOK
<1>2. PICK j \in n + 1 .. Len(order) : order[j] = y
  BY DEF Survivors
<1>3. n < Len(order) /\ n + 1 \in 1 .. Len(order)
  BY <1>1, <1>2
<1>4. ~ Stale(order[n + 1], now)
  BY <1>3 DEF StopsAt
<1>5. Age(now, byIcao[y].lastSeen) <= Age(now, byIcao[order[n + 1]].lastSeen)
  BY <1>2, <1>3, AgeFalls
<1>6. y \in Tracked /\ order[n + 1] \in Tracked
  BY <1>2, <1>3, AgeFalls DEF IInv, TableWellFormed
<1>7. byIcao[y].lastSeen \in Int /\ byIcao[order[n + 1]].lastSeen \in Int /\ now \in Int
  BY <1>6, TrackerAssumption DEF IInv, TypeOK, Aircraft, Time
<1>8. /\ Age(now, byIcao[y].lastSeen) \in Int
      /\ Age(now, byIcao[order[n + 1]].lastSeen) \in Int
      /\ StaleAfter \in Int
  BY <1>7, TrackerAssumption DEF Age
<1>. QED
  BY <1>4, <1>5, <1>8 DEF Stale

LostFirst == Len(out') > 0 /\ out'[1].kind = "lost"

(* The first event of a call that swaps is a loss only if something was lost. *)
LEMMA SwapLosesFirst ==
  ASSUME IInv, NEW n, NEW a, NEW kinds, Swaps(n, a, kinds), LostFirst
  PROVE  n > 0
<1>1. SUFFICES ASSUME n = 0 PROVE FALSE
  BY DEF Swaps
<1>2. LostEvents(n) = <<>>
  BY <1>1 DEF LostEvents
<1>3. EventsOf(a, kinds) \in Seq(StateEvent)
  BY EventsType DEF Swaps
<1>4. <<Event("acquired", a)>> \o EventsOf(a, kinds) = out'
  BY <1>2, <1>3 DEF Swaps
<1>5. out'[1] = Event("acquired", a)
  BY <1>3, <1>4
<1>. QED
  BY <1>5 DEF LostFirst, Event

LEMMA SpeaksLosesNobody ==
  ASSUME Speaks
  PROVE  ~ LostFirst
<1>1. ASSUME NEW a \in Icao, NEW kinds \in Seq(Kinds), out' = EventsOf(a, kinds), LostFirst
      PROVE  FALSE
  <2>1. Len(kinds) \in Nat /\ Len(out') = Len(kinds) /\ 1 \in 1 .. Len(kinds)
    BY <1>1 DEF EventsOf, LostFirst
  <2>2. out'[1] = Event(kinds[1], a) /\ kinds[1] \in Kinds
    BY <1>1, <2>1 DEF EventsOf
  <2>. QED
    BY <1>1, <2>2 DEF LostFirst, Event, Kinds
<1>. QED
  BY <1>1 DEF Speaks, LostFirst, Event

(* A call that drops anything drops every stale aircraft, although both      *)
(* passes stop at the first fresh one.                                       *)
THEOREM SweepIsCompleteHolds == Spec => SweepIsComplete
<1>1. ASSUME IInv, Next, LostFirst, NEW y \in Tracked'
      PROVE  Age(now', byIcao'[y].lastSeen) <= StaleAfter
  <2>1. CASE Receive
    <3>1. PICK n \in 0 .. Len(order), a \in Icao, kinds \in Seq(Kinds) :
            /\ Swaps(n, a, kinds)
            /\ Overflow(n, now)
            /\ byIcao'[a].lastSeen = now
            /\ \A x \in Survivors(n) : byIcao'[x] = byIcao[x]
      BY <1>1, <2>1, IInvIsTableInv, ReceiveShape, SpeaksLosesNobody
    <3>2. n > 0
      BY <1>1, <3>1, SwapLosesFirst
    <3>3. StopsAt(1, n, now)
      BY <3>1, <3>2 DEF Overflow
    <3>4. now' = now /\ now \in Nat
      BY <1>1, <2>1, TrackerAssumption DEF Receive, IInv, TypeOK, Time
    <3>5. CASE y = a
      BY <3>1, <3>4, <3>5, TrackerAssumption DEF Age
    <3>6. CASE y \in Survivors(n)
      BY <1>1, <3>1, <3>3, <3>4, <3>6, NoStaleBehind
    <3>. QED
      BY <1>1, <3>1, <3>5, <3>6 DEF Swaps
  <2>2. CASE Sweep
    <3>1. PICK n \in 0 .. Len(order) :
            Drops(n) /\ StopsAt(0, n, now) /\ \A x \in Survivors(n) : byIcao'[x] = byIcao[x]
      BY <1>1, <2>2, SweepShape
    <3>2. y \in Survivors(n) /\ now' = now
      BY <1>1, <2>2, <3>1 DEF Drops, Sweep
    <3>. QED
      BY <1>1, <3>1, <3>2, NoStaleBehind
  <2>3. CASE Tick
    BY <1>1, <2>3 DEF Tick, LostFirst
  <2>. QED
    BY <1>1, <2>1, <2>2, <2>3 DEF Next
<1>2. IInv /\ [Next]_vars => [LeavesNoneStale]_vars
  BY <1>1 DEF LostFirst, LeavesNoneStale
<1>. QED
  BY <1>2, InvariantHolds, PTL DEF Spec, SweepIsComplete

LEMMA NamedConcat ==
  ASSUME NEW s \in Seq(StateEvent), NEW t \in Seq(StateEvent),
         NEW k \in {"lost", "acquired"}
  PROVE  Named(s \o t, k) = Named(s, k) \cup Named(t, k)
<1> DEFINE u == s \o t
<1>1. /\ Len(u) = Len(s) + Len(t)
      /\ \A i \in 1 .. Len(s) : i \in 1 .. Len(u) /\ u[i] = s[i]
      /\ \A i \in 1 .. Len(t) : i + Len(s) \in 1 .. Len(u) /\ u[i + Len(s)] = t[i]
  OBVIOUS
<1>2. ASSUME NEW i \in 1 .. Len(u)
      PROVE  \/ i \in 1 .. Len(s) /\ u[i] = s[i]
             \/ i - Len(s) \in 1 .. Len(t) /\ u[i] = t[i - Len(s)]
  BY <1>1
<1> HIDE DEF u
<1>3. Named(u, k) \subseteq Named(s, k) \cup Named(t, k)
  BY <1>2 DEF Named
<1>4. Named(s, k) \subseteq Named(u, k)
  BY <1>1 DEF Named
<1>5. Named(t, k) \subseteq Named(u, k)
  BY <1>1 DEF Named
<1>. QED
  BY <1>3, <1>4, <1>5 DEF u

(* What the three parts of a swap's events name. *)
LEMMA NamedParts ==
  ASSUME order \in Seq(Icao), NEW n \in 0 .. Len(order), NEW a \in Icao,
         NEW kinds \in Seq(Kinds)
  PROVE  /\ Named(LostEvents(n), "lost") = {order[i] : i \in 1 .. n}
         /\ Named(LostEvents(n), "acquired") = {}
         /\ Named(<<Event("acquired", a)>>, "lost") = {}
         /\ Named(<<Event("acquired", a)>>, "acquired") = {a}
         /\ Named(EventsOf(a, kinds), "lost") = {}
         /\ Named(EventsOf(a, kinds), "acquired") = {}
<1>1. Len(LostEvents(n)) = n /\ \A i \in 1 .. n : LostEvents(n)[i] = Event("lost", order[i])
  BY DEF LostEvents
<1>2. /\ Len(EventsOf(a, kinds)) = Len(kinds)
      /\ \A i \in 1 .. Len(kinds) : EventsOf(a, kinds)[i].kind \in Kinds
  BY DEF EventsOf, Event
<1>3. /\ Named(LostEvents(n), "lost") = {order[i] : i \in 1 .. n}
      /\ Named(LostEvents(n), "acquired") = {}
  BY <1>1 DEF Named, Event
<1>4. /\ Named(<<Event("acquired", a)>>, "lost") = {}
      /\ Named(<<Event("acquired", a)>>, "acquired") = {a}
  BY DEF Named, Event
<1>5. /\ Named(EventsOf(a, kinds), "lost") = {}
      /\ Named(EventsOf(a, kinds), "acquired") = {}
  BY <1>2 DEF Named, Kinds
<1>. QED
  BY <1>3, <1>4, <1>5

LEMMA DroppedAreLost ==
  ASSUME IInv, NEW n \in 0 .. Len(order)
  PROVE  Survivors(n) = Tracked \ {order[i] : i \in 1 .. n}
<1>1. order \in Seq(Icao)
  BY DEF IInv, TypeOK
<1>2. ASSUME NEW x \in Survivors(n) PROVE x \in Tracked /\ \A i \in 1 .. n : order[i] # x
  <2>1. PICK j \in n + 1 .. Len(order) : order[j] = x
    BY DEF Survivors
  <2>2. j \in 1 .. Len(order) /\ \A i \in 1 .. n : i \in 1 .. Len(order) /\ i # j
    BY <1>1
  <2>. QED
    BY <2>1, <2>2 DEF IInv, TableWellFormed
<1>3. ASSUME NEW x \in Tracked, \A i \in 1 .. n : order[i] # x PROVE x \in Survivors(n)
  <2>1. PICK i \in 1 .. Len(order) : order[i] = x
    BY DEF IInv, TableWellFormed
  <2>2. i \in n + 1 .. Len(order)
    BY <1>1, <1>3, <2>1
  <2>. QED
    BY <2>1, <2>2 DEF Survivors
<1>. QED
  BY <1>2, <1>3

(* A consumer that adds what is acquired and removes what is lost holds the  *)
(* table's addresses after every call.                                       *)
THEOREM EventsMirrorTableHolds == Spec => EventsMirrorTable
<1>1. ASSUME IInv, Next PROVE MirrorsTable
  <2>1. order \in Seq(Icao)
    BY <1>1 DEF IInv, TypeOK
  <2>2. ASSUME NEW n, NEW a, NEW kinds, Swaps(n, a, kinds) PROVE MirrorsTable
    <3>1. n \in 0 .. Len(order) /\ a \in Icao /\ kinds \in Seq(Kinds)
      BY <2>2 DEF Swaps
    <3>2. /\ LostEvents(n) \in Seq(StateEvent)
          /\ <<Event("acquired", a)>> \in Seq(StateEvent)
          /\ EventsOf(a, kinds) \in Seq(StateEvent)
      <4>1. Event("acquired", a) \in StateEvent
        BY <3>1 DEF Event, StateEvent
      <4>. QED
        BY <2>1, <3>1, <4>1, LostType, EventsType
    <3>3. \A k \in {"lost", "acquired"} :
             Named(out', k) = Named(LostEvents(n), k) \cup Named(<<Event("acquired", a)>>, k)
                                \cup Named(EventsOf(a, kinds), k)
      <4> DEFINE gone == LostEvents(n)
                 new == <<Event("acquired", a)>>
                 rest == EventsOf(a, kinds)
      <4>1. gone \in Seq(StateEvent) /\ new \in Seq(StateEvent) /\ rest \in Seq(StateEvent)
        BY <3>2
      <4> DEFINE tail == new \o rest
      <4>2. out' = gone \o tail /\ tail \in Seq(StateEvent)
        BY <2>2, <4>1 DEF Swaps
      <4>3. TAKE k \in {"lost", "acquired"}
      <4> HIDE DEF gone, new, rest
      <4>4. Named(tail, k) = Named(new, k) \cup Named(rest, k)
        BY <4>1, NamedConcat
      <4> HIDE DEF tail
      <4>5. Named(gone \o tail, k) = Named(gone, k) \cup Named(tail, k)
        BY <4>1, <4>2, NamedConcat
      <4>. QED
        BY <4>2, <4>4, <4>5 DEF gone, new, rest
    <3>4. /\ Named(out', "lost") = {order[i] : i \in 1 .. n}
          /\ Named(out', "acquired") = {a}
      BY <2>1, <3>1, <3>3, NamedParts
    <3>. QED
      BY <1>1, <2>2, <3>1, <3>4, DroppedAreLost DEF Swaps, MirrorsTable
  <2>3. ASSUME NEW n, Drops(n) PROVE MirrorsTable
    <3>1. Named(out', "lost") = {order[i] : i \in 1 .. n} /\ Named(out', "acquired") = {}
      <4>1. Len(out') = n /\ \A i \in 1 .. n : out'[i] = Event("lost", order[i])
        BY <2>1, <2>3 DEF Drops, LostEvents
      <4>. QED
        BY <4>1 DEF Named, Event
    <3>. QED
      BY <1>1, <2>3, <3>1, DroppedAreLost DEF Drops, MirrorsTable
  <2>4. ASSUME Keeps, Speaks PROVE MirrorsTable
    <3>1. \A k \in {"lost", "acquired"} : Named(out', k) = {}
      <4>1. CASE out' = <<>>
        BY <4>1 DEF Named
      <4>2. CASE out' = <<Event("orphan", None)>>
        BY <4>2 DEF Named, Event
      <4>3. ASSUME NEW a \in Icao, NEW kinds \in Seq(Kinds), out' = EventsOf(a, kinds)
            PROVE  \A k \in {"lost", "acquired"} : Named(out', k) = {}
        <5>1. \A i \in 1 .. Len(out') : out'[i].kind \in Kinds
          BY <4>3 DEF EventsOf, Event
        <5>. QED
          BY <5>1 DEF Named, Kinds
      <4>. QED
        BY <2>4, <4>1, <4>2, <4>3 DEF Speaks
    <3>. QED
      BY <2>4, <3>1 DEF Keeps, MirrorsTable
  <2>5. CASE Tick
    BY <2>4, <2>5, QuietShape DEF Tick, Speaks
  <2>. QED
    BY <1>1, <2>2, <2>3, <2>4, <2>5, IInvIsTableInv, ReceiveShape, SweepShape DEF Next
<1>2. IInv /\ [Next]_vars => [MirrorsTable]_vars
  BY <1>1
<1>. QED
  BY <1>2, InvariantHolds, PTL DEF Spec, EventsMirrorTable

-----------------------------------------------------------------------------
(*                               The decoder                               *)

-----------------------------------------------------------------------------
(* The inductive invariant: what the events still to be published owe to a *)
(* snapshot of the addresses S beside a table of the addresses T.          *)

(* An event is about x. *)
Names(s, x) == \E i \in 1 .. Len(s) : s[i].icao = x

(* The i-th event finds its aircraft as it must: a loss is of an aircraft that  *)
(* is shown and no longer tracked, and comes before everything else; the one   *)
(* newcomer is tracked and not shown yet, and only losses come before it; and  *)
(* an update is of a tracked aircraft that is shown or is acquired before it.  *)
Fits(s, i, S, T) ==
  /\ s[i].kind = "lost" =>
       /\ s[i].icao \in S \ T
       /\ \A j \in 1 .. i - 1 : s[j].kind = "lost" /\ s[j].icao # s[i].icao
  /\ s[i].kind = "acquired" =>
       /\ s[i].icao \in T \ S
       /\ \A j \in 1 .. i - 1 : s[j].kind = "lost"
  /\ s[i].kind \in Kinds =>
       /\ s[i].icao \in T
       /\ s[i].icao \in S \/ \E j \in 1 .. i - 1 : s[j] = Event("acquired", s[i].icao)

(* Every difference between S and T has its event. *)
Tells(s, S, T) ==
  /\ \A i \in 1 .. Len(s) : Fits(s, i, S, T)
  /\ \A x \in S \ T : \E i \in 1 .. Len(s) : s[i] = Event("lost", x)
  /\ \A x \in T \ S : \E i \in 1 .. Len(s) : s[i] = Event("acquired", x)

(* The fields of a summary that no frame changes without an event. *)
SameAs(sm, ac) ==
  /\ sm.callsign = ac.callsign
  /\ sm.position = ac.position
  /\ sm.velocity = ac.velocity

(* A summary is up to date or about to be refreshed. *)
Owed(s, snap, m) ==
  \A x \in DOMAIN snap \cap DOMAIN m : SameAs(snap[x], m[x]) \/ Names(s, x)

DecoderInv ==
  /\ TableInv(order, byIcao)
  /\ now \in Time /\ chunks \in 0 .. MaxChunks
  /\ out \in Seq(StateEvent)
  /\ IsFiniteSet(Shown) /\ Cardinality(Shown) <= Capacity
  /\ Tells(out, Shown, Tracked)
  /\ Owed(out, snapshot, byIcao)

-----------------------------------------------------------------------------
(* Publishing one event *)

(* The snapshot's addresses after the event e. *)
ShownAfter(S, e) ==
  IF e.kind = "lost" THEN S \ {e.icao}
  ELSE IF e.kind = "orphan" THEN S
  ELSE S \cup {e.icao}

LEMMA TailFacts ==
  ASSUME NEW s \in Seq(StateEvent), s # <<>>
  PROVE  /\ Len(s) \in Nat /\ Len(s) > 0
         /\ Tail(s) \in Seq(StateEvent)
         /\ Len(Tail(s)) = Len(s) - 1
         /\ \A i \in 1 .. Len(Tail(s)) : i + 1 \in 1 .. Len(s) /\ Tail(s)[i] = s[i + 1]
         /\ Head(s) = s[1] /\ s[1] \in StateEvent
OBVIOUS

LEMMA EventKind ==
  ASSUME NEW e \in StateEvent
  PROVE  /\ e.kind \in Kinds \cup {"acquired", "lost", "orphan"}
         /\ e.kind # "orphan" => e.icao \in Icao /\ e = Event(e.kind, e.icao)
         /\ e.kind = "orphan" => e.icao = None
BY DEF StateEvent, Kinds, Event

(* What the first event tells of its aircraft. *)
LEMMA HeadFits ==
  ASSUME NEW s \in Seq(StateEvent), s # <<>>, NEW S, NEW T, Tells(s, S, T)
  PROVE  /\ s[1].kind = "lost" => s[1].icao \in S \ T
         /\ s[1].kind = "acquired" => s[1].icao \in T \ S
         /\ s[1].kind \in Kinds => s[1].icao \in S \cap T
<1>1. 1 \in 1 .. Len(s) /\ ~ \E j \in 1 .. 1 - 1 : TRUE
  BY TailFacts
<1>. QED
  BY <1>1 DEF Tells, Fits

(* The rest of the events tells the rest of the story. *)
LEMMA TellsTail ==
  ASSUME NEW s \in Seq(StateEvent), s # <<>>, NEW S, NEW T, Tells(s, S, T)
  PROVE  Tells(Tail(s), ShownAfter(S, s[1]), T)
<1> DEFINE t == Tail(s)
           S2 == ShownAfter(S, s[1])
<1>1. /\ Len(s) \in Nat /\ Len(s) > 0 /\ Len(t) = Len(s) - 1
      /\ \A i \in 1 .. Len(t) : i + 1 \in 1 .. Len(s) /\ t[i] = s[i + 1]
      /\ s[1] \in StateEvent
  BY TailFacts
<1>2. s[1].kind \in Kinds \cup {"acquired", "lost", "orphan"}
  BY <1>1, EventKind
<1>3. \A x \in S2 : x \in S \/ (s[1].kind = "acquired" /\ x = s[1].icao)
  BY <1>2, HeadFits DEF ShownAfter
<1>4. \A x \in S : x \in S2 \/ (s[1].kind = "lost" /\ x = s[1].icao)
  BY DEF ShownAfter
<1>5. s[1].kind = "acquired" => s[1].icao \in S2
  BY DEF ShownAfter
<1>6. s[1].kind = "lost" => s[1].icao \notin S2
  BY DEF ShownAfter
<1> HIDE DEF t, S2
<1>7. ASSUME NEW i \in 1 .. Len(t) PROVE Fits(t, i, S2, T)
  <2>1. i + 1 \in 1 .. Len(s) /\ t[i] = s[i + 1] /\ Fits(s, i + 1, S, T) /\ 1 \in 1 .. (i + 1) - 1
    BY <1>1 DEF Tells
  <2>2. \A j \in 1 .. i - 1 : j + 1 \in 1 .. (i + 1) - 1 /\ t[j] = s[j + 1]
    BY <1>1
  <2>3. ASSUME t[i].kind = "lost"
        PROVE  /\ t[i].icao \in S2 \ T
               /\ \A j \in 1 .. i - 1 : t[j].kind = "lost" /\ t[j].icao # t[i].icao
    BY <1>4, <2>1, <2>2, <2>3 DEF Fits
  <2>4. ASSUME t[i].kind = "acquired"
        PROVE  t[i].icao \in T \ S2 /\ \A j \in 1 .. i - 1 : t[j].kind = "lost"
    BY <1>3, <2>1, <2>2, <2>4 DEF Fits
  <2>5. ASSUME t[i].kind \in Kinds
        PROVE  /\ t[i].icao \in T
               /\ \/ t[i].icao \in S2
                  \/ \E j \in 1 .. i - 1 : t[j] = Event("acquired", t[i].icao)
    <3>1. t[i].icao \in T
      BY <2>1, <2>5 DEF Fits
    <3>2. CASE t[i].icao \in S
      BY <1>4, <3>1, <3>2, HeadFits
    <3>3. CASE \E j \in 1 .. (i + 1) - 1 : s[j] = Event("acquired", t[i].icao)
      <4>1. PICK j \in 1 .. (i + 1) - 1 : s[j] = Event("acquired", t[i].icao)
        BY <3>3
      <4>2. CASE j = 1
        BY <1>5, <3>1, <4>1, <4>2 DEF Event
      <4>3. CASE j # 1
        <5>1. j - 1 \in 1 .. i - 1 /\ t[j - 1] = s[j]
          BY <2>2, <4>3
        <5>. QED
          BY <3>1, <4>1, <5>1
      <4>. QED
        BY <4>2, <4>3
    <3>. QED
      BY <2>1, <2>5, <3>2, <3>3 DEF Fits
  <2>. QED
    BY <2>3, <2>4, <2>5 DEF Fits
<1>8. ASSUME NEW x \in S2 \ T PROVE \E i \in 1 .. Len(t) : t[i] = Event("lost", x)
  <2>1. x \in S \ T
    BY <1>3, <1>8, HeadFits
  <2>2. PICK i \in 1 .. Len(s) : s[i] = Event("lost", x)
    BY <2>1 DEF Tells
  <2>3. i # 1
    BY <1>6, <1>8, <2>2 DEF Event
  <2>4. i - 1 \in 1 .. Len(t) /\ t[i - 1] = s[(i - 1) + 1]
    BY <1>1, <2>3
  <2>. QED
    BY <2>2, <2>4
<1>9. ASSUME NEW x \in T \ S2 PROVE \E i \in 1 .. Len(t) : t[i] = Event("acquired", x)
  <2>1. x \in T \ S
    BY <1>4, <1>9, HeadFits
  <2>2. PICK i \in 1 .. Len(s) : s[i] = Event("acquired", x)
    BY <2>1 DEF Tells
  <2>3. i # 1
    BY <1>5, <1>9, <2>2 DEF Event
  <2>4. i - 1 \in 1 .. Len(t) /\ t[i - 1] = s[(i - 1) + 1]
    BY <1>1, <2>3
  <2>. QED
    BY <2>2, <2>4
<1>. QED
  BY <1>7, <1>8, <1>9 DEF Tells, t, S2

(* The table's addresses are finitely many, and within the capacity. *)
LEMMA TableSmall ==
  ASSUME TableInv(order, byIcao)
  PROVE  IsFiniteSet(Tracked) /\ Cardinality(Tracked) <= Capacity
<1> DEFINE I == 1 .. Len(order)
           f == [i \in I |-> order[i]]
<1>1. Len(order) \in Nat /\ Len(order) <= Capacity /\ Tracked = {order[i] : i \in I}
  BY DEF TableInv, Tracked
<1>2. IsFiniteSet(I) /\ Cardinality(I) = Len(order)
  BY <1>1, FS_Interval
<1>3. f \in Surjection(I, Tracked)
  BY <1>1 DEF Surjection
<1>4. IsFiniteSet(Tracked) /\ Cardinality(Tracked) <= Cardinality(I)
  BY <1>2, <1>3, FS_Surjection
<1>5. Cardinality(Tracked) \in Nat
  BY <1>4, FS_CardinalityType
<1>. QED
  BY <1>1, <1>2, <1>4, <1>5, TrackerAssumption

(* What publishing leaves of the snapshot. *)
LEMMA RefreshedFacts ==
  ASSUME NEW e \in StateEvent,
         e.kind = "acquired" => e.icao \in Tracked,
         e.kind \in Kinds => e.icao \in Tracked
  PROVE  /\ DOMAIN Refreshed(e) = ShownAfter(Shown, e)
         /\ \A x \in DOMAIN Refreshed(e) :
              IF e.kind # "orphan" /\ x = e.icao
              THEN Refreshed(e)[x] = Summary(byIcao[x])
              ELSE x \in Shown /\ Refreshed(e)[x] = snapshot[x]
<1>1. e.kind \in Kinds \cup {"acquired", "lost", "orphan"}
  BY EventKind
<1>2. CASE e.kind = "orphan"
  BY <1>2 DEF Refreshed, ShownAfter, Shown
<1>3. CASE e.kind = "lost"
  <2>1. Refreshed(e) = Remove(e.icao)
    BY <1>3 DEF Refreshed
  <2>. QED
    BY <1>3, <2>1 DEF Remove, ShownAfter
<1>4. CASE e.kind # "orphan" /\ e.kind # "lost"
  <2>1. Refreshed(e) = Put(e.icao)
    BY <1>1, <1>4 DEF Refreshed
  <2>. QED
    BY <1>4, <2>1 DEF Put, ShownAfter
<1>. QED
  BY <1>2, <1>3, <1>4

(* Once the newcomer is announced nothing is left to lose, so a snapshot that *)
(* shows it shows nobody whom the table does not hold.                        *)
LEMMA AcquiredFits ==
  ASSUME NEW s \in Seq(StateEvent), s # <<>>, NEW S, NEW T, Tells(s, S, T),
         s[1].kind = "acquired"
  PROVE  S \cup {s[1].icao} \subseteq T
<1>1. Len(s) \in Nat /\ 1 \in 1 .. Len(s)
  BY TailFacts
<1>2. ASSUME NEW x \in S \ T PROVE FALSE
  <2>1. PICK i \in 1 .. Len(s) : s[i] = Event("lost", x)
    BY DEF Tells
  <2>2. Fits(s, i, S, T) /\ s[i].kind = "lost"
    BY <2>1 DEF Tells, Event
  <2>3. i # 1
    BY <2>2
  <2>4. 1 \in 1 .. i - 1
    BY <1>1, <2>3
  <2>. QED
    BY <2>2, <2>4 DEF Fits
<1>. QED
  BY <1>2, HeadFits

LEMMA PublishInv == DecoderInv /\ Publish => DecoderInv'
<1> SUFFICES ASSUME DecoderInv, Publish PROVE DecoderInv'
  OBVIOUS
<1> DEFINE e == out[1]
<1>1. /\ TableInv(order, byIcao)' /\ now' \in Time /\ chunks' \in 0 .. MaxChunks
      /\ Tracked' = Tracked
  BY DEF DecoderInv, Publish, Tracked
<1>2. /\ out \in Seq(StateEvent) /\ out # <<>> /\ out' = Tail(out) /\ snapshot' = Refreshed(e)
      /\ Tells(out, Shown, Tracked)
  BY TailFacts DEF DecoderInv, Publish
<1>3. e \in StateEvent /\ Tail(out) \in Seq(StateEvent)
  BY <1>2, TailFacts
<1>4. /\ e.kind = "lost" => e.icao \in Shown \ Tracked
      /\ e.kind = "acquired" => e.icao \in Tracked \ Shown
      /\ e.kind \in Kinds => e.icao \in Shown \cap Tracked
  BY <1>2, HeadFits
<1>5. e.kind \in Kinds \cup {"acquired", "lost", "orphan"}
  BY <1>3, EventKind
<1>6. /\ Shown' = ShownAfter(Shown, e)
      /\ \A x \in Shown' :
           IF e.kind # "orphan" /\ x = e.icao
           THEN snapshot'[x] = Summary(byIcao[x])
           ELSE x \in Shown /\ snapshot'[x] = snapshot[x]
  BY <1>2, <1>3, <1>4, RefreshedFacts DEF Shown
<1>7. Tells(out', Shown', Tracked')
  BY <1>1, <1>2, <1>6, TellsTail
<1>8. IsFiniteSet(Shown') /\ Cardinality(Shown') <= Capacity
  <2>1. CASE e.kind = "acquired"
    <3>1. Shown' \subseteq Tracked
      BY <1>2, <1>6, <2>1, AcquiredFits DEF ShownAfter
    <3>2. IsFiniteSet(Tracked) /\ Cardinality(Tracked) <= Capacity
      BY TableSmall DEF DecoderInv
    <3>3. IsFiniteSet(Shown') /\ Cardinality(Shown') <= Cardinality(Tracked)
      BY <3>1, <3>2, FS_Subset
    <3>4. Cardinality(Shown') \in Nat /\ Cardinality(Tracked) \in Nat
      BY <3>2, <3>3, FS_CardinalityType
    <3>. QED
      BY <3>2, <3>3, <3>4, TrackerAssumption
  <2>2. CASE e.kind # "acquired"
    <3>1. Shown' \subseteq Shown
      BY <1>4, <1>5, <1>6, <2>2 DEF ShownAfter
    <3>2. IsFiniteSet(Shown) /\ Cardinality(Shown) <= Capacity
      BY DEF DecoderInv
    <3>3. IsFiniteSet(Shown') /\ Cardinality(Shown') <= Cardinality(Shown)
      BY <3>1, <3>2, FS_Subset
    <3>4. Cardinality(Shown') \in Nat /\ Cardinality(Shown) \in Nat
      BY <3>2, <3>3, FS_CardinalityType
    <3>. QED
      BY <3>2, <3>3, <3>4, TrackerAssumption
  <2>. QED
    BY <2>1, <2>2
<1>9. ASSUME NEW x \in Shown' \cap Tracked PROVE SameAs(snapshot'[x], byIcao[x]) \/ Names(out', x)
  <2>1. CASE e.kind # "orphan" /\ x = e.icao
    <3>1. snapshot'[x] = Summary(byIcao[x])
      BY <1>6, <1>9, <2>1
    <3>. QED
      BY <3>1 DEF SameAs, Summary
  <2>2. CASE ~ (e.kind # "orphan" /\ x = e.icao)
    <3>1. x \in Shown \cap Tracked /\ snapshot'[x] = snapshot[x]
      BY <1>6, <1>9, <2>2
    <3>2. SameAs(snapshot[x], byIcao[x]) \/ Names(out, x)
      BY <3>1 DEF DecoderInv, Owed, Shown, Tracked
    <3>3. ASSUME Names(out, x) PROVE Names(out', x)
      <4>1. PICK i \in 1 .. Len(out) : out[i].icao = x
        BY <3>3 DEF Names
      <4>2. x # None
        BY <3>1, TrackerAssumption DEF DecoderInv, TableInv, Tracked
      <4>3. i # 1
        BY <1>3, <2>2, <4>1, <4>2, EventKind
      <4>4. i - 1 \in 1 .. Len(Tail(out)) /\ Tail(out)[i - 1] = out[(i - 1) + 1]
        BY <1>2, <4>3, TailFacts
      <4>. QED
        BY <1>2, <4>1, <4>4 DEF Names
    <3>. QED
      BY <3>1, <3>2, <3>3
  <2>. QED
    BY <2>1, <2>2
<1>10. Owed(out', snapshot', byIcao')
  <2>1. byIcao' = byIcao
    BY DEF Publish
  <2>. QED
    BY <1>9, <2>1 DEF Owed, Shown, Tracked
<1>. QED
  BY <1>1, <1>2, <1>3, <1>7, <1>8, <1>10 DEF DecoderInv

-----------------------------------------------------------------------------
(* One frame *)

(* A result without events leaves what a summary shows, other than category and *)
(* counters, as it was.                                                         *)
Quiet(ac, r) == r.kinds = <<>> => SameAs(ac, r.ac)

LEMMA LocalFixQuiet ==
  ASSUME NEW ac, NEW at
  PROVE  Quiet(ac, LocalFix(ac, at))
<1>1. \A e, o : Quiet(ac, Fix(ac, at, "local", e, o))
  BY DEF Quiet, Fix, Result
<1>2. Quiet(ac, Result(ac, <<>>))
  BY DEF Quiet, Result, SameAs
<1>. QED
  BY <1>1, <1>2 DEF LocalFix

LEMMA ResolvePositionQuiet ==
  ASSUME NEW ac \in Aircraft, NEW at
  PROVE  Quiet(ac, ResolvePosition(ac, at))
<1> DEFINE noEven == [ac EXCEPT !.even = None]
           noOdd  == [ac EXCEPT !.odd = None]
           none   == [ac EXCEPT !.even = None, !.odd = None]
<1>1. SameAs(ac, noEven) /\ SameAs(ac, noOdd) /\ SameAs(ac, none)
  BY DEF Aircraft, SameAs
<1>2. /\ Quiet(noEven, LocalFix(noEven, at)) /\ Quiet(noOdd, LocalFix(noOdd, at))
      /\ Quiet(none, LocalFix(none, at)) /\ Quiet(ac, LocalFix(ac, at))
  BY LocalFixQuiet
<1>3. Quiet(ac, Fix(ac, at, "global", ac.even, ac.odd))
  BY DEF Quiet, Fix, Result
<1>4. DropOlder(ac) \in {noEven, noOdd}
  BY DEF DropOlder
<1>5. ResolvePosition(ac, at) \in {LocalFix(ac, at), LocalFix(noEven, at), LocalFix(noOdd, at),
                                   LocalFix(none, at), Fix(ac, at, "global", ac.even, ac.odd)}
  BY <1>4 DEF ResolvePosition
<1> HIDE DEF noEven, noOdd, none
<1>. QED
  BY <1>1, <1>2, <1>3, <1>5 DEF Quiet, SameAs

LEMMA AirborneQuiet ==
  ASSUME NEW ac \in Aircraft, NEW at \in Time,
         NEW p \in [kind : {"airborne"}, odd : BOOLEAN, cpr : Cpr]
  PROVE  Quiet(ac, ApplyAirborne(ac, p, at))
<1> DEFINE half == [at |-> at, cpr |-> p.cpr]
           withOdd  == [ac EXCEPT !.odd = half]
           withEven == [ac EXCEPT !.even = half]
<1>1. half \in Halves
  BY DEF Halves, Half
<1>2. withOdd \in Aircraft /\ withEven \in Aircraft
  BY <1>1 DEF Aircraft
<1>3. SameAs(ac, withOdd) /\ SameAs(ac, withEven)
  BY DEF Aircraft, SameAs
<1>4. ApplyAirborne(ac, p, at) \in {ResolvePosition(withOdd, at), ResolvePosition(withEven, at)}
  BY DEF ApplyAirborne
<1>5. Quiet(withOdd, ResolvePosition(withOdd, at)) /\ Quiet(withEven, ResolvePosition(withEven, at))
  BY <1>2, ResolvePositionQuiet
<1> HIDE DEF withOdd, withEven
<1>. QED
  BY <1>3, <1>4, <1>5 DEF Quiet, SameAs

LEMMA SurfaceQuiet ==
  ASSUME NEW ac \in Aircraft, NEW at \in Time,
         NEW p \in [kind : {"surface"}, velocity : Velocity \cup {None}]
  PROVE  Quiet(ac, ApplySurface(ac, p, at))
<1> DEFINE moved == [ac EXCEPT !.velocity = p.velocity]
<1>1. \A c, v : Fix(c, at, "surface", None, None).kinds = <<"position">>
  BY DEF Fix, Result
<1>2. /\ <<"velocity">> \o <<"position">> # <<>> /\ <<>> \o <<"position">> # <<>>
      /\ <<"velocity">> # <<>>
  OBVIOUS
<1>3. CASE HasReference
  BY <1>1, <1>2, <1>3 DEF Quiet, ApplySurface, Result
<1>4. CASE ~ HasReference
  BY <1>2, <1>4 DEF Quiet, ApplySurface, Result, SameAs
<1>. QED
  BY <1>3, <1>4

LEMMA HearQuiet ==
  ASSUME NEW ac \in Aircraft, NEW at \in Time, NEW f \in Frames,
         f.crc = "failed" \/ f.icao # None
  PROVE  Quiet(ac, Hear(ac, f, at))
<1> DEFINE ac2 == Touch(ac, f, at)
           p == f.payload
<1>1. f \in FrameType
  BY TrackerAssumption
<1>2. Tally(ac.counters, f.crc) \in Counters
  BY DEF Tally, Aircraft, Counters
<1>3. ac2 \in Aircraft /\ SameAs(ac, ac2)
  BY <1>2 DEF Touch, Aircraft, SameAs
<1> HIDE DEF ac2
<1>4. CASE f.crc = "failed"
  BY <1>4 DEF Hear, Result, Quiet
<1>5. CASE f.crc # "failed"
  <2>1. p \in Payload
    BY <1>1, <1>5 DEF FrameType
  <2>2. Quiet(ac2, Apply(ac2, p, at))
    <3>1. CASE p.kind = "airborne"
      <4>1. p \in [kind : {"airborne"}, odd : BOOLEAN, cpr : Cpr]
        BY <2>1, <3>1 DEF Payload
      <4>. QED
        BY <1>3, <3>1, <4>1, AirborneQuiet DEF Apply
    <3>2. CASE p.kind = "surface"
      <4>1. p \in [kind : {"surface"}, velocity : Velocity \cup {None}]
        BY <2>1, <3>2 DEF Payload
      <4>. QED
        BY <1>3, <3>2, <4>1, SurfaceQuiet DEF Apply
    <3>3. CASE p.kind = "ident"
      <4>1. Quiet(ac2, ApplyIdent(ac2, p))
        BY <1>3 DEF ApplyIdent, Result, Quiet, SameAs, Aircraft
      <4>. QED
        BY <3>3, <4>1 DEF Apply
    <3>4. CASE p.kind = "velocity"
      <4>1. Quiet(ac2, ApplyVelocity(ac2, p))
        BY DEF ApplyVelocity, Result, Quiet
      <4>. QED
        BY <3>4, <4>1 DEF Apply
    <3>5. CASE p.kind \notin {"airborne", "surface", "ident", "velocity"}
      <4>1. Quiet(ac2, Result(ac2, <<>>))
        BY DEF Quiet, Result, SameAs
      <4>2. Apply(ac2, p, at) = Result(ac2, <<>>)
        BY <3>5 DEF Apply
      <4>. QED
        BY <4>1, <4>2
    <3>. QED
      BY <3>1, <3>2, <3>3, <3>4, <3>5
  <2>3. Hear(ac, f, at) = Apply(ac2, p, at)
    BY <1>5 DEF Hear, ac2
  <2>. QED
    BY <1>3, <2>2, <2>3 DEF Quiet, SameAs
<1>. QED
  BY <1>4, <1>5

(* Events about one tracked aircraft that is shown tell no other change. *)
LEMMA UpdatesTell ==
  ASSUME NEW T, NEW a \in T, NEW kinds \in Seq(Kinds)
  PROVE  Tells(EventsOf(a, kinds), T, T)
<1> DEFINE s == EventsOf(a, kinds)
<1>1. \A i \in 1 .. Len(s) : s[i].kind \in Kinds /\ s[i].icao = a
  BY DEF EventsOf, Event
<1> HIDE DEF s
<1>2. \A i \in 1 .. Len(s) : Fits(s, i, T, T)
  BY <1>1 DEF Fits, Kinds
<1>. QED
  BY <1>2 DEF Tells, s

(* w is l, then the one element of q, then u. *)
IsThree(w, l, q, u) ==
  /\ Len(w) = Len(l) + 1 + Len(u)
  /\ \A i \in 1 .. Len(l) : w[i] = l[i]
  /\ w[Len(l) + 1] = q[1]
  /\ \A i \in 1 .. Len(u) : w[Len(l) + 1 + i] = u[i]

Three(l, q, u) == l \o q \o u

LEMMA ThreeFacts ==
  ASSUME NEW E, NEW l \in Seq(E), NEW q \in Seq(E), NEW u \in Seq(E), Len(q) = 1
  PROVE  Three(l, q, u) \in Seq(E) /\ IsThree(Three(l, q, u), l, q, u)
<1>1. /\ l \o q \in Seq(E) /\ Len(l \o q) = Len(l) + Len(q)
      /\ \A i \in 1 .. Len(l) + Len(q) :
           (l \o q)[i] = IF i <= Len(l) THEN l[i] ELSE q[i - Len(l)]
  BY ConcatProperties
<1> DEFINE lq == l \o q
<1>2. Len(l) \in Nat /\ Len(u) \in Nat
  BY LenProperties
<1>3. /\ lq \in Seq(E) /\ Len(lq) = Len(l) + 1
      /\ \A i \in 1 .. Len(l) : lq[i] = l[i]
      /\ lq[Len(l) + 1] = q[1]
  BY <1>1, <1>2
<1> HIDE DEF lq
<1>4. /\ lq \o u \in Seq(E) /\ Len(lq \o u) = Len(lq) + Len(u)
      /\ \A i \in 1 .. Len(lq) + Len(u) :
           (lq \o u)[i] = IF i <= Len(lq) THEN lq[i] ELSE u[i - Len(lq)]
  BY <1>3, ConcatProperties
<1> DEFINE all == lq \o u
<1>5. all = Three(l, q, u)
  BY DEF lq, Three
<1> HIDE DEF all
<1>6. /\ all \in Seq(E) /\ Len(all) = Len(l) + 1 + Len(u)
      /\ \A i \in 1 .. Len(l) + 1 + Len(u) :
           all[i] = IF i <= Len(l) + 1 THEN lq[i] ELSE u[i - (Len(l) + 1)]
  BY <1>2, <1>3, <1>4 DEF all
<1>7. \A i \in 1 .. Len(l) : all[i] = l[i]
  BY <1>2, <1>3, <1>6
<1>8. all[Len(l) + 1] = q[1]
  BY <1>2, <1>3, <1>6
<1>9. ASSUME NEW i \in 1 .. Len(u) PROVE all[Len(l) + 1 + i] = u[i]
  <2>1. /\ Len(l) + 1 + i \in 1 .. Len(l) + 1 + Len(u)
        /\ ~ (Len(l) + 1 + i <= Len(l) + 1)
        /\ Len(l) + 1 + i - (Len(l) + 1) = i
    BY <1>2
  <2>. QED
    BY <1>6, <2>1
<1>. QED
  BY <1>5, <1>6, <1>7, <1>8, <1>9 DEF IsThree

LEMMA EventFields ==
  ASSUME NEW k, NEW x
  PROVE  Event(k, x).kind = k /\ Event(k, x).icao = x
BY DEF Event

(* The events of an insertion, one by one. *)
Inserted(n, a, kinds) == Three(LostEvents(n), <<Event("acquired", a)>>, EventsOf(a, kinds))

(* What such a sequence looks like: n losses, the newcomer a, its updates. *)
IsInserted(s, n, a) ==
  /\ s \in Seq(StateEvent) /\ Len(s) \in Nat
  /\ n \in Nat /\ n + 1 \in 1 .. Len(s)
  /\ \A i \in 1 .. n : i \in 1 .. Len(s) /\ s[i] = Event("lost", order[i])
  /\ s[n + 1] = Event("acquired", a)
  /\ \A i \in n + 2 .. Len(s) : s[i].kind \in Kinds /\ s[i].icao = a

LEMMA InsertedFacts ==
  ASSUME order \in Seq(Icao), NEW n \in 0 .. Len(order), NEW a \in Icao, NEW kinds \in Seq(Kinds)
  PROVE  IsInserted(Inserted(n, a, kinds), n, a)
<1> DEFINE l == LostEvents(n)
           q == <<Event("acquired", a)>>
           u == EventsOf(a, kinds)
           s == Inserted(n, a, kinds)
<1>1. /\ l \in Seq(StateEvent) /\ Len(l) = n /\ n \in Nat
      /\ \A i \in 1 .. n : l[i] = Event("lost", order[i])
  BY LostType DEF LostEvents
<1>2. q \in Seq(StateEvent) /\ Len(q) = 1 /\ q[1] = Event("acquired", a)
  BY DEF Event, StateEvent
<1>3. /\ u \in Seq(StateEvent) /\ Len(u) \in Nat
      /\ \A i \in 1 .. Len(u) : u[i].kind \in Kinds /\ u[i].icao = a
  BY EventsType DEF EventsOf, Event
<1>4. s = Three(l, q, u)
  BY DEF Inserted
<1> HIDE DEF l, q, u, s
<1>5. s \in Seq(StateEvent) /\ IsThree(s, l, q, u)
  BY <1>1, <1>2, <1>3, <1>4, ThreeFacts
<1>6. /\ Len(s) = n + 1 + Len(u)
      /\ \A i \in 1 .. n : s[i] = l[i]
      /\ s[n + 1] = q[1]
      /\ \A i \in 1 .. Len(u) : s[n + 1 + i] = u[i]
  BY <1>1, <1>5, Zenon DEF IsThree
<1>7. \A i \in 1 .. n : i \in 1 .. Len(s) /\ s[i] = Event("lost", order[i])
  BY <1>1, <1>3, <1>6
<1>8. ASSUME NEW i \in n + 2 .. Len(s) PROVE s[i].kind \in Kinds /\ s[i].icao = a
  <2>1. i - (n + 1) \in 1 .. Len(u) /\ n + 1 + (i - (n + 1)) = i
    BY <1>1, <1>3, <1>6
  <2>. QED
    <3>1. s[i] = u[i - (n + 1)]
      BY <1>6, <2>1, Zenon
    <3>. QED
      BY <1>3, <2>1, <3>1
<1>9. Len(s) \in Nat /\ n \in Nat /\ n + 1 \in 1 .. Len(s) /\ s[n + 1] = Event("acquired", a)
  BY <1>1, <1>2, <1>3, <1>6
<1>. QED
  BY <1>5, <1>6, <1>7, <1>8, <1>9 DEF s, IsInserted

(* Those events tell the change of the table. *)
LEMMA InsertedTells ==
  ASSUME TableInv(order, byIcao), NEW n \in 0 .. Len(order), NEW a \in Icao \ Tracked,
         NEW kinds \in Seq(Kinds)
  PROVE  /\ Inserted(n, a, kinds) \in Seq(StateEvent)
         /\ Tells(Inserted(n, a, kinds), Tracked, Survivors(n) \cup {a})
<1> DEFINE T == Survivors(n) \cup {a}
           s == Inserted(n, a, kinds)
<1>1. /\ order \in Seq(Icao) /\ \A i, j \in 1 .. Len(order) : order[i] = order[j] => i = j
      /\ Tracked = {order[i] : i \in 1 .. Len(order)} /\ Len(order) \in Nat
  BY DEF TableInv, Tracked
<1>2. IsInserted(s, n, a)
  BY <1>1, InsertedFacts
<1> HIDE DEF s
<1>3. ASSUME NEW x \in Survivors(n) PROVE x \in Tracked /\ \A i \in 1 .. n : order[i] # x
  <2>1. PICK j \in n + 1 .. Len(order) : order[j] = x
    BY DEF Survivors
  <2>2. j \in 1 .. Len(order) /\ \A i \in 1 .. n : i \in 1 .. Len(order) /\ i # j
    BY <1>1
  <2>. QED
    BY <1>1, <2>1, <2>2
<1>4. ASSUME NEW x \in Tracked, x \notin T PROVE \E i \in 1 .. n : order[i] = x
  <2>1. PICK i \in 1 .. Len(order) : order[i] = x
    BY <1>1
  <2>2. i \notin n + 1 .. Len(order)
    BY <1>4, <2>1 DEF Survivors
  <2>. QED
    BY <1>1, <2>1, <2>2
<1>5. ASSUME NEW i \in 1 .. Len(s) PROVE Fits(s, i, Tracked, T)
  <2>1. CASE i \in 1 .. n
    <3>1. i \in 1 .. Len(order) /\ s[i] = Event("lost", order[i])
      BY <1>1, <1>2, <2>1 DEF IsInserted
    <3>2. s[i].kind = "lost" /\ s[i].icao = order[i] /\ i \in 1 .. Len(order)
      BY <3>1, EventFields
    <3>3. order[i] \in Tracked /\ order[i] \notin T
      BY <1>1, <1>3, <2>1, <3>2
    <3>4. ASSUME NEW j \in 1 .. i - 1 PROVE s[j].kind = "lost" /\ s[j].icao # s[i].icao
      <4>1. j \in 1 .. n /\ j \in 1 .. Len(order) /\ j # i
        BY <1>1, <2>1
      <4>2. s[j].kind = "lost" /\ s[j].icao = order[j]
        BY <1>2, <4>1, EventFields DEF IsInserted
      <4>. QED
        BY <1>1, <3>2, <4>1, <4>2
    <3>. QED
      BY <3>2, <3>3, <3>4 DEF Fits, Kinds
  <2>2. CASE i = n + 1
    <3>1. s[i].kind = "acquired" /\ s[i].icao = a
      BY <1>2, <2>2, EventFields DEF IsInserted
    <3>2. ASSUME NEW j \in 1 .. i - 1 PROVE s[j].kind = "lost"
      <4>1. j \in 1 .. n
        BY <1>2, <2>2 DEF IsInserted
      <4>. QED
        BY <1>2, <4>1, EventFields DEF IsInserted
    <3>. QED
      BY <3>1, <3>2 DEF Fits, Kinds
  <2>3. CASE i \in n + 2 .. Len(s)
    <3>1. s[i].kind \in Kinds /\ s[i].icao = a
      BY <1>2, <2>3 DEF IsInserted
    <3>2. n + 1 \in 1 .. i - 1 /\ s[n + 1] = Event("acquired", a)
      BY <1>2, <2>3 DEF IsInserted
    <3>3. a \in T /\ \E j \in 1 .. i - 1 : s[j] = Event("acquired", a)
      BY <3>2
    <3>. QED
      BY <3>1, <3>3 DEF Fits, Kinds
  <2>. QED
    BY <1>2, <2>1, <2>2, <2>3 DEF IsInserted
<1>6. ASSUME NEW x \in Tracked \ T PROVE \E i \in 1 .. Len(s) : s[i] = Event("lost", x)
  <2>1. PICK i \in 1 .. n : order[i] = x
    BY <1>4
  <2>. QED
    BY <1>2, <2>1 DEF IsInserted
<1>7. ASSUME NEW x \in T \ Tracked PROVE \E i \in 1 .. Len(s) : s[i] = Event("acquired", x)
  <2>1. x = a
    BY <1>3
  <2>. QED
    BY <1>2, <2>1 DEF IsInserted
<1>. QED
  BY <1>2, <1>5, <1>6, <1>7 DEF Tells, s, IsInserted

(* A frame from a tracked aircraft changes nobody else, and what a summary shows *)
(* of the sender only with an event.                                             *)
LEMMA KnownTold ==
  ASSUME TableInv(order, byIcao), now \in Time, NEW f \in Frames, IngestKnown(f, now)
  PROVE  \E a \in Tracked, kinds \in Seq(Kinds) :
           /\ Tracked' = Tracked
           /\ out' = EventsOf(a, kinds)
           /\ \A x \in Tracked : x # a => byIcao'[x] = byIcao[x]
           /\ kinds = <<>> => SameAs(byIcao[a], byIcao'[a])
<1> DEFINE a == Resolve(f, now)
           r == Hear(byIcao[a], f, now)
<1>1. order \in Seq(Icao) /\ TableWellFormed /\ a \in Tracked /\ ~ Unresolved(f, now)
  BY DEF TableInv, TableWellFormed, Tracked, IngestKnown
<1>2. byIcao[a] \in Aircraft /\ PairOK(byIcao[a])
  BY <1>1 DEF TableInv, Tracked
<1>3. f.crc = "failed" \/ f.icao # None
  BY <1>1, ResolveFacts
<1>4. r.kinds \in Seq(Kinds)
  BY <1>2, <1>3, HearGood DEF GoodResult
<1>5. r.kinds = <<>> => SameAs(byIcao[a], r.ac)
  BY <1>2, <1>3, HearQuiet DEF Quiet
<1>6. out' = EventsOf(a, r.kinds) /\ byIcao' = [byIcao EXCEPT ![a] = r.ac]
  BY DEF IngestKnown
<1> HIDE DEF a, r
<1>7. Tracked' = Tracked /\ byIcao'[a] = r.ac /\ \A x \in Tracked : x # a => byIcao'[x] = byIcao[x]
  BY <1>1, <1>6 DEF Tracked
<1>. QED
  BY <1>1, <1>4, <1>5, <1>6, <1>7

(* When everything is published the snapshot shows the table. *)
LEMMA InStep ==
  ASSUME DecoderInv, out = <<>>
  PROVE  Shown = Tracked /\ \A x \in Shown : SameAs(snapshot[x], byIcao[x])
<1>1. Len(out) = 0 /\ ~ \E i \in 1 .. Len(out) : TRUE
  OBVIOUS
<1>2. Shown = Tracked
  BY <1>1 DEF DecoderInv, Tells
<1>. QED
  BY <1>1, <1>2 DEF DecoderInv, Owed, Names, Shown, Tracked

LEMMA DecodeInv == DecoderInv /\ DecodeFrame => DecoderInv'
<1> SUFFICES ASSUME DecoderInv, DecodeFrame PROVE DecoderInv'
  OBVIOUS
<1>1. /\ TableInv(order, byIcao) /\ now \in Time /\ out = <<>>
      /\ snapshot' = snapshot /\ Shown' = Shown /\ chunks' = chunks /\ now' = now /\ Receive
  BY DEF DecoderInv, DecodeFrame, Receive, Shown
<1>2. PICK f \in Frames : Ingest(f, now)
  BY <1>1 DEF Receive
<1>3. TableInv(order', byIcao') /\ out' \in Seq(StateEvent)
  BY <1>1, <1>2, IngestTable
<1>4. Shown = Tracked /\ \A x \in Shown : SameAs(snapshot[x], byIcao[x])
  BY <1>1, InStep
<1>5. Tells(out', Tracked, Tracked') /\ Owed(out', snapshot, byIcao')
  <2>1. CASE IngestOrphan(f, now)
    <3>1. out' = <<Event("orphan", None)>> /\ byIcao' = byIcao /\ Tracked' = Tracked
      BY <2>1 DEF IngestOrphan, Tracked
    <3>2. Len(out') = 1 /\ out'[1].kind = "orphan"
      BY <3>1 DEF Event
    <3>3. \A i \in 1 .. Len(out') : Fits(out', i, Tracked, Tracked)
      BY <3>2 DEF Fits, Kinds
    <3>. QED
      BY <1>4, <3>1, <3>3 DEF Tells, Owed, Shown, Tracked
  <2>2. CASE IngestKnown(f, now)
    <3>1. PICK a \in Tracked, kinds \in Seq(Kinds) :
             /\ Tracked' = Tracked
             /\ out' = EventsOf(a, kinds)
             /\ \A x \in Tracked : x # a => byIcao'[x] = byIcao[x]
             /\ kinds = <<>> => SameAs(byIcao[a], byIcao'[a])
      BY <1>1, <2>2, KnownTold
    <3>2. Tells(out', Tracked, Tracked')
      BY <3>1, UpdatesTell
    <3>3. ASSUME NEW x \in Tracked PROVE SameAs(snapshot[x], byIcao'[x]) \/ Names(out', x)
      <4>1. CASE x # a
        BY <1>4, <3>1, <4>1
      <4>2. CASE x = a /\ kinds = <<>>
        BY <1>4, <3>1, <4>2 DEF SameAs
      <4>3. CASE x = a /\ kinds # <<>>
        <5>1. 1 \in 1 .. Len(kinds)
          BY <4>3
        <5>2. 1 \in 1 .. Len(out') /\ out'[1].icao = a
          BY <3>1, <5>1 DEF EventsOf, Event
        <5>. QED
          BY <4>3, <5>2 DEF Names
      <4>. QED
        BY <4>1, <4>2, <4>3
    <3>. QED
      BY <1>4, <3>1, <3>2, <3>3 DEF Owed, Shown, Tracked
  <2>3. CASE IngestNew(f, now)
    <3>1. PICK n \in 0 .. Len(order), a \in Icao, kinds \in Seq(Kinds) :
             Swaps(n, a, kinds) /\ \A x \in Survivors(n) : byIcao'[x] = byIcao[x]
      BY <1>1, <1>2, <2>3, NewShape
    <3>2. /\ a \in Icao \ Tracked /\ Tracked' = Survivors(n) \cup {a}
          /\ out' = Inserted(n, a, kinds)
      BY <3>1 DEF Swaps, Inserted, Three
    <3>3. Tells(out', Tracked, Tracked')
      BY <1>1, <3>2, InsertedTells
    <3>4. ASSUME NEW x \in Tracked \cap Tracked' PROVE SameAs(snapshot[x], byIcao'[x])
      BY <1>4, <3>1, <3>2
    <3>. QED
      BY <1>4, <3>3, <3>4 DEF Owed, Shown, Tracked
  <2>. QED
    BY <1>2, <2>1, <2>2, <2>3 DEF Ingest
<1>. QED
  BY <1>1, <1>3, <1>4, <1>5 DEF DecoderInv, Shown, Tracked

-----------------------------------------------------------------------------
(* The invariant is inductive *)

(* The virtual clock reads a representable instant, wrapped or not. *)
LEMMA ClockType ==
  ASSUME NEW c \in Nat, c <= MaxChunks
  PROVE  c % ClockWrap \in Time
<1>1. ClockWrap \in Nat \ {0} /\ MaxChunks \in Nat /\ MaxTime \in Nat /\ MaxTime >= MaxChunks
  BY TrackerAssumption, DecoderAssumption
<1>2. c % ClockWrap \in 0 .. c
  BY <1>1
<1>. QED
  BY <1>1, <1>2 DEF Time

LEMMA ReadInv == DecoderInv /\ ReadChunk => DecoderInv'
<1> SUFFICES ASSUME DecoderInv, ReadChunk PROVE DecoderInv'
  OBVIOUS
<1>1. /\ chunks \in Nat /\ chunks < MaxChunks /\ MaxChunks \in Nat
      /\ chunks' = chunks + 1 /\ now' = chunks' % ClockWrap
  BY DecoderAssumption DEF DecoderInv, ReadChunk
<1>2. chunks' \in Nat /\ chunks' <= MaxChunks /\ chunks' \in 0 .. MaxChunks
  BY <1>1
<1>3. now' \in Time
  BY <1>1, <1>2, ClockType
<1>4. order' = order /\ byIcao' = byIcao /\ out' = out /\ snapshot' = snapshot
  BY DEF ReadChunk
<1>. QED
  BY <1>2, <1>3, <1>4 DEF DecoderInv, Shown, Tracked

LEMMA DecoderInitInv == DecoderInit => DecoderInv
<1> SUFFICES ASSUME DecoderInit PROVE DecoderInv
  OBVIOUS
<1>1. IInv
  BY InitIInv DEF DecoderInit
<1>2. TableInv(order, byIcao) /\ now \in Time /\ out \in Seq(StateEvent)
  BY <1>1, IInvIsTableInv
<1>3. chunks \in 0 .. MaxChunks
  BY DecoderAssumption DEF DecoderInit
<1>4. out = <<>> /\ Shown = {} /\ Tracked = {}
  BY DEF DecoderInit, Init, Shown, Tracked
<1>5. IsFiniteSet(Shown) /\ Cardinality(Shown) <= Capacity
  BY <1>4, FS_EmptySet, TrackerAssumption
<1>6. Tells(out, Shown, Tracked)
  BY <1>4 DEF Tells
<1>7. Owed(out, snapshot, byIcao)
  BY <1>4 DEF Owed, Shown, Tracked
<1>. QED
  BY <1>2, <1>3, <1>5, <1>6, <1>7 DEF DecoderInv

LEMMA DecoderInvariant == DecoderSpec => []DecoderInv
<1>1. DecoderInv /\ UNCHANGED decoderVars => DecoderInv'
  BY DEF DecoderInv, decoderVars, vars, Shown, Tracked
<1>2. DecoderInv /\ [DecoderNext]_decoderVars => DecoderInv'
  BY <1>1, ReadInv, DecodeInv, PublishInv DEF DecoderNext
<1>. QED
  BY <1>2, DecoderInitInv, PTL DEF DecoderSpec

(* Whatever frames arrive and however the clock wraps: when nothing is left to *)
(* publish, the snapshot shows exactly the tracked aircraft, each with the     *)
(* table's callsign, position and velocity.                                    *)
THEOREM SnapshotInStepHolds == DecoderSpec => []SnapshotInStep
<1>1. DecoderInv => SnapshotInStep
  BY InStep DEF SnapshotInStep, SameAs
<1>. QED
  BY <1>1, DecoderInvariant, PTL

(* A reader of the snapshot never finds more aircraft than the table may hold, *)
(* for every capacity, also between two events of one eviction.                *)
THEOREM SnapshotBoundedHolds == DecoderSpec => []SnapshotBounded
<1>1. DecoderInv => SnapshotBounded
  BY DEF DecoderInv, SnapshotBounded
<1>. QED
  BY <1>1, DecoderInvariant, PTL

(* One published event: what it says of its aircraft is what it does to the *)
(* snapshot.                                                                *)
TellsLife ==
  out # <<>> /\ out' = Tail(out) =>
     LET e == Head(out) IN
     CASE e.kind = "orphan"   -> Shown' = Shown
       [] e.kind = "acquired" -> e.icao \notin Shown /\ e.icao \in Shown'
       [] e.kind = "lost"     -> e.icao \in Shown /\ e.icao \notin Shown'
       [] OTHER               -> e.icao \in Shown /\ e.icao \in Shown'

LEMMA StepTellsLife == DecoderInv /\ [DecoderNext]_decoderVars => TellsLife
<1> SUFFICES ASSUME DecoderInv, [DecoderNext]_decoderVars, out # <<>>, out' = Tail(out)
             PROVE  TellsLife
  BY DEF TellsLife
<1>1. out \in Seq(StateEvent) /\ out' # out
  BY TailFacts DEF DecoderInv
<1>2. Publish
  BY <1>1 DEF DecoderNext, decoderVars, vars, ReadChunk, DecodeFrame
<1> DEFINE e == out[1]
<1>3. Head(out) = e /\ e \in StateEvent /\ e.kind \in Kinds \cup {"acquired", "lost", "orphan"}
  BY <1>1, TailFacts, EventKind
<1>4. /\ e.kind = "lost" => e.icao \in Shown \ Tracked
      /\ e.kind = "acquired" => e.icao \in Tracked \ Shown
      /\ e.kind \in Kinds => e.icao \in Shown \cap Tracked
  BY <1>1, HeadFits DEF DecoderInv
<1>5. Shown' = ShownAfter(Shown, e)
  BY <1>2, <1>3, <1>4, RefreshedFacts DEF Publish, Shown
<1> HIDE DEF e
<1>6. CASE e.kind = "orphan"
  BY <1>3, <1>5, <1>6 DEF TellsLife, ShownAfter
<1>7. CASE e.kind = "acquired"
  BY <1>3, <1>4, <1>5, <1>7 DEF TellsLife, ShownAfter
<1>8. CASE e.kind = "lost"
  BY <1>3, <1>4, <1>5, <1>8 DEF TellsLife, ShownAfter
<1>9. CASE e.kind \in Kinds
  <2>1. e.kind # "orphan" /\ e.kind # "acquired" /\ e.kind # "lost"
    BY <1>9 DEF Kinds
  <2>2. e.icao \in Shown /\ e.icao \in Shown'
    BY <1>4, <1>5, <1>9, <2>1 DEF ShownAfter
  <2>. QED
    BY <1>3, <2>1, <2>2 DEF TellsLife
<1>. QED
  BY <1>3, <1>6, <1>7, <1>8, <1>9

(* An aircraft is acquired only while it is not shown, and lost or updated only *)
(* while it is: the contract that the event feed relies on.                     *)
THEOREM EventsTellLivesHolds == DecoderSpec => EventsTellLives
<1>1. DecoderInv /\ [DecoderNext]_decoderVars => [TellsLife]_decoderVars
  BY StepTellsLife
<1>. QED
  BY <1>1, DecoderInvariant, PTL DEF DecoderSpec, EventsTellLives, TellsLife

================================================================================
