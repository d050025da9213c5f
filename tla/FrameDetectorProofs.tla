-------------------------- MODULE FrameDetectorProofs --------------------------
(***************************************************************************)
(* Proofs about FrameDetector, for any sizes, any stream and any way of    *)
(* cutting it into chunks.                                                 *)
(***************************************************************************)
EXTENDS FrameDetector, TLAPS, SequenceTheorems, WellFoundedInduction

(* The walk starts at the carry, and behind it lie the frames it consumed. *)
WalksForward ==
  walking => base <= i /\ consumed <= i - base

IInv == TypeOK /\ WalksForward /\ ResumesWhereItStopped

LEMMA SpanBounds ==
  ASSUME TypeOK, NEW p \in Position
  PROVE  /\ Span(p) \in {Preamble + Short, Preamble + Long}
         /\ Span(p) <= LookLong
         /\ Span(p) >= Preamble + Short
BY FrameDetectorAssumption DEF TypeOK, Span

(* The noise floor never leaks more than it holds. *)
LEMMA FloorStays ==
  ASSUME TypeOK, NEW p \in Position
  PROVE  Updated(acc, p) \in Nat
<1>. DEFINE s == signal[p].sample
<1>1. acc \in Nat /\ Weight \in Nat /\ Weight > 0 /\ s \in Nat
  BY FrameDetectorAssumption DEF TypeOK, Point
<1>. HIDE DEF s
<1>2. acc \div Weight \in Nat /\ acc \div Weight <= acc
  BY <1>1
<1>3. acc + s - acc \div Weight \in Nat
  BY <1>1, <1>2
<1>. QED
  BY <1>3 DEF Updated, s

(* A window of samples begins at a position of the stream. *)
LEMMA WindowInStream ==
  ASSUME TypeOK, Window(i) \/ InReach(i)
  PROVE  i \in Position
<1>. USE FrameDetectorAssumption
<1>1. i \in Nat /\ end \in Nat /\ end <= Length
  BY DEF TypeOK
<1>2. i + Preamble + Short <= end
  BY <1>1 DEF Window, InReach
<1>. QED
  BY <1>1, <1>2 DEF Position

LEMMA InitIInv == Init => IInv
<1>. SUFFICES ASSUME Init PROVE IInv
  OBVIOUS
<1>1. signal \in Signals
  BY FrameDetectorAssumption DEF Init
<1>2. /\ end \in 0 .. Length /\ base \in 0 .. end /\ i \in 0 .. end
      /\ consumed = 0
  BY FrameDetectorAssumption DEF Init
<1>3. fast \in BOOLEAN /\ walking = FALSE /\ heard \in BOOLEAN /\ base = i
  BY DEF Init
<1>4. found \in Seq(Position) /\ acc \in Nat /\ drowned \subseteq Position /\ ample \in BOOLEAN
  BY DEF Init
<1>. QED
  BY <1>1, <1>2, <1>3, <1>4
  DEF IInv, TypeOK, WalksForward, ResumesWhereItStopped

LEMMA FeedIInv ==
  ASSUME IInv, NEW n \in 1 .. Length, Feed(n)
  PROVE  IInv'
BY FrameDetectorAssumption
DEF Feed, IInv, TypeOK, WalksForward, ResumesWhereItStopped

(* The walk at any rate but 2.4 MS/s stays inside its samples, because it     *)
(* takes a step only over samples it has looked for, and stops where what is  *)
(* left fits into the carry.                                                  *)
LEMMA WalkIInv ==
  ASSUME IInv, PassOver \/ Detect \/ Stash
  PROVE  IInv'
<1>. USE FrameDetectorAssumption
<1>1. CASE PassOver
  <2>1. i \in Position /\ acc' = Updated(acc, i)
    BY <1>1, WindowInStream DEF PassOver, Turns, IInv
  <2>2. acc' \in Nat
    BY <2>1, FloorStays DEF IInv
  <2>3. drowned' \subseteq Position
    BY <1>1, <2>1 DEF PassOver, IInv, TypeOK
  <2>. QED
    BY <1>1, <2>2, <2>3
    DEF PassOver, Turns, Window, IInv, TypeOK, WalksForward, ResumesWhereItStopped
<1>2. CASE Detect
  <2>1. i \in Position
    BY <1>2, WindowInStream DEF Detect, Turns, IInv
  <2>2. Span(i) \in {Preamble + Short, Preamble + Long}
    BY <2>1, SpanBounds DEF IInv
  <2>3. i + Span(i) <= end
    BY <1>2 DEF Detect, Whole
  <2>4. found' \in Seq(Position)
    BY <1>2, <2>1 DEF Detect, IInv, TypeOK
  <2>5. acc' \in Nat
    BY <1>2, <2>1, FloorStays DEF Detect, Turns, IInv
  <2>. QED
    BY <1>2, <2>2, <2>3, <2>4, <2>5
    DEF Detect, Turns, IInv, TypeOK, WalksForward, ResumesWhereItStopped
<1>3. CASE Stash
  <2>1. i \in 0 .. end /\ end \in 0 .. Length
    BY DEF IInv, TypeOK
  <2>2. end - i <= Carry
    <3>1. CASE ~ Window(i)
      BY <3>1, <2>1 DEF Window
    <3>2. CASE Window(i) /\ ~ Whole(i)
      <4>1. i \in Position
        BY <3>2, WindowInStream DEF IInv
      <4>2. Span(i) <= LookLong /\ Span(i) \in Nat
        BY <4>1, SpanBounds DEF IInv
      <4>. QED
        BY <3>2, <4>2, <2>1 DEF Whole
    <3>. QED
      BY <1>3, <3>1, <3>2 DEF Stash, BreaksOff, Turns
  <2>3. Retained(end - i) = end - i
    BY <2>1, <2>2 DEF Retained
  <2>4. base' = i
    BY <1>3, <2>1, <2>3 DEF Stash
  <2>5. acc' \in Nat
    <3>1. CASE acc' = acc
      BY <3>1 DEF IInv, TypeOK
    <3>2. CASE Turns
      BY <3>2, WindowInStream, FloorStays DEF Turns, IInv
    <3>. QED
      BY <1>3, <3>1, <3>2 DEF Stash, BreaksOff
  <2>6. walking /\ ~ fast
    BY <1>3 DEF Stash, BreaksOff, Turns
  <2>. QED
    BY <1>3, <2>1, <2>4, <2>5, <2>6
    DEF Stash, IInv, TypeOK, WalksForward, ResumesWhereItStopped
<1>. QED
  BY <1>1, <1>2, <1>3

(* The walk at 2.4 MS/s reports no more than it walked over. *)
LEMMA Walk2400IInv ==
  ASSUME IInv, PassOver2400 \/ Detect2400 \/ Stash2400
  PROVE  IInv'
<1>. USE FrameDetectorAssumption
<1>1. CASE PassOver2400
  BY <1>1
  DEF PassOver2400, InReach, IInv, TypeOK, WalksForward, ResumesWhereItStopped
<1>2. CASE Detect2400
  <2>1. i \in Position
    BY <1>2, WindowInStream DEF Detect2400, IInv
  <2>2. Span(i) \in {Preamble + Short, Preamble + Long}
    BY <2>1, SpanBounds DEF IInv
  <2>3. i + Span(i) <= end
    BY <1>2, <2>1 DEF Detect2400, Accepts, InReach, Span, IInv, TypeOK
  <2>4. found' \in Seq(Position) /\ heard' \in BOOLEAN
    BY <1>2, <2>1 DEF Detect2400, IInv, TypeOK
  <2>5. consumed' \in {0, Preamble + Short, Preamble + Long}
    BY <1>2, <2>2 DEF Detect2400, IInv, TypeOK
  <2>6. consumed' <= i' - base /\ base <= i'
    BY <1>2, <2>2 DEF Detect2400, IInv, TypeOK, WalksForward
  <2>. QED
    BY <1>2, <2>2, <2>3, <2>4, <2>5, <2>6
    DEF Detect2400, IInv, TypeOK, WalksForward, ResumesWhereItStopped
<1>3. CASE Stash2400
  <2>1. end - base - consumed \in 0 .. end
    BY <1>3 DEF Stash2400, IInv, TypeOK, WalksForward
  <2>2. Retained(end - base - consumed) \in 0 .. end
    BY <2>1 DEF Retained, IInv, TypeOK
  <2>3. base' \in 0 .. end
    BY <1>3, <2>2 DEF Stash2400, IInv, TypeOK
  <2>4. UNCHANGED <<signal, fast, end, i, consumed, heard, acc, found, drowned, ample>> /\ fast
        /\ walking' = FALSE
    BY <1>3 DEF Stash2400
  <2>5. TypeOK'
    BY <2>3, <2>4 DEF IInv, TypeOK
  <2>. QED
    BY <2>4, <2>5 DEF IInv, WalksForward, ResumesWhereItStopped
<1>. QED
  BY <1>1, <1>2, <1>3

LEMMA NextIInv == IInv /\ [Next]_vars => IInv'
<1>. SUFFICES ASSUME IInv, [Next]_vars PROVE IInv'
  OBVIOUS
<1>1. CASE \E n \in 1 .. Length : Feed(n)
  BY <1>1, FeedIInv
<1>2. CASE PassOver \/ Detect \/ Stash
  BY <1>2, WalkIInv
<1>3. CASE PassOver2400 \/ Detect2400 \/ Stash2400
  BY <1>3, Walk2400IInv
<1>4. CASE UNCHANGED vars
  BY <1>4 DEF vars, IInv, TypeOK, WalksForward, ResumesWhereItStopped
<1>. QED
  BY <1>1, <1>2, <1>3, <1>4 DEF Next

LEMMA SpecIInv == Spec => []IInv
BY InitIInv, NextIInv, PTL DEF Spec

(* Neither walk of FrameDetector::process leaves the samples it was given,    *)
(* and no subtraction under the carry underflows.                             *)
THEOREM TypeCorrect == Spec => []TypeOK
BY SpecIInv, PTL DEF IInv

(* Whatever the chunks, the carry of the walk at any rate but 2.4 MS/s begins *)
(* where that walk stopped: nothing is skipped, nothing walked over twice.    *)
THEOREM CarryReachesBack == Spec => []ResumesWhereItStopped
BY SpecIInv, PTL DEF IInv

-----------------------------------------------------------------------------
(* Nothing is lost at 2.4 MS/s *)

(* Squitters *)
Squitter == {p \in Position : signal[p].what = "squitter"}

(* What the walk at 2.4 MS/s leaves behind it: before the carry every squitter *)
(* is met; in a call, every one it has walked over is met or not yet complete, *)
(* and what is consumed reaches none of the latter; and between two calls only *)
(* incomplete ones are left.                                                   *)
MetBehind == \A p \in Squitter : p < base => Met(p)

MetOrDeferred ==
  walking =>
    \A p \in Squitter :
       base <= p /\ p < i => Met(p) \/ (p + LookLong > end /\ base + consumed <= p)

MetWhenWhole ==
  ~ walking => \A p \in Squitter : p + LookLong <= end => Met(p)

SInv == IInv /\ (fast => MetBehind /\ MetOrDeferred /\ MetWhenWhole)

LEMMA SquitterSpan ==
  ASSUME TypeOK, NEW p \in Squitter
  PROVE  p \in Position /\ p \in Nat /\ Span(p) = Preamble + Long
<1>1. p \in Position /\ signal[p].what = "squitter"
  BY DEF Squitter
<1>2. p \in Nat
  BY <1>1, FrameDetectorAssumption DEF Position
<1>. QED
  BY <1>1, <1>2 DEF Span

(* What was met stays met, and a frame that is found meets all it overlaps. *)
LEMMA MetStays ==
  ASSUME TypeOK, signal' = signal, NEW q \in Position,
         found' = found \/ found' = Append(found, q)
  PROVE  /\ Squitter' = Squitter
         /\ \A p : Met(p) => Met(p)'
         /\ found' = Append(found, q) => \A p : Overlap(q, p) => Met(p)'
<1>1. Squitter' = Squitter /\ \A x, y : Overlap(x, y)' <=> Overlap(x, y)
  BY DEF Squitter, Overlap, Span
<1>2. found \in Seq(Position) /\ Len(found) \in Nat
  BY DEF TypeOK
<1>3. /\ \A k \in 1 .. Len(found) : k \in 1 .. Len(found') /\ found'[k] = found[k]
      /\ found' = Append(found, q) =>
           Len(found) + 1 \in 1 .. Len(found') /\ found'[Len(found) + 1] = q
  BY <1>2
<1>4. ASSUME NEW p, Met(p) PROVE Met(p)'
  <2>1. PICK k \in 1 .. Len(found) : Overlap(found[k], p)
    BY <1>4 DEF Met
  <2>2. k \in 1 .. Len(found') /\ found'[k] = found[k]
    BY <1>3
  <2>3. Overlap(found[k], p)'
    BY <2>1, <1>1, <2>2
  <2>. QED
    BY <2>2, <2>3 DEF Met
<1>5. ASSUME NEW p, found' = Append(found, q), Overlap(q, p) PROVE Met(p)'
  <2>1. Len(found) + 1 \in 1 .. Len(found') /\ found'[Len(found) + 1] = q
    BY <1>3, <1>5
  <2>. QED
    BY <1>1, <1>5, <2>1 DEF Met
<1>. QED
  BY <1>1, <1>4, <1>5

LEMMA InitSInv == Init => SInv
<1> SUFFICES ASSUME Init PROVE SInv
  OBVIOUS
<1>1. IInv /\ base = 0 /\ end = 0 /\ ~ walking
  BY InitIInv DEF Init
<1>2. \A p \in Squitter : p \in Nat /\ ~ (p < base) /\ ~ (p + LookLong <= end)
  BY <1>1, SquitterSpan, FrameDetectorAssumption DEF IInv
<1>. QED
  BY <1>1, <1>2 DEF SInv, MetBehind, MetOrDeferred, MetWhenWhole

(* The walked range is empty when a call begins. *)
LEMMA FeedSInv ==
  ASSUME SInv, NEW n \in 1 .. Length, Feed(n)
  PROVE  SInv'
<1>1. IInv'
  BY FeedIInv DEF SInv
<1>2. /\ signal' = signal /\ found' = found /\ fast' = fast /\ base' = base
      /\ walking' /\ i' = base'
  BY DEF Feed
<1>3. Squitter' = Squitter /\ \A p : Met(p)' <=> Met(p)
  BY <1>2 DEF Squitter, Met, Overlap, Span
<1>4. base' \in Int /\ \A p \in Squitter : p \in Nat
  BY <1>1, SquitterSpan DEF SInv, IInv, TypeOK
<1>5. fast => MetBehind'
  BY <1>2, <1>3 DEF SInv, MetBehind
<1>6. MetOrDeferred'
  BY <1>2, <1>3, <1>4 DEF MetOrDeferred
<1>7. MetWhenWhole'
  BY <1>2 DEF MetWhenWhole
<1>. QED
  BY <1>1, <1>2, <1>5, <1>6, <1>7 DEF SInv

(* A squitter that is passed over is not complete, and lies behind all that *)
(* was consumed.                                                            *)
LEMMA PassOverSInv ==
  ASSUME SInv, PassOver2400
  PROVE  SInv'
<1>1. IInv' /\ IInv
  BY Walk2400IInv DEF SInv
<1>2. /\ signal' = signal /\ found' = found /\ fast' = fast /\ base' = base /\ end' = end
      /\ consumed' = consumed /\ walking' /\ walking /\ i' = i + 1 /\ fast
      /\ InReach(i) /\ ~ Accepts(i)
  BY DEF PassOver2400
<1>3. Squitter' = Squitter /\ \A p : Met(p)' <=> Met(p)
  BY <1>2 DEF Squitter, Met, Overlap, Span
<1>4. base \in Int /\ i \in Int /\ end \in Int /\ consumed \in Int /\ base + consumed <= i
  BY <1>1, <1>2, FrameDetectorAssumption DEF IInv, TypeOK, WalksForward
<1>5. ASSUME NEW p \in Squitter, base <= p, p < i + 1
      PROVE  Met(p) \/ (p + LookLong > end /\ base + consumed <= p)
  <2>1. p \in Nat /\ LookLong \in Nat
    BY <1>1, SquitterSpan, FrameDetectorAssumption DEF IInv
  <2>2. CASE p < i
    BY <1>2, <1>5, <2>2 DEF SInv, MetOrDeferred
  <2>3. CASE p = i
    <3>1. ~ (p + LookLong <= end)
      BY <1>2, <2>3 DEF Accepts, Squitter
    <3>. QED
      BY <1>4, <2>1, <2>3, <3>1
  <2>. QED
    BY <1>4, <1>5, <2>1, <2>2, <2>3
<1>6. MetBehind' /\ MetOrDeferred' /\ MetWhenWhole'
  BY <1>2, <1>3, <1>5 DEF SInv, MetBehind, MetOrDeferred, MetWhenWhole
<1>. QED
  BY <1>1, <1>2, <1>6 DEF SInv

(* A frame that is found behind an incomplete squitter overlaps it, because *)
(* its own lookahead is complete.                                           *)
LEMMA DetectSInv ==
  ASSUME SInv, Detect2400
  PROVE  SInv'
<1>1. IInv' /\ IInv /\ TypeOK
  BY Walk2400IInv DEF SInv, IInv
<1>2. /\ signal' = signal /\ found' = Append(found, i) /\ fast' = fast /\ base' = base /\ end' = end
      /\ walking' /\ walking /\ i' = i + Span(i) /\ fast /\ InReach(i) /\ Accepts(i)
      /\ consumed' = IF Span(i) > consumed THEN Span(i) ELSE consumed
  BY DEF Detect2400
<1>3. i \in Position
  BY <1>1, <1>2, WindowInStream
<1>4. /\ Squitter' = Squitter /\ \A p : Met(p) => Met(p)'
      /\ \A p : Overlap(i, p) => Met(p)'
  BY <1>1, <1>2, <1>3, MetStays
<1>5. /\ base \in Int /\ i \in Int /\ end \in Int /\ consumed \in Int /\ base <= i
      /\ Span(i) \in Int /\ Span(i) > 0
  <2>1. base \in Int /\ i \in Int /\ end \in Int /\ consumed \in Int /\ base <= i
    BY <1>1, <1>2, FrameDetectorAssumption DEF IInv, TypeOK, WalksForward
  <2>2. Span(i) \in {Preamble + Short, Preamble + Long}
    BY <1>1, <1>3, SpanBounds
  <2>. QED
    BY <2>1, <2>2, FrameDetectorAssumption
<1>6. ASSUME NEW p \in Squitter, base <= p, p < i + Span(i)
      PROVE  Met(p)' \/ (p + LookLong > end /\ base + consumed' <= p)
  <2>1. p \in Nat /\ Span(p) = Preamble + Long /\ Span(p) \in Nat /\ Span(p) > 0
    BY <1>1, SquitterSpan, FrameDetectorAssumption
  <2>2. CASE i < p + Span(p)
    BY <1>4, <1>6, <2>2 DEF Overlap
  <2>3. CASE i >= p + Span(p)
    <3>1. p < i
      BY <1>5, <2>1, <2>3
    <3>2. Met(p) \/ p + LookLong > end
      BY <1>2, <1>6, <3>1 DEF SInv, MetOrDeferred
    <3>3. i + LookShort <= end
      BY <1>2 DEF InReach
    <3>4. ~ (p + LookLong > end)
      BY <1>5, <2>1, <2>3, <3>3, FrameDetectorAssumption
    <3>. QED
      BY <1>4, <3>2, <3>4
  <2>. QED
    BY <1>5, <2>1, <2>2, <2>3
<1>7. MetBehind'
  BY <1>2, <1>4 DEF SInv, MetBehind
<1>8. MetOrDeferred'
  BY <1>2, <1>4, <1>6 DEF MetOrDeferred
<1>9. MetWhenWhole'
  BY <1>2 DEF MetWhenWhole
<1>. QED
  BY <1>1, <1>2, <1>7, <1>8, <1>9 DEF SInv

(* What the carry drops was met: it keeps a long frame's lookahead, and drops *)
(* no more than was consumed beyond that.                                     *)
LEMMA StashSInv ==
  ASSUME SInv, Stash2400
  PROVE  SInv'
<1>1. IInv' /\ IInv
  BY Walk2400IInv DEF SInv
<1>2. /\ signal' = signal /\ found' = found /\ fast' = fast /\ end' = end
      /\ ~ walking' /\ walking /\ fast /\ ~ InReach(i)
      /\ base' = end - Retained(end - base - consumed)
  BY DEF Stash2400
<1>3. Squitter' = Squitter /\ \A p : Met(p)' <=> Met(p)
  BY <1>2 DEF Squitter, Met, Overlap, Span
<1>4. /\ base \in Int /\ i \in Int /\ end \in Int /\ consumed \in Int /\ base + consumed <= i
      /\ LookLong \in Nat /\ LookShort \in Nat /\ Carry \in Nat
      /\ LookShort <= LookLong /\ LookLong <= Carry
  BY <1>1, <1>2, FrameDetectorAssumption DEF IInv, TypeOK, WalksForward
<1>5. i + LookShort > end
  BY <1>2, <1>4 DEF InReach
<1>6. base' = base + consumed \/ base' <= end - Carry
  BY <1>2, <1>4 DEF Retained
<1>7. ASSUME NEW p \in Squitter, p < i PROVE Met(p) \/ (p + LookLong > end /\ base + consumed <= p)
  <2>1. p \in Nat
    BY <1>1, SquitterSpan DEF IInv
  <2>2. CASE p < base
    BY <1>2, <2>2 DEF SInv, MetBehind
  <2>3. CASE base <= p
    BY <1>2, <1>7, <2>3 DEF SInv, MetOrDeferred
  <2>. QED
    BY <1>4, <2>1, <2>2, <2>3
<1>8. ASSUME NEW p \in Squitter, p < base' PROVE Met(p)
  <2>1. p \in Nat
    BY <1>1, SquitterSpan DEF IInv
  <2>2. CASE base' = base + consumed
    BY <1>4, <1>7, <1>8, <2>1, <2>2
  <2>3. CASE base' <= end - Carry
    <3>1. base' \in Int
      BY <1>1 DEF IInv, TypeOK
    <3>2. p + LookLong <= end /\ p < i
      BY <1>4, <1>5, <1>8, <2>1, <2>3, <3>1
    <3>. QED
      BY <1>4, <1>7, <2>1, <3>2
  <2>. QED
    BY <1>6, <2>2, <2>3
<1>9. ASSUME NEW p \in Squitter, p + LookLong <= end PROVE Met(p)
  <2>1. p \in Nat
    BY <1>1, SquitterSpan DEF IInv
  <2>2. p < i
    BY <1>4, <1>5, <1>9, <2>1
  <2>. QED
    BY <1>4, <1>7, <1>9, <2>1, <2>2
<1>10. MetBehind'
  BY <1>3, <1>8 DEF MetBehind
<1>11. MetOrDeferred'
  BY <1>2 DEF MetOrDeferred
<1>12. MetWhenWhole'
  BY <1>2, <1>3, <1>9 DEF MetWhenWhole
<1>. QED
  BY <1>1, <1>2, <1>10, <1>11, <1>12 DEF SInv

LEMMA NextSInv == SInv /\ [Next]_vars => SInv'
<1> SUFFICES ASSUME SInv, [Next]_vars PROVE SInv'
  OBVIOUS
<1>1. CASE \E n \in 1 .. Length : Feed(n)
  BY <1>1, FeedSInv
<1>2. CASE PassOver \/ Detect \/ Stash
  <2>1. IInv'
    BY <1>2, WalkIInv DEF SInv
  <2>2. ~ fast'
    BY <1>2 DEF PassOver, Detect, Stash, BreaksOff, Turns
  <2>. QED
    BY <2>1, <2>2 DEF SInv
<1>3. CASE PassOver2400
  BY <1>3, PassOverSInv
<1>4. CASE Detect2400
  BY <1>4, DetectSInv
<1>5. CASE Stash2400
  BY <1>5, StashSInv
<1>6. CASE UNCHANGED vars
  <2>1. IInv'
    BY <1>6, NextIInv DEF SInv
  <2>. QED
    BY <1>6, <2>1
    DEF vars, SInv, MetBehind, MetOrDeferred, MetWhenWhole, Squitter, Met, Overlap, Span
<1>. QED
  BY <1>1, <1>2, <1>3, <1>4, <1>5, <1>6 DEF Next

(* However the samples are cut, for any sizes and any stream: a squitter that  *)
(* lies in them with the walk's lookahead was found at 2.4 MS/s, or a frame    *)
(* that overlaps it was.                                                       *)
THEOREM NoSquitterLostHolds == Spec => []NoSquitterLost
<1>1. SInv => NoSquitterLost
  BY DEF SInv, MetWhenWhole, NoSquitterLost, Squitter
<1>. QED
  BY <1>1, InitSInv, NextSInv, PTL DEF Spec

-----------------------------------------------------------------------------
(* Walk is the function that its recursion describes *)

LEMMA LeastNatural ==
  ASSUME NEW T, T \subseteq Nat, T # {}
  PROVE  \E x \in T : \A y \in T : x <= y
<1> DEFINE R == {p \in Nat \X Nat : p[1] < p[2]}
<1>1. IsWellFoundedOn(R, Nat)
  BY NatLessThanWellFounded DEF OpToRel
<1> HIDE DEF R
<1>2. PICK x \in T : \A y \in T : ~ (<<y, x>> \in R)
  BY <1>1, WFMin
<1>3. \A y \in T : ~ (y < x)
  BY <1>2 DEF R
<1>. QED
  BY <1>3

(* One step of the walk over the samples before e, at p, without the preambles *)
(* in deaf; f holds what is found from the later positions on.                 *)
Turn(e, deaf, f, p) ==
  IF p + Preamble + Short > e THEN <<>>
  ELSE IF signal[p].what = "noise" \/ p \in deaf THEN f[p + 1]
  ELSE IF signal[p].what = "reserved" THEN f[p + Preamble]
  ELSE IF p + Span(p) > e THEN <<>>
  ELSE IF signal[p].what = "weak" THEN f[p + Span(p)]
  ELSE <<p>> \o f[p + Span(p)]

(* A step looks ahead only. *)
LEMMA TurnLooksAhead ==
  ASSUME TypeOK, NEW e \in 0 .. Length, NEW deaf, NEW p \in 0 .. Length, NEW f, NEW g,
         \A q \in p + 1 .. Length : f[q] = g[q]
  PROVE  Turn(e, deaf, f, p) = Turn(e, deaf, g, p)
<1>. USE FrameDetectorAssumption
<1>1. CASE p + Preamble + Short > e
  BY <1>1 DEF Turn
<1>2. CASE ~ (p + Preamble + Short > e)
  <2>1. p \in Position
    BY <1>2 DEF Position
  <2>2. Span(p) \in {Preamble + Short, Preamble + Long}
    BY <2>1, SpanBounds
  <2>3. p + 1 \in p + 1 .. Length /\ p + Preamble \in p + 1 .. Length
    BY <1>2
  <2>4. ~ (p + Span(p) > e) => p + Span(p) \in p + 1 .. Length
    BY <2>2
  <2>. QED
    BY <1>2, <2>3, <2>4 DEF Turn
<1>. QED
  BY <1>1, <1>2

(* From the end of the stream backwards, step by step. *)
LEMMA WalkExists ==
  ASSUME TypeOK, NEW e \in 0 .. Length, NEW deaf
  PROVE  \E f : f = [p \in 0 .. Length |-> Turn(e, deaf, f, p)]
<1> DEFINE Partial(n) == \E f : /\ f = [p \in n .. Length |-> f[p]]
                                /\ \A p \in n .. Length : f[p] = Turn(e, deaf, f, p)
           bad == {n \in 0 .. Length : ~ Partial(Length - n)}
<1>0. Length \in Nat
  BY FrameDetectorAssumption
<1>1. Partial(Length)
  <2> DEFINE f == [p \in Length .. Length |-> Turn(e, deaf, <<>>, p)]
  <2>1. Length \in 0 .. Length /\ \A p \in Length .. Length : p = Length
    BY <1>0
  <2>2. \A q \in Length + 1 .. Length : f[q] = <<>>[q]
    BY <1>0
  <2>3. f[Length] = Turn(e, deaf, <<>>, Length)
    BY <1>0
  <2> HIDE DEF f
  <2>4. Turn(e, deaf, f, Length) = Turn(e, deaf, <<>>, Length)
    BY <2>1, <2>2, TurnLooksAhead
  <2>5. f = [p \in Length .. Length |-> f[p]]
    BY DEF f
  <2>. QED
    BY <2>1, <2>3, <2>4, <2>5
<1>2. ASSUME NEW n \in 1 .. Length, Partial(n) PROVE Partial(n - 1)
  <2>1. PICK f : /\ f = [p \in n .. Length |-> f[p]]
                 /\ \A p \in n .. Length : f[p] = Turn(e, deaf, f, p)
    BY <1>2
  <2> DEFINE g == [p \in n - 1 .. Length |-> IF p = n - 1 THEN Turn(e, deaf, f, p) ELSE f[p]]
  <2>2. g = [p \in n - 1 .. Length |-> g[p]]
    OBVIOUS
  <2>3. n - 1 \in n - 1 .. Length /\ g[n - 1] = Turn(e, deaf, f, n - 1) /\ n - 1 \in 0 .. Length
    BY <1>0
  <2>4. \A p \in n .. Length : p \in 0 .. Length /\ p \in n - 1 .. Length /\ g[p] = f[p]
    BY <1>0
  <2> HIDE DEF g
  <2>5. ASSUME NEW p \in n - 1 .. Length PROVE g[p] = Turn(e, deaf, g, p)
    <3>1. p \in 0 .. Length /\ (p = n - 1 \/ p \in n .. Length)
      BY <1>0
    <3>2. \A q \in p + 1 .. Length : q \in n .. Length
      BY <1>0
    <3>3. \A q \in p + 1 .. Length : g[q] = f[q]
      BY <2>4, <3>2
    <3>4. Turn(e, deaf, g, p) = Turn(e, deaf, f, p)
      BY <3>1, <3>3, TurnLooksAhead
    <3>5. g[p] = Turn(e, deaf, f, p)
      BY <2>1, <2>3, <2>4, <3>1
    <3>. QED
      BY <3>4, <3>5
  <2>. QED
    BY <2>2, <2>5
<1>3. Partial(0)
  <2>0. SUFFICES ASSUME bad # {} PROVE FALSE
    <3>1. Length \in 0 .. Length /\ Length - Length = 0
      BY <1>0
    <3> HIDE DEF Partial
    <3>. QED
      BY <3>1
  <2> HIDE DEF Partial
  <2>1. bad \subseteq Nat
    BY <1>0
  <2>2. PICK n \in bad : \A m \in bad : n <= m
    BY <2>0, <2>1, LeastNatural
  <2>3. n # 0
    BY <1>0, <1>1, <2>2
  <2>4. n - 1 \in 0 .. Length /\ n - 1 \notin bad /\ Length - (n - 1) \in 1 .. Length
        /\ (Length - (n - 1)) - 1 = Length - n
    BY <1>0, <2>2, <2>3
  <2>5. Partial(Length - (n - 1))
    BY <2>4
  <2>6. Partial(Length - n)
    BY <1>2, <2>4, <2>5
  <2>. QED
    BY <2>2, <2>6
<1>4. PICK f : f = [p \in 0 .. Length |-> f[p]] /\ \A p \in 0 .. Length : f[p] = Turn(e, deaf, f, p)
  BY <1>3
<1> DEFINE h == [p \in 0 .. Length |-> Turn(e, deaf, f, p)]
<1>5. \A p \in 0 .. Length : f[p] = h[p]
  BY <1>4
<1>6. h = [p \in 0 .. Length |-> h[p]]
  OBVIOUS
<1> HIDE DEF h
<1>7. f = h
  BY <1>4, <1>5, <1>6
<1>. QED
  BY <1>7 DEF h

LEMMA WalkIs ==
  ASSUME TypeOK, NEW e \in 0 .. Length, NEW deaf
  PROVE  \A p \in 0 .. Length : Walk(e, deaf)[p] = Turn(e, deaf, Walk(e, deaf), p)
<1> DEFINE w == CHOOSE f : f = [p \in 0 .. Length |-> Turn(e, deaf, f, p)]
<1>1. w = [p \in 0 .. Length |-> Turn(e, deaf, w, p)]
  BY WalkExists
<1>2. Walk(e, deaf) = w
  BY DEF Walk, Turn
<1> HIDE DEF w
<1>3. \A p \in 0 .. Length : w[p] = Turn(e, deaf, w, p)
  BY <1>1
<1>. QED
  BY <1>2, <1>3


(* What it finds are positions, by the same descent. *)
LEMMA WalkType ==
  ASSUME TypeOK, NEW e \in 0 .. Length, NEW deaf
  PROVE  \A p \in 0 .. Length : Walk(e, deaf)[p] \in Seq(Position)
<1> DEFINE w == Walk(e, deaf)
           bad == {n \in 0 .. Length : w[Length - n] \notin Seq(Position)}
<1>. USE FrameDetectorAssumption
<1>1. \A p \in 0 .. Length : w[p] = Turn(e, deaf, w, p)
  BY WalkIs
<1> HIDE DEF w
<1>2. ASSUME bad # {} PROVE FALSE
  <2>0. bad \subseteq Nat
    OBVIOUS
  <2> HIDE DEF bad
  <2>1. PICK n \in bad : \A m \in bad : n <= m
    BY <1>2, <2>0, LeastNatural
  <2>a. n \in 0 .. Length /\ w[Length - n] \notin Seq(Position)
    BY <2>1 DEF bad
  <2> DEFINE p == Length - n
  <2>2. p \in 0 .. Length /\ w[p] \notin Seq(Position)
    BY <2>a
  <2>3. ASSUME NEW q \in p + 1 .. Length PROVE w[q] \in Seq(Position)
    <3>1. Length - q \in 0 .. Length /\ ~ (n <= Length - q) /\ Length - (Length - q) = q
      BY <2>a
    <3>2. Length - q \notin bad
      BY <2>1, <3>1
    <3>. QED
      BY <3>1, <3>2 DEF bad
  <2> HIDE DEF p
  <2>4. CASE p + Preamble + Short > e
    <3>1. Turn(e, deaf, w, p) = <<>>
      BY <2>4 DEF Turn
    <3>2. <<>> \in Seq(Position)
      OBVIOUS
    <3>. QED
      BY <1>1, <2>2, <3>1, <3>2
  <2>5. CASE ~ (p + Preamble + Short > e)
    <3>1. p \in Position
      BY <2>2, <2>5 DEF Position
    <3>2. Span(p) \in {Preamble + Short, Preamble + Long}
      BY <3>1, SpanBounds
    <3>3. p + 1 \in p + 1 .. Length /\ p + Preamble \in p + 1 .. Length
      BY <2>2, <2>5
    <3>4. ~ (p + Span(p) > e) => p + Span(p) \in p + 1 .. Length
      BY <2>2, <3>2
    <3>5. /\ w[p + 1] \in Seq(Position) /\ w[p + Preamble] \in Seq(Position)
          /\ ~ (p + Span(p) > e) => w[p + Span(p)] \in Seq(Position)
      BY <2>3, <3>3, <3>4
    <3>6. \A s \in Seq(Position) : <<p>> \o s \in Seq(Position)
      BY <3>1
    <3>7. Turn(e, deaf, w, p) \in Seq(Position)
      BY <2>5, <3>5, <3>6 DEF Turn
    <3>. QED
      BY <1>1, <2>2, <3>7
  <2>. QED
    BY <2>4, <2>5
<1>3. ASSUME NEW p \in 0 .. Length PROVE w[p] \in Seq(Position)
  <2>1. Length - p \in 0 .. Length /\ Length - (Length - p) = p
    OBVIOUS
  <2>2. Length - p \notin bad
    BY <1>2
  <2>. QED
    BY <2>1, <2>2
<1>. QED
  BY <1>3 DEF w

-----------------------------------------------------------------------------
(* The chunks make no difference *)

(* What may have drowned in the end: what has, and some of what lies ahead. *)
MayDrown == {deaf \in SUBSET Position : drowned \subseteq deaf /\ \A p \in deaf \ drowned : p >= i}

(* What was found, and what the walk still finds from where it is, is what one *)
(* walk finds: over the samples so far and over any that may follow, whatever  *)
(* preambles may still drown.                                                  *)
OnCourse ==
  \A e \in end .. Length : \A deaf \in MayDrown : Walk(e, deaf)[0] = found \o Walk(e, deaf)[i]

(* Only what lies behind the walk has drowned. *)
DrownedBehind == \A p \in drowned : p < i

(* The samples do not suffice for a step from i. *)
Stuck ==
  \/ ~ Window(i)
  \/ Window(i) /\ signal[i].what \notin {"noise", "reserved"} /\ ~ Whole(i)

CInv == IInv /\ (~ fast => OnCourse /\ DrownedBehind /\ (~ walking => Stuck))

(* Noise never clears the threshold. *)
LEMMA NoiseIsQuiet ==
  ASSUME TypeOK, NEW p \in Position, NEW a \in Nat, Clears(a, p)
  PROVE  signal[p].what # "noise"
<1>. DEFINE s == signal[p].score
<1>1. s \in Int /\ (signal[p].what = "noise" => s <= 0)
  BY FrameDetectorAssumption DEF TypeOK, Point
<1>. HIDE DEF s
<1>2. a \div Weight \in Nat /\ Gain \in Nat
  BY FrameDetectorAssumption
<1>3. Gain * (a \div Weight) \in Nat
  BY <1>2
<1>4. s > Gain * (a \div Weight)
  BY DEF Clears, s
<1>. QED
  BY <1>1, <1>3, <1>4

(* Found frames are moved from the front of what is still to find. *)
LEMMA MoveOver ==
  ASSUME NEW E, NEW s \in Seq(E), NEW x \in E, NEW t \in Seq(E)
  PROVE  s \o (<<x>> \o t) = Append(s, x) \o t
<1>1. <<x>> \in Seq(E)
  OBVIOUS
<1>2. (s \o <<x>>) \o t = s \o (<<x>> \o t)
  BY <1>1, ConcatAssociative
<1>3. Append(s, x) = s \o <<x>>
  BY AppendIsConcat
<1>. QED
  BY <1>2, <1>3

LEMMA InitCInv == Init => CInv
<1> SUFFICES ASSUME Init PROVE CInv
  OBVIOUS
<1>1. IInv /\ TypeOK /\ end = 0 /\ i = 0 /\ found = <<>> /\ drowned = {}
  BY InitIInv DEF Init, IInv
<1>2. ASSUME NEW e \in 0 .. Length, NEW deaf PROVE Walk(e, deaf)[0] = <<>> \o Walk(e, deaf)[0]
  <2>1. Walk(e, deaf)[0] \in Seq(Position)
    BY <1>1, WalkType, FrameDetectorAssumption
  <2>. QED
    BY <2>1, ConcatEmptySeq
<1>3. OnCourse
  BY <1>1, <1>2 DEF OnCourse
<1>4. Stuck
  BY <1>1, FrameDetectorAssumption DEF Stuck, Window
<1>5. DrownedBehind
  BY <1>1 DEF DrownedBehind
<1>. QED
  BY <1>1, <1>3, <1>4, <1>5 DEF CInv

LEMMA WalkStays ==
  ASSUME signal' = signal
  PROVE  \A e, deaf : Walk(e, deaf)' = Walk(e, deaf)
BY DEF Walk, Span

LEMMA FeedCInv ==
  ASSUME CInv, NEW n \in 1 .. Length, Feed(n)
  PROVE  CInv'
<1>1. IInv' /\ IInv
  BY FeedIInv DEF CInv
<1>2. /\ signal' = signal /\ found' = found /\ drowned' = drowned /\ fast' = fast
      /\ walking' /\ ~ walking /\ i' = base /\ end' = end + n
  BY DEF Feed
<1>3. ~ fast => i' = i
  BY <1>1, <1>2 DEF IInv, ResumesWhereItStopped
<1>4. end' .. Length \subseteq end .. Length
  BY <1>1, <1>2, FrameDetectorAssumption DEF IInv, TypeOK
<1>5. ASSUME ~ fast PROVE OnCourse'
  <2>1. MayDrown' = MayDrown
    BY <1>2, <1>3, <1>5 DEF MayDrown
  <2>2. OnCourse
    BY <1>5 DEF CInv
  <2>. QED
    <3>1. ASSUME NEW e \in end' .. Length, NEW deaf \in MayDrown'
          PROVE  Walk(e, deaf)'[0] = found' \o Walk(e, deaf)'[i']
      <4>1. Walk(e, deaf)' = Walk(e, deaf)
        BY <1>2, WalkStays
      <4>2. Walk(e, deaf)[0] = found \o Walk(e, deaf)[i]
        BY <1>4, <2>1, <2>2, <3>1 DEF OnCourse
      <4>. QED
        BY <1>2, <1>3, <1>5, <4>1, <4>2
    <3>. QED
      BY <3>1 DEF OnCourse
<1>6. ~ fast => DrownedBehind'
  BY <1>2, <1>3 DEF CInv, DrownedBehind
<1>. QED
  BY <1>1, <1>2, <1>5, <1>6 DEF CInv

(* Each step of the walk is a turn of the recursion. *)
LEMMA WalkCInv ==
  ASSUME CInv, PassOver \/ Detect
  PROVE  CInv'
<1>. USE FrameDetectorAssumption
<1>1. IInv' /\ IInv /\ TypeOK /\ OnCourse /\ DrownedBehind
  BY WalkIInv DEF CInv, IInv, PassOver, Detect, Turns
<1>2. /\ signal' = signal /\ fast' = fast /\ walking' /\ end' = end /\ ~ fast /\ Window(i)
      /\ i + Preamble + Short <= end /\ acc' \in Nat
  BY <1>1 DEF PassOver, Detect, Turns, Window, IInv, TypeOK
<1>3. i \in Position /\ i \in 0 .. Length /\ end \in 0 .. Length /\ found \in Seq(Position)
  <2>1. i \in Position
    BY <1>1, <1>2, WindowInStream
  <2>. QED
    BY <1>1, <2>1 DEF TypeOK, Position
<1>4. Span(i) \in {Preamble + Short, Preamble + Long}
  BY <1>1, <1>3, SpanBounds
<1>5. Clears(acc', i) => signal[i].what # "noise"
  BY <1>1, <1>2, <1>3, NoiseIsQuiet
<1>6. i' \in Int /\ i' > i
  <2>1. CASE PassOver
    BY <1>3, <2>1 DEF PassOver
  <2>2. CASE Detect
    BY <1>3, <1>4, <2>2 DEF Detect
  <2>. QED
    BY <2>1, <2>2
<1>7. drowned' = drowned \/ (PassOver /\ ~ Clears(acc', i) /\ drowned' = drowned \cup {i})
  BY DEF PassOver, Detect
<1>8. DrownedBehind'
  <2>1. \A p \in drowned : p < i /\ p \in Int
    BY <1>1 DEF DrownedBehind, TypeOK, Position
  <2>. QED
    BY <1>3, <1>6, <1>7, <2>1 DEF DrownedBehind
<1>9. ASSUME NEW e \in end .. Length, NEW deaf \in MayDrown'
      PROVE  Walk(e, deaf)[0] = found' \o Walk(e, deaf)[i']
  <2> DEFINE w == Walk(e, deaf)
  <2>1. e \in 0 .. Length /\ e \in Nat /\ ~ (i + Preamble + Short > e)
    BY <1>2, <1>3
  <2>a. deaf \subseteq Position /\ drowned' \subseteq deaf /\ \A p \in deaf \ drowned' : p >= i'
    BY <1>9 DEF MayDrown
  <2>2. deaf \in MayDrown
    <3>1. \A p \in deaf \ drowned : p \in Int /\ (p \notin drowned' \/ p = i)
      BY <1>7, <2>a DEF Position
    <3>2. \A p \in deaf \ drowned : p >= i
      BY <1>3, <1>6, <2>a, <3>1
    <3>. QED
      BY <1>7, <2>a, <3>2 DEF MayDrown
  <2>3. i \in deaf <=> drowned' # drowned
    <3>1. i \notin drowned
      BY <1>1, <1>3 DEF DrownedBehind, Position
    <3>2. i \in deaf => i \in drowned'
      BY <1>3, <1>6, <2>a DEF Position
    <3>. QED
      BY <1>7, <2>a, <3>1, <3>2
  <2>4. w[0] = found \o w[i]
    BY <1>1, <2>2 DEF OnCourse
  <2>5. w[i] = Turn(e, deaf, w, i) /\ \A p \in 0 .. Length : w[p] \in Seq(Position)
    BY <1>1, <1>3, <2>1, WalkIs, WalkType
  <2> HIDE DEF w
  <2>6. CASE PassOver
    <3>1. found' = found
      BY <2>6 DEF PassOver
    <3>2. w[i] = w[i']
      <4>1. CASE ~ Clears(acc', i)
        <5>1. i' = i + 1 /\ (signal[i].what = "noise" \/ i \in deaf)
          <6>1. /\ i' = i + 1
                /\ drowned' = IF signal[i].what = "noise" THEN drowned ELSE drowned \cup {i}
            BY <2>6, <4>1 DEF PassOver
          <6>2. i \notin drowned
            BY <1>1, <1>3 DEF DrownedBehind
          <6>. QED
            BY <2>3, <6>1, <6>2
        <5>. QED
          BY <2>1, <2>5, <5>1 DEF Turn
      <4>2. CASE Clears(acc', i)
        <5>1. i' = i + Preamble /\ signal[i].what = "reserved" /\ i \notin deaf
          BY <2>3, <2>6, <4>2 DEF PassOver
        <5>. QED
          BY <2>1, <2>5, <5>1 DEF Turn
      <4>. QED
        BY <4>1, <4>2
    <3>. QED
      BY <2>4, <3>1, <3>2 DEF w
  <2>7. CASE Detect
    <3>1. /\ i' = i + Span(i) /\ i + Span(i) <= end /\ signal[i].what \notin {"noise", "reserved"}
          /\ found' = IF signal[i].what = "weak" THEN found ELSE Append(found, i)
          /\ i \notin deaf
      BY <1>5, <2>3, <2>7 DEF Detect, Whole
    <3>2. ~ (i + Span(i) > e) /\ i' \in 0 .. Length
      BY <1>3, <1>4, <2>1, <3>1
    <3>3. CASE signal[i].what = "weak"
      <4>1. found' = found /\ w[i] = w[i']
        BY <2>1, <2>5, <3>1, <3>2, <3>3 DEF Turn
      <4>. QED
        BY <2>4, <4>1 DEF w
    <3>4. CASE signal[i].what # "weak"
      <4>1. found' = Append(found, i) /\ w[i] = <<i>> \o w[i']
        BY <2>1, <2>5, <3>1, <3>2, <3>4 DEF Turn
      <4>2. w[i'] \in Seq(Position)
        BY <2>5, <3>2
      <4>3. \A t \in Seq(Position) : found \o (<<i>> \o t) = Append(found, i) \o t
        BY <1>3, MoveOver
      <4>4. w[0] = found' \o w[i']
        BY <2>4, <4>1, <4>2, <4>3
      <4>. QED
        BY <4>4 DEF w
    <3>. QED
      BY <3>3, <3>4
  <2>. QED
    BY <2>6, <2>7
<1>10. OnCourse'
  BY <1>2, <1>9, WalkStays DEF OnCourse
<1>. QED
  BY <1>1, <1>2, <1>8, <1>10 DEF CInv

LEMMA StashCInv ==
  ASSUME CInv, Stash
  PROVE  CInv'
<1>1. IInv' /\ IInv
  BY WalkIInv DEF CInv
<1>2. /\ signal' = signal /\ fast' = fast /\ end' = end /\ i' = i /\ found' = found
      /\ drowned' = drowned /\ ~ fast
  BY DEF Stash, BreaksOff, Turns
<1>3. Stuck
  <2>1. CASE Turns /\ Clears(acc', i) /\ signal[i].what # "reserved" /\ ~ Whole(i)
    <3>1. i \in Position /\ acc' \in Nat
      BY <1>1, <2>1, WindowInStream DEF Turns, IInv, TypeOK
    <3>2. signal[i].what # "noise"
      BY <1>1, <2>1, <3>1, NoiseIsQuiet DEF IInv
    <3>. QED
      BY <2>1, <3>2 DEF Stuck, Turns
  <2>. QED
    BY <2>1 DEF Stash, BreaksOff, Stuck
<1>4. Stuck'
  BY <1>2, <1>3 DEF Stuck, Window, Whole, Span
<1>5. OnCourse' /\ DrownedBehind'
  BY <1>2, WalkStays DEF CInv, OnCourse, DrownedBehind, MayDrown
<1>. QED
  BY <1>1, <1>4, <1>5 DEF CInv

LEMMA NextCInv == CInv /\ [Next]_vars => CInv'
<1> SUFFICES ASSUME CInv, [Next]_vars PROVE CInv'
  OBVIOUS
<1>1. CASE \E n \in 1 .. Length : Feed(n)
  BY <1>1, FeedCInv
<1>2. CASE PassOver \/ Detect
  BY <1>2, WalkCInv
<1>3. CASE Stash
  BY <1>3, StashCInv
<1>4. CASE PassOver2400 \/ Detect2400 \/ Stash2400
  <2>1. IInv'
    BY <1>4, Walk2400IInv DEF CInv
  <2>2. fast'
    BY <1>4 DEF PassOver2400, Detect2400, Stash2400
  <2>. QED
    BY <2>1, <2>2 DEF CInv
<1>5. CASE UNCHANGED vars
  <2>1. IInv' /\ signal' = signal /\ fast' = fast /\ end' = end /\ i' = i /\ found' = found
        /\ walking' = walking /\ drowned' = drowned
    BY <1>5, NextIInv DEF CInv, vars
  <2>2. Stuck' <=> Stuck
    BY <2>1 DEF Stuck, Window, Whole, Span
  <2>3. MayDrown' = MayDrown
    BY <2>1 DEF MayDrown
  <2>4. (OnCourse => OnCourse') /\ (DrownedBehind => DrownedBehind')
    BY <2>1, <2>3, WalkStays DEF OnCourse, DrownedBehind
  <2>. QED
    BY <2>1, <2>2, <2>4 DEF CInv
<1>. QED
  BY <1>1, <1>2, <1>3, <1>4, <1>5 DEF Next

(* Where the walk has broken off there is nothing left to find. *)
LEMMA NothingLeft ==
  ASSUME TypeOK, DrownedBehind, Stuck
  PROVE  Walk(end, drowned)[i] = <<>>
<1>. USE FrameDetectorAssumption
<1>1. end \in 0 .. Length /\ i \in 0 .. Length
  BY DEF TypeOK
<1>2. Walk(end, drowned)[i] = Turn(end, drowned, Walk(end, drowned), i)
  BY <1>1, WalkIs
<1>3. CASE ~ Window(i)
  BY <1>1, <1>2, <1>3 DEF Turn, Window
<1>4. CASE Window(i) /\ signal[i].what \notin {"noise", "reserved"} /\ ~ Whole(i)
  <2>1. i \in Position
    BY <1>4, WindowInStream
  <2>2. Span(i) \in {Preamble + Short, Preamble + Long}
    BY <2>1, SpanBounds
  <2>3. i + Span(i) > end
    BY <1>1, <1>4, <2>2 DEF Whole
  <2>4. i \notin drowned
    BY <1>1 DEF DrownedBehind
  <2>. QED
    BY <1>2, <1>4, <2>3, <2>4 DEF Turn
<1>. QED
  BY <1>3, <1>4 DEF Stuck

(* However the stream is cut into chunks, at any rate but 2.4 MS/s, for any    *)
(* sizes and any stream: the frames found so far are those of one walk over    *)
(* all samples so far that passes over the preambles that have drowned, none   *)
(* lost, none twice, none that only a cut makes.                               *)
THEOREM SplitsDoNotMatterHolds == Spec => []SplitsDoNotMatter
<1>1. ASSUME CInv, ~ fast, ~ walking PROVE found = Walk(end, drowned)[0]
  <2>1. TypeOK /\ Stuck /\ OnCourse /\ DrownedBehind
    BY <1>1 DEF CInv, IInv
  <2>2. end \in end .. Length /\ drowned \in MayDrown
    BY <2>1, FrameDetectorAssumption DEF TypeOK, MayDrown
  <2>3. Walk(end, drowned)[0] = found \o Walk(end, drowned)[i]
    BY <2>1, <2>2 DEF OnCourse
  <2>4. Walk(end, drowned)[i] = <<>>
    BY <2>1, NothingLeft
  <2>5. found \o <<>> = found
    BY <2>1, ConcatEmptySeq DEF TypeOK
  <2>. QED
    BY <2>3, <2>4, <2>5
<1>2. CInv => SplitsDoNotMatter
  BY <1>1 DEF SplitsDoNotMatter
<1>. QED
  BY <1>2, InitCInv, NextCInv, PTL DEF Spec

================================================================================
