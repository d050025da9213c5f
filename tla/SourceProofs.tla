---------------------------- MODULE SourceProofs ----------------------------
(***************************************************************************)
(* Proofs about Source: for any files, transfers and sizes of buffer, any  *)
(* way of reading them in pieces, and any clients around them.             *)
(***************************************************************************)
EXTENDS Source, TLAPS, SequenceTheorems

-----------------------------------------------------------------------------
(* The process around the loop (Serve), for either kind of source *)

(* The flag is down exactly from the guard's first statement on, a permit    *)
(* implies that it is down, and a shutdown has one of its two causes.        *)
IInv ==
  /\ TypeOK
  /\ alive <=> decoder \in {"running", "finished", "failed"}
  /\ permit => ~ alive
  /\ http \in {"draining", "returned"} => interrupt \/ ~ alive
  /\ ZeroOnlyByInterrupt

LEMMA InitIInv == Init => IInv
BY ServeAssumption DEF Init, IInv, TypeOK, ZeroOnlyByInterrupt

LEMMA GuardIInv ==
  ASSUME IInv, GuardStoresFlag \/ GuardNotifies
  PROVE  IInv'
<1>1. CASE GuardStoresFlag
  BY <1>1 DEF GuardStoresFlag, DropStep, DropOrder, IInv, TypeOK, ZeroOnlyByInterrupt
<1>2. CASE GuardNotifies
  BY <1>2 DEF GuardNotifies, DropStep, DropOrder, Wake, IInv, TypeOK, ZeroOnlyByInterrupt
<1>. QED
  BY <1>1, <1>2

LEMMA MainIInv ==
  ASSUME IInv, Bind \/ BindFails \/ ShutDown \/ Drained \/ Exit
  PROVE  IInv'
<1>1. CASE Bind
  BY <1>1 DEF Bind, IInv, TypeOK, ZeroOnlyByInterrupt
<1>2. CASE BindFails
  BY <1>2 DEF BindFails, IInv, TypeOK, ZeroOnlyByInterrupt
<1>3. CASE ShutDown
  BY <1>3 DEF ShutDown, IInv, TypeOK, ZeroOnlyByInterrupt
<1>4. CASE Drained
  BY <1>4 DEF Drained, IInv, TypeOK, ZeroOnlyByInterrupt
<1>5. CASE Exit
  BY <1>5 DEF Exit, ExitCode, IInv, TypeOK, ZeroOnlyByInterrupt
<1>. QED
  BY <1>1, <1>2, <1>3, <1>4, <1>5

LEMMA WorldIInv ==
  ASSUME IInv,
         \/ DecoderFinishes \/ DecoderFails \/ Interrupt \/ Stop \/ Restart \/ Deactivate
         \/ \E c \in Client : OpenStream(c) \/ CloseStream(c)
  PROVE  IInv'
<1>1. CASE DecoderFinishes
  BY <1>1 DEF DecoderFinishes, IInv, TypeOK, ZeroOnlyByInterrupt
<1>2. CASE DecoderFails
  BY <1>2 DEF DecoderFails, IInv, TypeOK, ZeroOnlyByInterrupt
<1>3. CASE Interrupt
  BY <1>3 DEF Interrupt, IInv, TypeOK, ZeroOnlyByInterrupt
<1>4. CASE Stop
  BY <1>4 DEF Stop, IInv, TypeOK, ZeroOnlyByInterrupt
<1>5. CASE Restart
  BY <1>5, ServeAssumption DEF Restart, IInv, TypeOK, ZeroOnlyByInterrupt
<1>6. CASE Deactivate
  BY <1>6 DEF Deactivate, IInv, TypeOK, ZeroOnlyByInterrupt
<1>7. ASSUME NEW c \in Client, OpenStream(c) \/ CloseStream(c)
      PROVE  IInv'
  BY <1>7 DEF OpenStream, CloseStream, IInv, TypeOK, ZeroOnlyByInterrupt
<1>. QED
  BY <1>1, <1>2, <1>3, <1>4, <1>5, <1>6, <1>7

LEMMA StepIInv == IInv /\ [Next]_vars => IInv'
<1> SUFFICES ASSUME IInv, [Next]_vars PROVE IInv'
  OBVIOUS
<1>1. CASE UNCHANGED vars
  BY <1>1 DEF vars, IInv, TypeOK, ZeroOnlyByInterrupt
<1>. QED
  BY <1>1, GuardIInv, MainIInv, WorldIInv DEF Next, Progress

(* The state of the process keeps its types. *)
THEOREM TypeHolds == Spec => []TypeOK
<1>1. IInv => TypeOK
  BY DEF IInv
<1>. QED
  BY <1>1, InitIInv, StepIInv, PTL DEF Spec

(* A process that its decoder's death brought down exits with one, whatever  *)
(* the clients, the operator and the scheduler do in between: exit code zero *)
(* is reached by Ctrl-C only.                                                *)
THEOREM ZeroOnlyByInterruptHolds == Spec => []ZeroOnlyByInterrupt
<1>1. IInv => ZeroOnlyByInterrupt
  BY DEF IInv
<1>. QED
  BY <1>1, InitIInv, StepIInv, PTL DEF Spec

-----------------------------------------------------------------------------
(* The loop and its sources *)

(***************************************************************************)
(* Every step of the sources and the loop is one of Serve, or none.        *)
(***************************************************************************)
LEMMA EndStep ==
  ASSUME Running, decoder = "running", DecoderEnds(EndOfSource)
  PROVE  DecoderFinishes \/ DecoderFails
BY DEF DecoderEnds, EndOfSource, DecoderFinishes, DecoderFails

LEMMA TakeInStep ==
  ASSUME Running, decoder = "running", NEW bytes, NEW n, TakeIn(bytes, n)
  PROVE  [Next]_vars
BY EndStep DEF TakeIn, Next

LEMMA ConvertStep ==
  ASSUME Receiving, NEW bytes, NEW from, Convert(bytes, from)
  PROVE  [Next]_vars
BY TakeInStep DEF Convert, Receiving

LEMMA ServeStep == [SourceNext]_allVars => [Next]_vars
<1>. SUFFICES ASSUME [SourceNext]_allVars PROVE [Next]_vars
  OBVIOUS
<1>1. CASE \E n \in 1 .. max_bytes : FileReads(n)
  BY <1>1 DEF FileReads
<1>2. CASE FileReturns
  BY <1>2, TakeInStep DEF FileReturns, Replaying
<1>3. CASE RadioGoesOn
  BY <1>3, ConvertStep DEF RadioGoesOn
<1>4. CASE RadioEnds
  BY <1>4, TakeInStep DEF RadioEnds, Receiving
<1>5. CASE \E n \in Transfers : RadioReceives(n)
  BY <1>5, ConvertStep DEF RadioReceives
<1>6. CASE FileErrs
  BY <1>6 DEF FileErrs, Replaying, DecoderEnds, DecoderFails, Next
<1>7. CASE Break
  BY <1>7 DEF Break, Next
<1>8. CASE Unplug
  BY <1>8 DEF Unplug
<1>9. CASE Around
  BY <1>9 DEF Around, Next, Progress
<1>10. CASE Reopen
  BY <1>10 DEF Reopen, Next, Progress
<1>11. CASE UNCHANGED allVars
  BY <1>11 DEF allVars
<1>. QED
  BY <1>1, <1>2, <1>3, <1>4, <1>5, <1>6, <1>7, <1>8, <1>9, <1>10, <1>11 DEF SourceNext, Read

(* Whatever the sources do, what becomes of the decoder thread is what Serve *)
(* allows: a radio's end is a failure that brings the process down, a file's *)
(* end is none.  The fairness of the process is among what is assumed here.  *)
THEOREM SourceImplementsServe == SourceSpec => ImplementsServe
<1>1. SourceInit => Init
  BY DEF SourceInit
<1>. QED
  BY <1>1, ServeStep, PTL DEF SourceSpec, ImplementsServe, Spec

(* Exit code zero is reached by Ctrl-C only, with the ends that the sources *)
(* really report.                                                           *)
THEOREM SourceZeroOnlyByInterrupt == SourceSpec => []ZeroOnlyByInterrupt
BY SourceImplementsServe, ZeroOnlyByInterruptHolds, PTL DEF ImplementsServe

-----------------------------------------------------------------------------
(***************************************************************************)
(* What is still held back is the end of what was taken, and the samples   *)
(* handed on are what lies before it.                                      *)
(***************************************************************************)
Even(n) == \E h \in Nat : n = 2 * h

EndsWithTaken(bytes) == \A k \in 1 .. Len(bytes) : bytes[k] = taken - Len(bytes) + k

DataTypes ==
  /\ live \in BOOLEAN
  /\ size \in Nat /\ taken \in Nat /\ cursor \in Nat
  /\ byte_buf \in Seq(Nat) /\ leftover \in Seq(Nat)
  /\ samples \in Seq(Nat \X Nat)
  /\ result \in Nat \cup {None}

(* Of a file with an odd number of bytes the last one is dropped at its end. *)
FileInStep ==
  /\ taken <= size
  /\ EndsWithTaken(byte_buf)
  /\ Len(byte_buf) <= max_bytes
  /\ \/ 2 * Len(samples) + Len(byte_buf) = taken
     \/ taken = size /\ byte_buf = <<>> /\ 2 * Len(samples) + 1 = taken

RadioInStep ==
  /\ EndsWithTaken(leftover)
  /\ Even(Len(leftover)) /\ Even(cursor)
  /\ cursor <= Len(leftover)
  /\ 2 * Len(samples) = taken - Len(leftover) + cursor
  /\ decoder # "finished"

SourceIInv ==
  /\ DataTypes
  /\ live => RadioInStep
  /\ ~ live => FileInStep
  /\ SamplesAligned
  /\ ZeroMeansEnd

LEMMA MinOfTwo ==
  ASSUME NEW a \in Nat, NEW b \in Nat
  PROVE  /\ Min({a, b}) \in {a, b}
         /\ Min({a, b}) <= a /\ Min({a, b}) <= b
<1>1. \E x \in {a, b} : \A y \in {a, b} : x =< y
  <2>1. CASE a <= b
    BY <2>1
  <2>2. CASE b <= a
    BY <2>2
  <2>. QED
    BY <2>1, <2>2
<1>2. /\ Min({a, b}) \in {a, b}
      /\ \A y \in {a, b} : Min({a, b}) =< y
  BY <1>1, Zenon DEF Min
<1>. QED
  BY <1>2

LEMMA MaxBytesEven ==
  /\ max_bytes \in Nat /\ max_bytes >= 2
  /\ Even(max_bytes)
<1>1. Room \in Nat \ {0} /\ Scratch \in Nat \ {0}
  BY SourceAssumption
<1>2. Min({Room, Scratch}) \in Nat \ {0}
  BY <1>1, MinOfTwo
<1>3. max_bytes = 2 * Min({Room, Scratch})
  BY DEF max_bytes
<1>4. max_bytes \in Nat /\ max_bytes >= 2
  BY <1>2, <1>3
<1>. QED
  BY <1>2, <1>3, <1>4 DEF Even

LEMMA PairInside ==
  ASSUME NEW n \in Nat, NEW m \in Nat, 2 * n <= m, NEW k \in 1 .. n
  PROVE  2 * k - 1 \in 1 .. m /\ 2 * k \in 1 .. m
OBVIOUS

(* The bytes that follow the samples handed on become the samples that follow. *)
LEMMA Appended ==
  ASSUME samples \in Seq(Nat \X Nat),
         \A k \in DOMAIN samples : samples[k] = <<2 * k - 1, 2 * k>>,
         NEW bytes \in Seq(Nat), NEW n \in Nat, 2 * n <= Len(bytes),
         \A k \in 1 .. Len(bytes) : bytes[k] = 2 * Len(samples) + k
  PROVE  /\ samples \o Samples(bytes, n) \in Seq(Nat \X Nat)
         /\ Len(samples \o Samples(bytes, n)) = Len(samples) + n
         /\ \A k \in DOMAIN (samples \o Samples(bytes, n)) :
               (samples \o Samples(bytes, n))[k] = <<2 * k - 1, 2 * k>>
<1>. DEFINE new == Samples(bytes, n)
            all == samples \o new
<1>1. \A k \in 1 .. n : /\ 2 * k - 1 \in 1 .. Len(bytes)
                        /\ 2 * k \in 1 .. Len(bytes)
  <2>1. Len(bytes) \in Nat
    OBVIOUS
  <2>. QED
    BY <2>1, PairInside
<1>2. ASSUME NEW k \in 1 .. n
      PROVE  <<bytes[2 * k - 1], bytes[2 * k]>> \in Nat \X Nat
  <2>1. 2 * k - 1 \in 1 .. Len(bytes) /\ 2 * k \in 1 .. Len(bytes)
    BY <1>1
  <2>2. \A j \in 1 .. Len(bytes) : bytes[j] \in Nat
    OBVIOUS
  <2>. QED
    BY <2>1, <2>2
<1>3. new \in Seq(Nat \X Nat) /\ Len(new) = n
  BY <1>2 DEF Samples
<1>4. \A k \in 1 .. n : new[k] = <<bytes[2 * k - 1], bytes[2 * k]>>
  BY DEF Samples
<1>. HIDE DEF new, all
<1>5. \A k \in 1 .. n :
        new[k] = <<2 * (Len(samples) + k) - 1, 2 * (Len(samples) + k)>>
  <2>1. ASSUME NEW k \in 1 .. n
        PROVE  new[k] = <<2 * (Len(samples) + k) - 1, 2 * (Len(samples) + k)>>
    <3>1. /\ bytes[2 * k - 1] = 2 * Len(samples) + (2 * k - 1)
          /\ bytes[2 * k] = 2 * Len(samples) + 2 * k
      BY <1>1
    <3>2. Len(samples) \in Nat
      OBVIOUS
    <3>3. /\ 2 * Len(samples) + (2 * k - 1) = 2 * (Len(samples) + k) - 1
          /\ 2 * Len(samples) + 2 * k = 2 * (Len(samples) + k)
      BY <3>2
    <3>. QED
      BY <1>4, <3>1, <3>3
  <2>. QED
    BY <2>1
<1>6. /\ all \in Seq(Nat \X Nat) /\ Len(all) = Len(samples) + n
      /\ \A k \in 1 .. Len(samples) + n :
            all[k] = IF k <= Len(samples) THEN samples[k] ELSE new[k - Len(samples)]
  <2>. DEFINE S == Nat \X Nat
  <2>1. all = samples \o new
    BY DEF all
  <2>2. samples \in Seq(S) /\ new \in Seq(S)
    BY <1>3
  <2>. HIDE DEF S
  <2>3. /\ samples \o new \in Seq(S)
        /\ Len(samples \o new) = Len(samples) + Len(new)
        /\ \A k \in 1 .. Len(samples) + Len(new) :
              (samples \o new)[k] = IF k <= Len(samples) THEN samples[k] ELSE new[k - Len(samples)]
    BY <2>2, ConcatProperties, Zenon
  <2>. QED
    BY <1>3, <2>1, <2>3, Zenon DEF S
<1>7. ASSUME NEW k \in 1 .. Len(samples) + n
      PROVE  all[k] = <<2 * k - 1, 2 * k>>
  <2>1. Len(samples) \in Nat /\ DOMAIN samples = 1 .. Len(samples)
    BY LenProperties
  <2>2. CASE k <= Len(samples)
    <3>1. k \in DOMAIN samples
      BY <2>1, <2>2
    <3>2. all[k] = samples[k]
      BY <1>6, <2>2, Zenon
    <3>. QED
      BY <3>1, <3>2, Zenon
  <2>3. CASE ~ (k <= Len(samples))
    <3>1. /\ k - Len(samples) \in 1 .. n
          /\ Len(samples) + (k - Len(samples)) = k
      BY <2>1, <2>3
    <3>2. all[k] = new[k - Len(samples)]
      BY <1>6, <2>3, Zenon
    <3>. QED
      BY <1>5, <3>1, <3>2, Zenon
  <2>. QED
    BY <2>2, <2>3
<1>8. DOMAIN all = 1 .. Len(samples) + n
  BY <1>6
<1>. QED
  BY <1>6, <1>7, <1>8, Zenon DEF all, new

(* What is taken next follows what is held back. *)
LEMMA Longer ==
  ASSUME NEW t \in Nat, NEW buf \in Seq(Nat),
         \A k \in 1 .. Len(buf) : buf[k] = t - Len(buf) + k,
         NEW n \in Nat, NEW u, u = t + n,
         NEW all, all = buf \o [k \in 1 .. n |-> t + k]
  PROVE  /\ all \in Seq(Nat)
         /\ Len(all) = Len(buf) + n
         /\ \A k \in 1 .. Len(all) : all[k] = u - Len(all) + k
<1>. DEFINE more == [k \in 1 .. n |-> t + k]
<1>1. more \in Seq(Nat) /\ Len(more) = n /\ \A k \in 1 .. n : more[k] = t + k
  OBVIOUS
<1>2. all = buf \o more
  OBVIOUS
<1>. HIDE DEF more
<1>3. /\ all \in Seq(Nat) /\ Len(all) = Len(buf) + n
      /\ \A k \in 1 .. Len(buf) + n :
            all[k] = IF k <= Len(buf) THEN buf[k] ELSE more[k - Len(buf)]
  BY <1>1, <1>2, ConcatProperties
<1>4. Len(buf) \in Nat
  OBVIOUS
<1>. QED
  BY <1>1, <1>3, <1>4

LEMMA InitData == SourceInit => SourceIInv
<1>. SUFFICES ASSUME SourceInit PROVE SourceIInv
  OBVIOUS
<1>1. /\ live \in BOOLEAN /\ decoder = "running"
      /\ size \in Nat /\ taken = 0 /\ cursor = 0 /\ result = None
      /\ byte_buf = <<>> /\ leftover = <<>> /\ samples = <<>>
  BY SourceAssumption DEF SourceInit, Init
<1>2. DataTypes
  BY <1>1 DEF DataTypes
<1>3. RadioInStep
  <2>1. Even(0)
    BY 0 = 2 * 0 DEF Even
  <2>2. EndsWithTaken(leftover) /\ Len(leftover) = 0 /\ Len(samples) = 0
    BY <1>1 DEF EndsWithTaken
  <2>3. Even(Len(leftover)) /\ Even(cursor)
    BY <1>1, <2>1, <2>2, Zenon
  <2>4. cursor <= Len(leftover) /\ 2 * Len(samples) = taken - Len(leftover) + cursor
    <3>1. taken = 0 /\ cursor = 0
      BY <1>1
    <3>. QED
      BY <2>2, <3>1
  <2>. QED
    BY <1>1, <2>2, <2>3, <2>4 DEF RadioInStep
<1>4. FileInStep
  BY <1>1, MaxBytesEven DEF FileInStep, EndsWithTaken
<1>5. SamplesAligned
  <2>1. DOMAIN samples = {}
    BY <1>1
  <2>. QED
    BY <1>1, <2>1 DEF SamplesAligned
<1>6. ZeroMeansEnd
  BY <1>1, ServeAssumption DEF ZeroMeansEnd
<1>. QED
  BY <1>2, <1>3, <1>4, <1>5, <1>6 DEF SourceIInv

LEMMA FileReadsData ==
  ASSUME SourceIInv, NEW n \in 1 .. max_bytes, FileReads(n)
  PROVE  SourceIInv'
<1>1. /\ ~ live /\ ~ Filled
      /\ n <= Min({max_bytes - Len(byte_buf), size - taken})
      /\ byte_buf' = byte_buf \o Bytes(n)
      /\ taken' = taken + n
      /\ UNCHANGED <<live, decoder, size, leftover, cursor, gone, samples, result>>
  BY DEF FileReads, Replaying, vars
<1>2. DataTypes /\ FileInStep /\ SamplesAligned /\ ZeroMeansEnd
  BY <1>1 DEF SourceIInv
<1>3. max_bytes \in Nat /\ n \in Nat \ {0}
  BY MaxBytesEven
<1>4. n <= max_bytes - Len(byte_buf) /\ n <= size - taken
  <2>1. max_bytes - Len(byte_buf) \in Nat /\ size - taken \in Nat
    BY <1>2, <1>3 DEF DataTypes, FileInStep
  <2>. DEFINE least == Min({max_bytes - Len(byte_buf), size - taken})
  <2>2. /\ least \in {max_bytes - Len(byte_buf), size - taken}
        /\ least <= max_bytes - Len(byte_buf) /\ least <= size - taken
    BY <2>1, MinOfTwo
  <2>3. n <= least
    BY <1>1
  <2>. HIDE DEF least
  <2>. QED
    BY <1>3, <2>1, <2>2, <2>3
<1>5. /\ byte_buf' \in Seq(Nat)
      /\ Len(byte_buf') = Len(byte_buf) + n
      /\ \A k \in 1 .. Len(byte_buf') : byte_buf'[k] = taken' - Len(byte_buf') + k
  BY <1>1, <1>2, <1>3, Longer DEF DataTypes, FileInStep, EndsWithTaken, Bytes
<1>6. taken # size
  BY <1>1 DEF Filled
<1>7. DataTypes'
  BY <1>1, <1>2, <1>3, <1>5 DEF DataTypes
<1>8. FileInStep'
  <2>. DEFINE held == Len(byte_buf)
              ahead == Len(samples)
  <2>1. max_bytes' = max_bytes
    BY DEF max_bytes
  <2>2. /\ taken' = taken + n /\ size' = size /\ Len(samples') = ahead
        /\ Len(byte_buf') = held + n
    BY <1>1, <1>5
  <2>3. EndsWithTaken(byte_buf)'
    BY <1>5, Zenon DEF EndsWithTaken
  <2>4. held \in Nat /\ ahead \in Nat /\ taken \in Nat /\ size \in Nat
    BY <1>2 DEF DataTypes
  <2>5. 2 * ahead + held = taken
    BY <1>2, <1>6 DEF FileInStep
  <2>. HIDE DEF held, ahead
  <2>6. taken' <= size' /\ held + n <= max_bytes
    BY <1>3, <1>4, <2>2, <2>4 DEF held
  <2>7. 2 * ahead + (held + n) = taken'
    BY <1>3, <2>2, <2>4, <2>5
  <2>8. 2 * Len(samples') + Len(byte_buf') = taken'
    BY <2>2, <2>7
  <2>. QED
    BY <2>1, <2>2, <2>3, <2>6, <2>8 DEF FileInStep
<1>9. SamplesAligned' /\ ZeroMeansEnd'
  BY <1>1, <1>2, <1>6 DEF SamplesAligned, ZeroMeansEnd
<1>. QED
  BY <1>1, <1>7, <1>8, <1>9 DEF SourceIInv

LEMMA FileReturnsData ==
  ASSUME SourceIInv, FileReturns
  PROVE  SourceIInv'
<1>. DEFINE n == Len(byte_buf) \div 2
            held == Len(byte_buf)
            ahead == Len(samples)
<1>1. /\ ~ live /\ Filled /\ decoder = "running"
      /\ TakeIn(byte_buf, n)
      /\ byte_buf' = <<>>
      /\ UNCHANGED <<size, taken, leftover, cursor, gone>>
  BY DEF FileReturns, Replaying
<1>2. DataTypes /\ FileInStep /\ SamplesAligned /\ ZeroMeansEnd
  BY <1>1 DEF SourceIInv
<1>3. /\ held \in Nat /\ ahead \in Nat /\ n \in Nat /\ taken \in Nat /\ size \in Nat
      /\ 2 * n = held \/ 2 * n + 1 = held
  BY <1>2 DEF DataTypes
<1>4. /\ live' = live /\ result' = n /\ samples' = samples \o Samples(byte_buf, n)
      /\ n = 0 => decoder' = "finished"
      /\ n # 0 => decoder' = "running"
  BY <1>1 DEF TakeIn, DecoderEnds, EndOfSource, vars
<1>5. \A k \in 1 .. held : byte_buf[k] = 2 * ahead + k
  <2>1. CASE 2 * ahead + held = taken
    <3>1. ASSUME NEW k \in 1 .. held
          PROVE  byte_buf[k] = 2 * ahead + k
      <4>1. byte_buf[k] = taken - held + k
        BY <1>2 DEF FileInStep, EndsWithTaken
      <4>2. taken - held + k = 2 * ahead + k
        BY <1>3, <2>1
      <4>. QED
        BY <4>1, <4>2
    <3>. QED
      BY <3>1
  <2>2. CASE byte_buf = <<>>
    BY <2>2
  <2>. QED
    BY <1>2, <2>1, <2>2 DEF FileInStep
<1>6. 2 * n <= held /\ held <= max_bytes
  BY <1>2, <1>3 DEF FileInStep
<1>7. /\ samples' \in Seq(Nat \X Nat)
      /\ Len(samples') = ahead + n
      /\ \A k \in DOMAIN samples' : samples'[k] = <<2 * k - 1, 2 * k>>
  <2>. HIDE DEF n
  <2>1. /\ samples \in Seq(Nat \X Nat) /\ byte_buf \in Seq(Nat)
        /\ \A k \in DOMAIN samples : samples[k] = <<2 * k - 1, 2 * k>>
    BY <1>2 DEF DataTypes, SamplesAligned
  <2>2. 2 * n <= Len(byte_buf)
    BY <1>6
  <2>3. \A k \in 1 .. Len(byte_buf) : byte_buf[k] = 2 * Len(samples) + k
    BY <1>5
  <2>4. n \in Nat
    BY <1>3
  <2>. QED
    BY <1>4, <2>1, <2>2, <2>3, <2>4, Appended, Zenon
<1>8. held = max_bytes \/ taken = size
  BY <1>1 DEF Filled
<1>9. \/ 2 * ahead + held = taken
      \/ taken = size /\ held = 0 /\ 2 * ahead + 1 = taken
  <2>1. byte_buf = <<>> => held = 0
    OBVIOUS
  <2>. QED
    BY <1>2, <2>1 DEF FileInStep
<1>. HIDE DEF n, held, ahead
<1>10. /\ 2 * (ahead + n) = taken \/ (taken = size /\ 2 * (ahead + n) + 1 = taken)
       /\ n = 0 => (taken = size /\ ahead = size \div 2)
  <2>1. PICK h \in Nat : max_bytes = 2 * h
    BY MaxBytesEven DEF Even
  <2>2. CASE 2 * n = held
    BY <1>3, <1>6, <1>8, <1>9, <2>2, MaxBytesEven
  <2>3. CASE 2 * n + 1 = held
    BY <1>3, <1>6, <1>8, <1>9, <2>1, <2>3, MaxBytesEven
  <2>. QED
    BY <1>3, <2>2, <2>3
<1>11. DataTypes'
  <2>1. byte_buf' \in Seq(Nat)
    BY <1>1
  <2>. QED
    BY <1>1, <1>2, <1>3, <1>4, <1>7, <2>1, Zenon DEF DataTypes
<1>12. FileInStep'
  <2>1. max_bytes' = max_bytes /\ max_bytes \in Nat
    BY MaxBytesEven DEF max_bytes
  <2>2. Len(byte_buf') = 0 /\ EndsWithTaken(byte_buf)'
    BY <1>1 DEF EndsWithTaken
  <2>3. taken' = taken /\ size' = size /\ taken <= size
    BY <1>1, <1>2 DEF FileInStep
  <2>4. 2 * Len(samples') + 0 = 2 * (ahead + n) /\ 2 * Len(samples') + 1 = 2 * (ahead + n) + 1
    BY <1>3, <1>7
  <2>. QED
    BY <1>1, <1>10, <2>1, <2>2, <2>3, <2>4 DEF FileInStep
<1>13. SamplesAligned'
  <2>1. decoder' = "finished" => Len(samples') = size' \div 2
    BY <1>1, <1>3, <1>4, <1>7, <1>10
  <2>. QED
    BY <1>7, <2>1, Zenon DEF SamplesAligned
<1>14. ZeroMeansEnd'
  BY <1>1, <1>4, <1>10 DEF ZeroMeansEnd
<1>. QED
  BY <1>1, <1>4, <1>11, <1>12, <1>13, <1>14 DEF SourceIInv

(* What is left of a transfer continues the samples handed on. *)
LEMMA RestContinues ==
  ASSUME NEW bytes \in Seq(Nat), NEW from \in Nat, from < Len(bytes), NEW a \in Nat,
         \A k \in 1 .. Len(bytes) : bytes[k] = 2 * a - from + k
  PROVE  /\ SubSeq(bytes, from + 1, Len(bytes)) \in Seq(Nat)
         /\ Len(SubSeq(bytes, from + 1, Len(bytes))) = Len(bytes) - from
         /\ \A k \in 1 .. Len(bytes) - from :
               SubSeq(bytes, from + 1, Len(bytes))[k] = 2 * a + k
<1>. DEFINE l == Len(bytes)
            rest == SubSeq(bytes, from + 1, l)
<1>1. l \in Nat /\ \A i \in from + 1 .. l : bytes[i] \in Nat
  OBVIOUS
<1>2. /\ rest \in Seq(Nat)
      /\ Len(rest) = IF from + 1 <= l THEN l - (from + 1) + 1 ELSE 0
      /\ \A k \in 1 .. l - (from + 1) + 1 : rest[k] = bytes[from + 1 + k - 1]
  <2>. HIDE DEF l
  <2>. QED
    BY <1>1, SubSeqProperties
<1>. HIDE DEF rest
<1>3. Len(rest) = l - from /\ l - (from + 1) + 1 = l - from
  BY <1>1, <1>2
<1>4. ASSUME NEW k \in 1 .. l - from
      PROVE  rest[k] = 2 * a + k
  <2>1. from + k \in 1 .. l /\ from + 1 + k - 1 = from + k
    BY <1>1
  <2>2. rest[k] = bytes[from + k]
    BY <1>2, <1>3, <2>1
  <2>3. bytes[from + k] = 2 * a - from + (from + k)
    BY <2>1
  <2>4. 2 * a - from + (from + k) = 2 * a + k
    BY <1>1
  <2>. QED
    BY <2>2, <2>3, <2>4
<1>. QED
  BY <1>2, <1>3, <1>4, Zenon DEF rest

(* A read of a radio takes whole samples, at least one, from what is left of  *)
(* a transfer, whether it has just come or is left over.                      *)
LEMMA ConvertData ==
  ASSUME SourceIInv, Receiving,
         NEW t \in Nat, taken' = t,
         NEW bytes \in Seq(Nat), NEW from \in Nat, from < Len(bytes),
         Even(Len(bytes)), Even(from),
         \A k \in 1 .. Len(bytes) : bytes[k] = t - Len(bytes) + k,
         2 * Len(samples) = t - Len(bytes) + from,
         Convert(bytes, from)
  PROVE  SourceIInv'
<1>. DEFINE rest == SubSeq(bytes, from + 1, Len(bytes))
            n == max_pairs(Len(bytes) - from)
            all == Len(bytes)
            ahead == Len(samples)
<1>1. DataTypes /\ RadioInStep /\ SamplesAligned /\ live /\ decoder = "running"
  BY DEF SourceIInv, Receiving
<1>2. PICK h \in Nat, c \in Nat : all = 2 * h /\ from = 2 * c
  BY DEF Even
<1>3. n \in Nat \ {0} /\ n <= h - c
  <2>1. h - c \in Nat \ {0} /\ (all - from) \div 2 = h - c
    <3>1. h - c \in Nat \ {0} /\ all - from = 2 * (h - c)
      BY <1>2
    <3>2. \A x \in Nat : (2 * x) \div 2 = x
      OBVIOUS
    <3>. QED
      BY <3>1, <3>2
  <2>2. Room \in Nat \ {0}
    BY SourceAssumption
  <2>3. n = Min({Room, h - c})
    BY <2>1 DEF max_pairs
  <2>. QED
    BY <2>1, <2>2, <2>3, MinOfTwo
<1>4. /\ live' = live /\ decoder' = decoder /\ size' = size /\ byte_buf' = byte_buf
      /\ gone' = gone /\ result' = n /\ leftover' = bytes /\ cursor' = from + 2 * n
      /\ samples' = samples \o Samples(rest, n)
  BY <1>3 DEF Convert, TakeIn, Advanced, vars
<1>. HIDE DEF n
<1>5. ahead \in Nat /\ all \in Nat /\ t \in Nat
  BY <1>1 DEF DataTypes
<1>6. /\ rest \in Seq(Nat) /\ Len(rest) = all - from
      /\ \A k \in 1 .. Len(rest) : rest[k] = 2 * ahead + k
  <2>1. ASSUME NEW k \in 1 .. Len(bytes)
        PROVE  bytes[k] = 2 * ahead - from + k
    <3>1. bytes[k] = t - all + k
      OBVIOUS
    <3>2. t - all = 2 * ahead - from
      <4>1. 2 * ahead = t - all + from
        OBVIOUS
      <4>. HIDE DEF all, ahead
      <4>. QED
        BY <1>5, <4>1
    <3>. QED
      BY <3>1, <3>2
  <2>2. ahead \in Nat
    BY <1>5
  <2>. HIDE DEF ahead
  <2>3. /\ rest \in Seq(Nat) /\ Len(rest) = all - from
        /\ \A k \in 1 .. all - from : rest[k] = 2 * ahead + k
    BY <2>1, <2>2, RestContinues, Zenon
  <2>. QED
    BY <2>3
<1>8. /\ samples' \in Seq(Nat \X Nat)
      /\ Len(samples') = ahead + n
      /\ \A k \in DOMAIN samples' : samples'[k] = <<2 * k - 1, 2 * k>>
  <2>1. /\ samples \in Seq(Nat \X Nat)
        /\ \A k \in DOMAIN samples : samples[k] = <<2 * k - 1, 2 * k>>
    BY <1>1 DEF DataTypes, SamplesAligned
  <2>2. n \in Nat /\ 2 * n <= Len(rest)
    <3>. HIDE DEF rest, all
    <3>. QED
      BY <1>2, <1>3, <1>6
  <2>3. /\ rest \in Seq(Nat)
        /\ \A k \in 1 .. Len(rest) : rest[k] = 2 * Len(samples) + k
        /\ samples' = samples \o Samples(rest, n)
    BY <1>4, <1>6, Zenon
  <2>. HIDE DEF rest
  <2>. QED
    BY <2>1, <2>2, <2>3, Appended, Zenon
<1>. HIDE DEF rest, all, ahead
<1>9. DataTypes'
  <2>1. cursor' \in Nat /\ result' \in Nat
    BY <1>3, <1>4
  <2>. QED
    BY <1>1, <1>4, <1>8, <2>1, Zenon DEF DataTypes
<1>10. RadioInStep'
  <2>1. EndsWithTaken(leftover)'
    BY <1>4, Zenon DEF EndsWithTaken
  <2>2. Even(cursor)'
    <3>1. c + n \in Nat /\ cursor' = 2 * (c + n)
      BY <1>2, <1>3, <1>4
    <3>. QED
      BY <3>1, Zenon DEF Even
  <2>3. Even(Len(leftover))' /\ Len(leftover') = all
    BY <1>4, Zenon DEF all
  <2>4. cursor' <= all
    BY <1>2, <1>3, <1>4, <1>5
  <2>5. 2 * ahead = t - all + from
    BY DEF ahead, all
  <2>6. 2 * (ahead + n) = t - all + (from + 2 * n)
    <3>1. n \in Nat
      BY <1>3
    <3>2. from \in Nat
      OBVIOUS
    <3>. QED
      BY ONLY <1>5, <2>5, <3>1, <3>2
  <2>7. cursor' <= Len(leftover') /\ 2 * Len(samples') = t - Len(leftover') + cursor'
    BY <1>4, <1>8, <2>3, <2>4, <2>6
  <2>. QED
    BY <1>1, <1>4, <2>1, <2>2, <2>3, <2>7, taken' = t, Zenon DEF RadioInStep
<1>11. SamplesAligned' /\ ZeroMeansEnd'
  <2>1. decoder' # "finished" /\ result' # 0
    BY <1>1, <1>3, <1>4
  <2>. QED
    BY <1>8, <2>1, Zenon DEF SamplesAligned, ZeroMeansEnd
<1>. QED
  BY <1>1, <1>4, <1>9, <1>10, <1>11 DEF SourceIInv

LEMMA RadioData ==
  ASSUME SourceIInv, RadioGoesOn \/ (\E n \in Transfers : RadioReceives(n))
  PROVE  SourceIInv'
<1>1. CASE RadioGoesOn
  <2>1. DataTypes /\ RadioInStep /\ Receiving /\ cursor < Len(leftover) /\ taken' = taken
    BY <1>1 DEF RadioGoesOn, Receiving, SourceIInv, DataTypes, RadioInStep
  <2>2. Convert(leftover, cursor)
    BY <1>1 DEF RadioGoesOn
  <2>3. /\ leftover \in Seq(Nat) /\ cursor \in Nat /\ taken \in Nat
        /\ Even(Len(leftover)) /\ Even(cursor)
        /\ \A k \in 1 .. Len(leftover) : leftover[k] = taken - Len(leftover) + k
        /\ 2 * Len(samples) = taken - Len(leftover) + cursor
    BY <2>1 DEF DataTypes, RadioInStep, EndsWithTaken
  <2>. QED
    BY <2>1, <2>2, <2>3, ConvertData
<1>2. ASSUME NEW n \in Transfers, RadioReceives(n)
      PROVE  SourceIInv'
  <2>. DEFINE bytes == Bytes(n)
              t == taken + n
  <2>1. /\ Receiving /\ Convert(bytes, 0) /\ taken' = t /\ cursor >= Len(leftover)
    BY <1>2 DEF RadioReceives
  <2>2. DataTypes /\ RadioInStep
    BY <2>1 DEF Receiving, SourceIInv
  <2>3. n \in Nat \ {0} /\ n % 2 = 0
    BY SourceAssumption
  <2>4. /\ bytes \in Seq(Nat) /\ Len(bytes) = n
        /\ \A k \in 1 .. n : bytes[k] = taken + k
    BY <2>2, <2>3 DEF DataTypes, Bytes
  <2>. HIDE DEF bytes
  <2>5. /\ cursor \in Nat /\ taken \in Nat /\ Len(leftover) \in Nat
        /\ cursor <= Len(leftover)
        /\ 2 * Len(samples) = taken - Len(leftover) + cursor
    BY <2>2 DEF DataTypes, RadioInStep
  <2>6. 2 * Len(samples) = t - n + 0 /\ t \in Nat
    BY <2>1, <2>3, <2>5
  <2>7. \A k \in 1 .. n : bytes[k] = t - n + k
    BY <2>1, <2>3, <2>4, <2>5
  <2>8. Even(n) /\ Even(0)
    <3>1. n \div 2 \in Nat /\ n = 2 * (n \div 2)
      BY <2>3
    <3>2. 0 = 2 * 0
      OBVIOUS
    <3>. QED
      BY <3>1, <3>2 DEF Even
  <2>9. 0 < Len(bytes)
    BY <2>3, <2>4
  <2>. HIDE DEF t
  <2>. QED
    BY <2>1, <2>4, <2>6, <2>7, <2>8, <2>9, ConvertData, Zenon
<1>. QED
  BY <1>1, <1>2

(* Of the end of a radio's stream nothing is handed on. *)
LEMMA RadioEndsData ==
  ASSUME SourceIInv, RadioEnds
  PROVE  SourceIInv'
<1>1. /\ live /\ gone /\ DataTypes /\ RadioInStep /\ SamplesAligned
  BY DEF RadioEnds, Receiving, SourceIInv
<1>2. /\ live' = live /\ decoder' = "failed" /\ result' = 0
      /\ samples' = samples \o Samples(<<>>, 0)
      /\ UNCHANGED <<size, taken, byte_buf, leftover, cursor, gone>>
  BY <1>1 DEF RadioEnds, TakeIn, DecoderEnds, EndOfSource
<1>3. /\ samples' \in Seq(Nat \X Nat)
      /\ Len(samples') = Len(samples) + 0
      /\ \A k \in DOMAIN samples' : samples'[k] = <<2 * k - 1, 2 * k>>
  <2>1. /\ samples \in Seq(Nat \X Nat)
        /\ \A k \in DOMAIN samples : samples[k] = <<2 * k - 1, 2 * k>>
    BY <1>1 DEF DataTypes, SamplesAligned
  <2>. DEFINE none == <<>>
  <2>2. none \in Seq(Nat) /\ 2 * 0 <= Len(none) /\ 0 \in Nat
    OBVIOUS
  <2>3. \A k \in 1 .. Len(none) : none[k] = 2 * Len(samples) + k
    OBVIOUS
  <2>4. samples' = samples \o Samples(none, 0)
    BY <1>2
  <2>. HIDE DEF none
  <2>. QED
    BY <2>1, <2>2, <2>3, <2>4, Appended, Zenon
<1>4. DataTypes'
  BY <1>1, <1>2, <1>3 DEF DataTypes
<1>5. RadioInStep'
  <2>1. Len(samples') = Len(samples)
    BY <1>1, <1>3 DEF DataTypes
  <2>2. decoder' # "finished"
    BY <1>2
  <2>. QED
    BY <1>1, <1>2, <2>1, <2>2, Zenon DEF RadioInStep, EndsWithTaken
<1>6. SamplesAligned' /\ ZeroMeansEnd'
  <2>1. decoder' # "finished"
    BY <1>2
  <2>. QED
    BY <1>1, <1>2, <1>3, <2>1, Zenon DEF SamplesAligned, ZeroMeansEnd
<1>. QED
  BY <1>1, <1>2, <1>4, <1>5, <1>6 DEF SourceIInv

(* What happens around the sources does not touch their state, and finishes *)
(* no decoder.                                                              *)
LEMMA AroundData ==
  ASSUME SourceIInv,
         \/ (Around \/ FileErrs \/ Break) /\ UNCHANGED sourceVars
         \/ UNCHANGED allVars
  PROVE  SourceIInv'
<1>1. UNCHANGED sourceVars /\ live' = live
  BY DEF allVars, vars, sourceVars, Around, FileErrs, Break, DecoderEnds, DecoderFails,
         GuardStoresFlag, GuardNotifies, Bind, BindFails, ShutDown, Drained, Exit,
         Deactivate, Interrupt, Stop, OpenStream, CloseStream
<1>2. decoder' = "finished" => decoder = "finished"
  BY DEF allVars, vars, Around, FileErrs, Break, DecoderEnds, DecoderFails,
         GuardStoresFlag, GuardNotifies, DropStep, DropOrder,
         Bind, BindFails, ShutDown, Drained, Exit,
         Deactivate, Interrupt, Stop, OpenStream, CloseStream
<1>3. /\ live' = live /\ size' = size /\ taken' = taken /\ byte_buf' = byte_buf
      /\ leftover' = leftover /\ cursor' = cursor /\ gone' = gone
      /\ samples' = samples /\ result' = result
  BY <1>1 DEF sourceVars
<1>4. DataTypes'
  BY <1>3 DEF SourceIInv, DataTypes
<1>5. live => RadioInStep'
  BY <1>2, <1>3, Zenon DEF SourceIInv, RadioInStep, EndsWithTaken
<1>6. ~ live => FileInStep'
  <2>1. max_bytes' = max_bytes
    BY DEF max_bytes
  <2>. QED
    BY <1>3, <2>1, Zenon DEF SourceIInv, FileInStep, EndsWithTaken
<1>7. SamplesAligned' /\ ZeroMeansEnd'
  BY <1>2, <1>3, Zenon DEF SourceIInv, SamplesAligned, ZeroMeansEnd
<1>. QED
  BY <1>3, <1>4, <1>5, <1>6, <1>7 DEF SourceIInv

LEMMA UnplugData ==
  ASSUME SourceIInv, Unplug
  PROVE  SourceIInv'
<1>1. /\ live /\ live' = live /\ decoder' = decoder /\ gone' = TRUE
      /\ size' = size /\ taken' = taken /\ byte_buf' = byte_buf
      /\ leftover' = leftover /\ cursor' = cursor
      /\ samples' = samples /\ result' = result
  BY DEF Unplug, Receiving, vars
<1>2. DataTypes' /\ RadioInStep'
  BY <1>1, Zenon DEF SourceIInv, DataTypes, RadioInStep, EndsWithTaken
<1>3. SamplesAligned' /\ ZeroMeansEnd'
  BY <1>1, Zenon DEF SourceIInv, SamplesAligned, ZeroMeansEnd
<1>. QED
  BY <1>1, <1>2, <1>3 DEF SourceIInv

(* A new process begins at the first byte again. *)
LEMMA ReopenData ==
  ASSUME SourceIInv, Reopen
  PROVE  SourceIInv'
<1>1. /\ live' = live /\ decoder' = "running" /\ size' = size
      /\ taken' = 0 /\ byte_buf' = <<>> /\ leftover' = <<>> /\ cursor' = 0
      /\ samples' = <<>> /\ result' = None
  BY DEF Reopen, Restart
<1>2. live \in BOOLEAN /\ size \in Nat
  BY DEF SourceIInv, DataTypes
<1>3. DataTypes'
  BY <1>1, <1>2 DEF DataTypes
<1>4. Len(leftover') = 0 /\ Len(samples') = 0 /\ Len(byte_buf') = 0
  BY <1>1
<1>5. EndsWithTaken(leftover)' /\ EndsWithTaken(byte_buf)'
  BY <1>4 DEF EndsWithTaken
<1>6. RadioInStep'
  <2>1. Even(0)
    BY 0 = 2 * 0 DEF Even
  <2>2. Even(Len(leftover))' /\ Even(cursor)'
    BY <1>1, <1>4, <2>1, Zenon DEF Even
  <2>3. /\ cursor' <= Len(leftover')
        /\ 2 * Len(samples') = taken' - Len(leftover') + cursor'
    <3>1. taken' = 0 /\ cursor' = 0
      BY <1>1
    <3>. QED
      BY <1>4, <3>1
  <2>. QED
    BY <1>1, <1>5, <2>2, <2>3 DEF RadioInStep
<1>7. FileInStep'
  <2>1. max_bytes' = max_bytes /\ max_bytes \in Nat
    BY MaxBytesEven DEF max_bytes
  <2>2. taken' = 0 /\ size' \in Nat
    BY <1>1, <1>2
  <2>3. taken' <= size' /\ Len(byte_buf') <= max_bytes /\ 2 * Len(samples') + Len(byte_buf') = taken'
    BY <1>4, <2>1, <2>2
  <2>. QED
    BY <1>5, <2>1, <2>3 DEF FileInStep
<1>8. SamplesAligned'
  <2>1. DOMAIN samples' = {}
    BY <1>1
  <2>. QED
    BY <1>1, <2>1 DEF SamplesAligned
<1>9. ZeroMeansEnd'
  BY <1>1, ServeAssumption DEF ZeroMeansEnd
<1>. QED
  BY <1>3, <1>6, <1>7, <1>8, <1>9 DEF SourceIInv

LEMMA StepData == SourceIInv /\ [SourceNext]_allVars => SourceIInv'
<1>. SUFFICES ASSUME SourceIInv, [SourceNext]_allVars PROVE SourceIInv'
  OBVIOUS
<1>1. CASE Read
  BY <1>1, FileReadsData, FileReturnsData, RadioData, RadioEndsData DEF Read
<1>2. CASE \E n \in Transfers : RadioReceives(n)
  BY <1>2, RadioData
<1>3. CASE FileErrs \/ Break
  BY <1>3, AroundData DEF FileErrs, Break
<1>4. CASE Unplug
  BY <1>4, UnplugData
<1>5. CASE Reopen
  BY <1>5, ReopenData
<1>. QED
  BY <1>1, <1>2, <1>3, <1>4, <1>5, AroundData DEF SourceNext

(* Whatever the sizes of the buffers, of the transfers and of what a read of *)
(* the file returns, no sample is torn, lost or handed on twice.             *)
THEOREM SamplesAlignedHolds == SourceSpec => []SamplesAligned
<1>1. SourceIInv => SamplesAligned
  BY DEF SourceIInv
<1>. QED
  BY <1>1, InitData, StepData, PTL DEF SourceSpec

(* The decoder loop never takes for the end what is none. *)
THEOREM ZeroMeansEndHolds == SourceSpec => []ZeroMeansEnd
<1>1. SourceIInv => ZeroMeansEnd
  BY DEF SourceIInv
<1>. QED
  BY <1>1, InitData, StepData, PTL DEF SourceSpec

=============================================================================
