-------------------------------- MODULE Link --------------------------------
(***************************************************************************)
(* One frame at a time from a transponder through the air to the table:    *)
(* the transponder encodes a message and its parity as the standard says,  *)
(* noise flips bits, and the receiver reads the format, checks and repairs *)
(* (frame.rs, crc.rs), resolves the address (state.rs) and decodes the     *)
(* fields (message.rs).  Frames have their real lengths and checksum.      *)
(***************************************************************************)
EXTENDS Crc, Message, FiniteSets

CONSTANTS
  Icaos,      \* addresses of the aircraft that transmit, each a word of 24 bits
  Active,     \* addresses that the table has heard within ACTIVE_ICAO_WINDOW
  Codes,      \* interrogator codes of all-call replies, as words
  Messages,   \* what extended squitters say
  Replies,    \* payloads of surveillance replies, as positions behind the format
  Noisy,      \* the messages and payloads that noise may hit
  Silence,    \* what the slicer may make of the time after a short frame, as positions from 56
  Depths,     \* correction depths: the detectors use 1, check_with_depth offers 2
  MaxErrors   \* bound on the bits noise flips in one frame

ASSUME LinkAssumption ==
  /\ Icaos \cup Active \subseteq Word /\ Codes \subseteq SUBSET (0..6)
  /\ \A m \in Messages : m.kind \in {"identification", "airborne", "surface", "ground", "airspeed"}
  /\ Depths \subseteq 0..2 /\ MaxErrors \in Nat

VARIABLES
  sent,    \* the frame on its way, Nothing between frames
  bits,    \* its one bits as noise has left them
  errors,  \* the positions noise has flipped
  heard    \* what the receiver made of it, Nothing until then

vars == <<sent, bits, errors, heard>>

Nothing == [df |-> NoValue]

\* ---------------------------------------------------------------- the transponder

\* Bits pos and on of a field (of the ME, as in Bits), for a number.
Put(v, pos, len) == {31 + pos + len - 1 - k : k \in {k \in 0..len - 1 : (v \div 2^k) % 2 = 1}}
Flag(b, pos) == IF b THEN {31 + pos} ELSE {}
PutPosition(cpr) == Flag(cpr.odd, 22) \cup Put(cpr.lat, 23, 17) \cup Put(cpr.lon, 40, 17)

\* Movement codes by the widths of their intervals, in eighths of a knot: code 2 begins at 1/8 knot.
Width(code) ==
  CASE code \in 2..8 -> 1 [] code \in 9..12 -> 2 [] code \in 13..38 -> 4
    [] code \in 39..93 -> 8 [] code \in 94..108 -> 16 [] code \in 109..123 -> 40
LowerBound == [code \in 2..124 |-> 1 + MapThenSumSet(Width, 2..code - 1)]
Movement(speed) ==
  CASE speed = NoValue -> 0
    [] speed = 0 -> 1
    [] OTHER -> Max({code \in 2..124 : LowerBound[code] <= speed})

Abs(v) == IF v < 0 THEN -v ELSE v
PutComponent(v, pos, scale) ==
  IF v = NoValue THEN {} ELSE Flag(v < 0, pos) \cup Put(Abs(v) \div scale + 1, pos + 1, 10)
\* The standard's bit 36 is set for a barometric rate.
PutRate(rate) ==
  Flag(~rate.gnss, 36)
    \cup (IF rate.vertical = NoValue THEN {}
          ELSE Flag(rate.vertical < 0, 37) \cup Put(Abs(rate.vertical) \div 64 + 1, 38, 9))

Supersonic(m) == \E v \in {m.east, m.north} \ {NoValue} : Abs(v) > 1022
Scale(m) == IF Supersonic(m) THEN 4 ELSE 1
AirScale(m) == IF m.speed > 1022 THEN 4 ELSE 1

\* Bit 25 of an airspeed says whether it is true airspeed; what the heading refers to is not in this message.
Me(m) ==
  CASE m.kind = "identification" ->
         Put(m.set, 1, 5) \cup Put(m.category, 6, 3)
           \cup UNION {Put(IF k <= Len(m.callsign) THEN m.callsign[k] ELSE 32, 9 + 6 * (k - 1), 6) : k \in 1..8}
    [] m.kind = "airborne" ->
         Put(IF m.metres = NoValue THEN 11 ELSE 20, 1, 5) \cup PutPosition(m.cpr)
           \cup (CASE m.metres # NoValue -> Put(m.metres, 9, 12)
                   [] m.metres = NoValue /\ m.feet # NoValue ->
                        LET n == (m.feet + 1000) \div 25
                        IN  Put(n \div 16, 9, 7) \cup Flag(TRUE, 16) \cup Put(n % 16, 17, 4)
                   [] OTHER -> {})
    [] m.kind = "surface" ->
         Put(7, 1, 5) \cup Put(Movement(m.speed), 6, 7) \cup PutPosition(m.cpr)
           \cup (IF m.track = NoValue THEN {} ELSE Flag(TRUE, 13) \cup Put(m.track, 14, 7))
    [] m.kind = "ground" ->
         Put(19, 1, 5) \cup Put(IF Supersonic(m) THEN 2 ELSE 1, 6, 3) \cup PutRate(m.rate)
           \cup PutComponent(m.east, 14, Scale(m)) \cup PutComponent(m.north, 25, Scale(m))
    [] m.kind = "airspeed" ->
         Put(19, 1, 5) \cup Put(IF m.speed > 1022 THEN 4 ELSE 3, 6, 3) \cup PutRate(m.rate)
           \cup Flag(m.tas, 25) \cup Put(m.speed \div AirScale(m) + 1, 26, 10)
           \cup (IF m.heading = NoValue THEN {} ELSE Flag(TRUE, 14) \cup Put(m.heading, 15, 10))

AtPositions(word, last) == {last - e : e \in word}

PutFormat(df) == {p \in 0..4 : (df \div FormatWeight[p + 1]) % 2 = 1}

\* Format, then address and message or payload, then the checksum of these bytes under the overlay.
Encoded(df, content, overlay) ==
  LET data == PutFormat(df) \cup content
      last == 8 * FrameBytes(df) - 1
  IN  data \cup AtPositions(Xor(crc24(data, FrameBytes(df) - 3), overlay), last)

Sent(df, icao, message, content, overlay) ==
  [df |-> df, icao |-> icao, message |-> message, overlay |-> overlay,
   bytes |-> Encoded(df, content, overlay)]

Put24(icao) == AtPositions(icao, 31)

Squitters == {Sent(df, a, m, Put24(a) \cup {5} \cup Me(m), {}) : df \in {17, 18}, a \in Icaos, m \in Messages}
AllCalls == {Sent(11, a, [kind |-> "all_call"], Put24(a) \cup {5}, code) : a \in Icaos, code \in Codes}
Surveillance ==
  {Sent(df, a, [kind |-> "reply", payload |-> p], p \cap 5..(8 * FrameBytes(df) - 25), a) :
     df \in AddressedCrc, a \in Icaos, p \in Replies}

Transmit ==
  /\ sent = Nothing
  /\ sent' \in Squitters \cup AllCalls \cup Surveillance
  /\ bits' = sent'.bytes
  /\ UNCHANGED <<errors, heard>>

\* The air is free for the next frame.
Over ==
  /\ heard # Nothing
  /\ sent' = Nothing /\ bits' = {} /\ errors' = {} /\ heard' = Nothing

\* ---------------------------------------------------------------- the air

Length == 8 * FrameBytes(sent.df)

Flip(p) ==
  /\ sent # Nothing /\ heard = Nothing /\ sent.message \in Noisy
  /\ p < Length /\ p \notin errors /\ Cardinality(errors) < MaxErrors
  /\ bits' = Xor(bits, {p})
  /\ errors' = errors \cup {p}
  /\ UNCHANGED <<sent, heard>>

\* ---------------------------------------------------------------- the receiver

\* What is sliced for the format read: the first bits of the frame, or all of it and what follows.
ReadLength == 8 * FrameBytes(DownlinkFormat(bits))
Tails == IF ReadLength > Length THEN Silence ELSE {{}}
Sliced(tail) == (bits \cup tail) \cap 0..ReadLength - 1

Checked(bytes, df, depth) ==
  IF df \in CleanCrc THEN check_with_depth(bytes, FrameBytes(df), depth)
  ELSE [outcome |-> "Failed", bytes |-> bytes]

(* Mutant: the address itself, as the heading of crc.rs has it. *)
ActiveAddresses == [icao \in Active |-> icao]

ActiveSyndromes == [icao \in Active |-> CrcOfAddress(icao)]

\* resolve_icao for a frame that failed: the active aircraft whose address leaves this syndrome.
Recovered(bytes, df) ==
  LET syndrome == crc24(bytes, FrameBytes(df))
      hits == {icao \in Active : ActiveSyndromes[icao] = syndrome}
  IN  IF syndrome = {} \/ hits = {} THEN NoValue ELSE CHOOSE icao \in hits : TRUE

\* What the table is told: an address, and a message unless the checksum failed.
Resolved(checked, df) ==
  IF checked.outcome = "Failed"
  THEN [icao |-> Recovered(checked.bytes, df), message |-> NoValue]
  ELSE LET message == decode(checked.bytes, df)
       IN  [icao |-> message.icao, message |-> message]

\* What becomes of the bits: nothing for a reserved format, else what the table is told.
Received(depth, tail) ==
  LET df == DownlinkFormat(bits)
      checked == Checked(Sliced(tail), df, depth)
      told == Resolved(checked, df)
  IN  IF Reserved(df)
      THEN [df |-> df, depth |-> depth, outcome |-> "dropped", icao |-> NoValue, message |-> NoValue]
      ELSE [df |-> df, depth |-> depth, outcome |-> checked.outcome, icao |-> told.icao, message |-> told.message]

Receive(depth, tail) ==
  /\ heard = Nothing
  /\ heard' = Received(depth, tail)
  /\ UNCHANGED <<sent, bits, errors>>

Init ==
  /\ sent = Nothing
  /\ bits = {}
  /\ errors = {}
  /\ heard = Nothing

Next ==
  \/ Transmit
  \/ \E p \in 0..8 * LONG_FRAME_BYTES - 1 : Flip(p)
  \/ \E depth \in Depths : sent # Nothing /\ \E tail \in Tails : Receive(depth, tail)
  \/ Over

Spec == Init /\ [][Next]_vars

\* ---------------------------------------------------------------- properties

IsHeard == heard # Nothing
Believed == IsHeard /\ heard.outcome \in {"Clean", "Corrected"}

\* How far the received bits are from a frame with a clean checksum.
Distance == Cardinality(errors) + Cardinality(sent.overlay)

\* A value on a scale with steps of so many units, from the side of zero or from below.
Within(got, told, step) ==
  IF told = NoValue THEN got = NoValue ELSE got # NoValue /\ got <= told /\ told < got + step
Toward(got, told, scale) ==
  IF told = NoValue THEN got = 0
  ELSE Within(Abs(got), Abs(told), scale) /\ (got < 0 => told < 0) /\ (got > 0 => told > 0)
RateAgrees(got, told) ==
  IF told.vertical = NoValue THEN got.vertical = NoValue ELSE Toward(got.vertical, told.vertical, 64)
AltitudeAgrees(got, told) ==
  CASE told.metres # NoValue ->
         got[1] = "gnss" /\ 10000 * got[2] <= 32809 * told.metres /\ 32808 * told.metres < 10000 * (got[2] + 1)
    [] told.metres = NoValue /\ told.feet = NoValue -> got = NoValue
    [] OTHER -> got[1] = "baro" /\ Within(got[2], told.feet, 25)

\* The decoded payload says what the transponder meant, to the resolution of each field.  The source of a vertical
\* rate and the reference of a heading are not compared: the decoder has them wrong (README, section 4).
Agrees(got, told) ==
  /\ got.kind = told.kind
  /\ CASE told.kind = "identification" -> got = told
       [] told.kind = "airborne" -> got.cpr = told.cpr /\ AltitudeAgrees(got.altitude, told)
       [] told.kind = "surface" ->
            /\ got.cpr = told.cpr /\ got.track = told.track
            /\ CASE told.speed \in {NoValue, 0} -> got.speed = told.speed
                 [] told.speed \in 1..1399 -> Within(got.speed, told.speed, Width(Movement(told.speed)))
                 [] OTHER -> got.speed = 1400
       [] told.kind = "ground" ->
            /\ RateAgrees(got.rate, told.rate)
            /\ Toward(got.east, told.east, Scale(told)) /\ Toward(got.north, told.north, Scale(told))
       [] told.kind = "airspeed" ->
            /\ RateAgrees(got.rate, told.rate)
            /\ Within(got.speed, told.speed, AirScale(told)) /\ got.heading = told.heading

SaysWhatWasSent ==
  /\ heard.icao = sent.icao
  /\ sent.df \in {17, 18} => /\ heard.message.kind = "squitter"
                             /\ Agrees(heard.message.payload, sent.message)
  /\ sent.df = 11 => heard.message.kind = "all_call"

OnlyParityHit == \A p \in errors : p >= Length - 24

\* Whatever the receiver believes, as clean or after its repair, is what the transponder meant, up to the
\* distance of the code: two clean frames differ in six bits or more (crc.rs, "false positives in noisy
\* environments").
NeverMistaken ==
  Believed /\ sent.df \in CleanCrc /\ Distance + heard.depth < 6 => SaysWhatWasSent

\* As many flipped bits as the depth allows are repaired, if the format was read right (crc.rs, "we can
\* recover the bit position from the syndrome alone").
ErrorsUndone ==
  IsHeard /\ sent.df \in CleanCrc /\ heard.df = sent.df /\ Distance <= heard.depth => Believed

\* The address that the parity shows with the flipped bits in it.
ShownAddress == Xor(sent.icao, {Length - 1 - p : p \in {p \in errors : p >= Length - 24}})

\* If the errors lie in the parity alone, a surveillance reply is credited to the active aircraft whose address
\* its parity shows, and to nobody when no active aircraft has it (state.rs, resolve_icao).  The address zero is
\* never credited: its syndrome is that of a clean frame.
RepliesAttributed ==
  IsHeard /\ sent.df \in AddressedCrc /\ OnlyParityHit =>
    heard.icao = IF ShownAddress \in Active \ {{}} THEN ShownAddress ELSE NoValue

\* The table-driven checksum is the bitwise one (crc.rs, "Identical output").
TableIsBitwise ==
  sent # Nothing /\ errors = {} => crc24(bits, FrameBytes(sent.df)) = crc24_bitwise(bits, FrameBytes(sent.df))

=============================================================================
