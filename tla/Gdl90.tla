-------------------------------- MODULE Gdl90 --------------------------------
(***************************************************************************)
(* The GDL90 feed (gdl90.rs in rs1090-serve): once a second a heartbeat, a *)
(* ForeFlight identification and a report for each aircraft of a copy of   *)
(* the snapshot, each framed into a UDP datagram.  The decoder goes on     *)
(* changing the snapshot meanwhile, and any send may fail.                 *)
(***************************************************************************)
EXTENDS Airspace

CONSTANT Seconds  \* of the day, at which a heartbeat may be sent

VARIABLES
  phase,  \* "off", "waiting", "identifying", "copying" or "reporting"
  copy,   \* the snapshot this tick reports
  rest,   \* its aircraft still to be reported
  aired,  \* what was sent this tick: [of, at]; Datagram gives its bytes
  broken  \* a send has ended this tick

gdlVars == <<snapshot, untold, phase, copy, rest, aired, broken>>

ASSUME GdlAssumption ==
  /\ Seconds \subseteq Nat /\ \A s \in Seconds : s < 86400
  /\ Plane \cap {"heartbeat", "identification"} = {}

-----------------------------------------------------------------------------
(* Framing *)

(* The bytes of a number, most significant first. *)
BigEndian(n, width) == [i \in 1..width |-> (n \div 256^(width - i)) % 256]

(* As in Crc, a word is the set of the weights of its ones; a register has 16. *)
Word == SUBSET (0..15)
Byte == SUBSET (0..7)
Weight == <<1, 2, 4, 8, 16, 32, 64, 128, 256, 512, 1024, 2048, 4096, 8192, 16384, 32768>>
Bits(n) == {i \in 0..15 : (n \div Weight[i + 1]) % 2 = 1}
Value(word) ==
  LET sum[i \in 0..16] == IF i = 0 THEN 0 ELSE sum[i - 1] + (IF i - 1 \in word THEN Weight[i] ELSE 0)
  IN  sum[16]

Xor(a, b) == (a \ b) \cup (b \ a)
ShiftLeft(word, k) == {i \in k..15 : i - k \in word}
AtTop(byte) == {i \in 8..15 : i - 8 \in byte}

(* The inner loop of build_crc_table, eight times; 0x1021. *)
Turn(crc) == IF 15 \in crc THEN Xor(ShiftLeft(crc, 1), {0, 5, 12}) ELSE ShiftLeft(crc, 1)
FourTurns(crc) == Turn(Turn(Turn(Turn(crc))))
EightTurns(crc) == FourTurns(FourTurns(crc))

CRC_TABLE == [byte \in Byte |-> EightTurns(AtTop(byte))]

crc16_ccitt(bytes) ==
  LET fed == [c \in Word |-> [byte \in Byte |-> Xor(ShiftLeft(c, 8), CRC_TABLE[Xor({i \in 0..7 : i + 8 \in c}, byte)])]]
      crc[i \in 0..Len(bytes)] == IF i = 0 THEN {} ELSE fed[crc[i - 1]][Bits(bytes[i])]
  IN  crc[Len(bytes)]

(* Mutant: only the flag is escaped. *)
FlagAlone(b) == IF b = 126 THEN <<125, 94>> ELSE <<b>>

Stuffed(b) ==
  CASE b = 126 -> <<125, 94>>
    [] b = 125 -> <<125, 93>>
    [] OTHER -> <<b>>

frame(payload) ==
  LET crc == Value(crc16_ccitt(payload))
      body == payload \o <<crc % 256, crc \div 256>>
  IN  <<126>> \o FlattenSeq([i \in DOMAIN body |-> Stuffed(body[i])]) \o <<126>>

-----------------------------------------------------------------------------
(* Messages *)

(* The time of day has 17 bits; 16 of them are sent. *)
encode_heartbeat(s) == frame(<<0, 129, 1, s % 256, (s \div 256) % 256, 0, 0>>)

\* A serial number, "rs1090  ", "rs1090 ADS-B    ", no capabilities and a spare byte.
ForeFlight ==
  <<101, 0, 1, 0, 48, 57, 48, 49, 115, 114,
    114, 115, 49, 48, 57, 48, 32, 32,
    114, 115, 49, 48, 57, 48, 32, 65, 68, 83, 45, 66, 32, 32, 32, 32,
    0, 0, 0, 0, 0>>

encode_foreflight_id == frame(ForeFlight)

(* Mutant: cut off instead of rounded. *)
CutOff(deg) == Truncated(32 * deg, 45) % 16777216

(* Semicircles: a 65536th of a degree is 2^23 / (180 * 65536) = 32/45 of one. *)
encode_semicircle(deg) == Rounded(32 * deg, 45) % 16777216

encode_altitude(ft) == IF ft = Unknown THEN 4095 ELSE Clamp(Truncated(ft + 1000, 25), 0, 4094)

Knots(gs) == IF gs = Unknown THEN 4095 ELSE Clamp(Rounded(gs * 194384, 100000), 0, 4094)

Masked(n) == n % 4096

(* 64 feet per minute, in 12 bits; 0.00508 * 196.85 falls short of one by two millionths. *)
Climb(vr) ==
  IF vr = Unknown THEN 2048
  ELSE LET fpm == vr + Rounded(-2 * vr, 1000000)
       IN  Masked(Clamp(Truncated(fpm, 64), -510, 510))

Circle(t) == IF t = Unknown THEN 0 ELSE Rounded(t * 256, 3600) % 256

Hex(d) == IF d < 10 THEN 48 + d ELSE 55 + d

Name(p, look) == Either(look.callsign, FlattenSeq([i \in 1..3 |-> <<Hex(Address[p][i] \div 16), Hex(Address[p][i] % 16)>>]))

(* Capitals and digits; anything else is a space. *)
Plain(c) ==
  CASE c \in 97..122 -> c - 32
    [] c \in 65..90 \cup 48..57 -> c
    [] OTHER -> 32

encode_traffic(p, look) ==
  LET alt == encode_altitude(look.position.alt)
      gs == Knots(Field(look, "gs"))
      vr == Climb(Field(look, "vr"))
      name == Name(p, look)
  IN  frame(<<20, 0>> \o Address[p]
            \o BigEndian(encode_semicircle(look.position.lat), 3)
            \o BigEndian(encode_semicircle(look.position.lon), 3)
            \o <<alt \div 16, 16 * (alt % 16) + 9, 136>>
            \o <<gs \div 16, 16 * (gs % 16) + vr \div 256, vr % 256>>
            \o <<Circle(Direction(look)), 0>>
            \o [i \in 1..8 |-> IF i <= Len(name) THEN Plain(name[i]) ELSE 32]
            \o <<0>>)

-----------------------------------------------------------------------------
(* send_tick *)

Fixed(map) == {p \in DOMAIN map : map[p].position # Unknown}

Datagram(m) ==
  CASE m.of = "heartbeat" -> encode_heartbeat(m.at)
    [] m.of = "identification" -> encode_foreflight_id
    [] OTHER -> encode_traffic(m.of, copy[m.of])

Emit(of, at) == aired' = Append(aired, [of |-> of, at |-> at])

(* The tick is over: nothing is kept until the next. *)
Beat(s) ==
  /\ phase = "waiting"
  /\ aired' = <<[of |-> "heartbeat", at |-> s]>>
  /\ phase' = "identifying" /\ broken' = FALSE
  /\ copy' = <<>> /\ rest' = {}
  /\ UNCHANGED airVars

BeatFails ==
  /\ phase = "waiting"
  /\ aired' = <<>> /\ broken' = TRUE
  /\ copy' = <<>> /\ rest' = {}
  /\ UNCHANGED <<snapshot, untold, phase>>

(* Whether this one was sent does not matter. *)
Identify(sends) ==
  /\ phase = "identifying"
  /\ IF sends THEN Emit("identification", 0) ELSE UNCHANGED aired
  /\ phase' = "copying"
  /\ UNCHANGED <<snapshot, untold, copy, rest, broken>>

CopySnapshot ==
  /\ phase = "copying"
  /\ copy' = snapshot /\ rest' = DOMAIN snapshot
  /\ phase' = "reporting"
  /\ UNCHANGED <<snapshot, untold, aired, broken>>

(* Mutant: one without a position ends the tick. *)
ReturnsAt(p) == {}

(* The next aircraft in the arbitrary order of the map is passed over. *)
Passed(p) == rest \ {p}

Skip(p) ==
  /\ phase = "reporting" /\ p \in rest \ Fixed(copy)
  /\ rest' = Passed(p)
  /\ UNCHANGED <<snapshot, untold, phase, copy, aired, broken>>

Report(p) ==
  /\ phase = "reporting" /\ p \in rest \cap Fixed(copy)
  /\ Emit(p, 0)
  /\ rest' = rest \ {p}
  /\ UNCHANGED <<snapshot, untold, phase, copy, broken>>

ReportFails(p) ==
  /\ phase = "reporting" /\ p \in rest \cap Fixed(copy)
  /\ rest' = {} /\ broken' = TRUE
  /\ UNCHANGED <<snapshot, untold, phase, copy, aired>>

Wait ==
  /\ phase = "reporting" /\ rest = {}
  /\ phase' = "waiting"
  /\ UNCHANGED <<snapshot, untold, copy, rest, aired, broken>>

GdlInit ==
  /\ phase \in {"off", "waiting"}
  /\ copy = <<>> /\ rest = {} /\ aired = <<>> /\ broken = FALSE

Tick ==
  \/ \E s \in Seconds : Beat(s)
  \/ BeatFails
  \/ \E sends \in BOOLEAN : Identify(sends)
  \/ CopySnapshot
  \/ \E p \in Plane : Skip(p) \/ Report(p) \/ ReportFails(p)
  \/ Wait

(* The interval ticks and the task is polled. *)
GdlFairness == WF_gdlVars(Tick)

-----------------------------------------------------------------------------
(* What a receiver reads *)

Inside(datagram) == SubSeq(datagram, 2, Len(datagram) - 1)

Turned(b) == IF (b \div 32) % 2 = 1 THEN b - 32 ELSE b + 32

(* The bytes between the flags, the second of an escaped pair with bit 5 turned. *)
Unstuffed(bytes) ==
  LET read[i \in 0..Len(bytes)] ==
        CASE i = 0 -> <<>>
          [] i > 0 /\ bytes[i] = 125 -> read[i - 1]
          [] OTHER -> Append(read[i - 1], IF i > 1 /\ bytes[i - 1] = 125 THEN Turned(bytes[i]) ELSE bytes[i])
  IN  read[Len(bytes)]

Body(datagram) == Unstuffed(Inside(datagram))

(* The checksum bit by bit, without a table; its low byte comes first. *)
Intact(body) ==
  LET n == Len(body) - 2
      fed == [c \in Word |-> [byte \in Byte |-> EightTurns(Xor(c, AtTop(byte)))]]
      crc[i \in 0..n] == IF i = 0 THEN {} ELSE fed[crc[i - 1]][Bits(body[i])]
  IN  body[n + 1] + 256 * body[n + 2] = Value(crc[n])

Signed(n, bits) == IF n >= 2^(bits - 1) THEN n - 2^bits ELSE n

Number(body, i) == 65536 * body[i] + 256 * body[i + 1] + body[i + 2]

(* The semicircles nearest to an angle, round the circle. *)
Near(n, deg) ==
  LET off == (45 * Signed(n, 24) - 32 * deg) % (45 * 2^24)
  IN  off <= 22 \/ off >= 45 * 2^24 - 22

-----------------------------------------------------------------------------
(* Properties *)

Latest(s) == s[Len(s)]

Letter(look, i) == IF i \in DOMAIN look.callsign THEN look.callsign[i] ELSE 32

(* What is not known is told as not known, and what is to half a unit, or cut *)
(* off towards zero, within the limits of its field.                          *)
FeetTell(n, ft) ==
  /\ (n = 4095) <=> (ft = Unknown)
  /\ n # 4095 => ft - (25 * n - 1000) \in 0..24 \/ (n = 4094 /\ ft - (25 * n - 1000) > 0)

KnotsTell(n, gs) ==
  LET off == 100000 * n - 194384 * gs
  IN  /\ (n = 4095) <=> (gs = Unknown)
      /\ n # 4095 => off \in Span(-50000, 50000) \/ (n = 4094 /\ off < 0)

ClimbTells(n, vr) ==
  LET over == vr - 64 * n
  IN  /\ (n = -2048) <=> (vr = Unknown)
      /\ n # -2048 => (over \in -63..63 /\ over * n >= 0) \/ (n = 510 /\ over > 0) \/ (n = -510 /\ over < 0)

TurnTells(n, t) ==
  LET off == (3600 * n - 256 * t) % (3600 * 256)
  IN  t # Unknown => off <= 1800 \/ off >= 3600 * 256 - 1800

(* A report tells of the aircraft what the snapshot knew of it when it was    *)
(* copied.                                                                    *)
ReportTells(p, look, body) ==
  /\ SubSeq(body, 1, 5) = <<20, 0>> \o Address[p]
  /\ Near(Number(body, 6), look.position.lat) /\ Near(Number(body, 9), look.position.lon)
  /\ FeetTell(16 * body[12] + body[13] \div 16, look.position.alt)
  /\ KnotsTell(16 * body[15] + body[16] \div 16, Field(look, "gs"))
  /\ ClimbTells(Signed(256 * (body[16] % 16) + body[17], 12), Field(look, "vr"))
  /\ TurnTells(body[18], Direction(look))
  /\ look.callsign # Unknown =>
       SubSeq(body, 20, 27) = [i \in 1..8 |-> IF Letter(look, i) \in 48..90 THEN Letter(look, i) ELSE 32]

(* A heartbeat tells of the second of the day what fits into 16 bits. *)
SecondTells(at, body) == 256 * body[5] + body[4] = at % 65536

(* Whatever a message holds, the flags enclose it and appear nowhere else,    *)
(* and a receiver that undoes the stuffing and divides bit by bit finds it    *)
(* intact.  It tells the aircraft as they were when the snapshot was copied,  *)
(* and of the second of the day what fits into 16 bits.                       *)
DatagramsTell ==
  aired # <<>> =>
    LET m == Latest(aired)
        datagram == Datagram(m)
        inside == Inside(datagram)
        body == Body(datagram)
    IN  /\ datagram[1] = 126 /\ Latest(datagram) = 126
        /\ \A i \in DOMAIN inside : inside[i] # 126
        /\ Intact(body)
        /\ CASE m.of = "heartbeat" -> Len(body) = 9 /\ SecondTells(m.at, body)
             [] m.of = "identification" -> Len(body) = 41
             [] OTHER -> Len(body) = 30 /\ ReportTells(m.of, copy[m.of], body)

(* A tick starts with a heartbeat and reports each aircraft with a position   *)
(* once; if no send broke it off, it leaves none out, whatever the others     *)
(* lack.                                                                      *)
EachIsReported ==
  /\ aired # <<>> => aired[1].of = "heartbeat"
  /\ \A i, j \in DOMAIN aired : aired[i].of = aired[j].of => i = j
  /\ phase = "reporting" /\ rest = {} /\ ~ broken => {m.of : m \in ToSet(aired)} \cap Plane = Fixed(copy)

=============================================================================
