-------------------------------- MODULE Crc --------------------------------
(***************************************************************************)
(* The Mode S checksum, rs1090/crc.rs.  A word is the set of the weights   *)
(* of its one bits, so the 24-bit register holds a subset of 0..23, a byte *)
(* is a subset of 0..7 and XOR is symmetric difference.  A frame is the    *)
(* set of the positions of its one bits, counted from 0, MSB first.        *)
(***************************************************************************)
EXTENDS Integers

SHORT_FRAME_BYTES == 7
LONG_FRAME_BYTES == 14

Word == SUBSET (0..23)
Byte == SUBSET (0..7)

\* 0xFFF409
POLY == {0, 3, 10} \cup 12..23

Xor(a, b) == (a \ b) \cup (b \ a)

\* rem << k in 24 bits.
ShiftLeft(rem, k) == {e \in k..23 : e - k \in rem}

\* One turn of the inner loop, which build_table and build_syndrome_table repeat.
StepBit(rem) ==
  IF 23 \in rem THEN Xor(ShiftLeft(rem, 1), POLY) ELSE ShiftLeft(rem, 1)

StepTwo(rem) == StepBit(StepBit(rem))
StepFour(rem) == StepTwo(StepTwo(rem))
StepByte(rem) == StepFour(StepFour(rem))

\* (b as u32) << 16
AtTop(b) == {e \in 16..23 : e - 16 \in b}

TABLE == [b \in Byte |-> StepByte(AtTop(b))]

(* Mutant: the register's top byte is not folded into the index. *)
FeedByteAlone(rem, b) == Xor(ShiftLeft(rem, 8), TABLE[b])

\* The body of crc24's loop, and of crc24_bitwise's.
FeedByte(rem, b) == Xor(ShiftLeft(rem, 8), TABLE[Xor({e \in 0..7 : e + 16 \in rem}, b)])
FeedBitwise(rem, b) == StepByte(Xor(rem, AtTop(b)))

\* Byte i of a frame.
ByteAt(bytes, i) == {e \in 0..7 : 8 * i + 7 - e \in bytes}

crc24(bytes, n) ==
  LET rem[i \in 0..n] == IF i = 0 THEN {} ELSE FeedByte(rem[i - 1], ByteAt(bytes, i - 1))
  IN  rem[n]

crc24_bitwise(bytes, n) ==
  LET rem[i \in 0..n] == IF i = 0 THEN {} ELSE FeedBitwise(rem[i - 1], ByteAt(bytes, i - 1))
  IN  rem[n]

\* crc24(&icao.to_bytes()) of an address, which is a word.
AddressBytes(icao) == {p \in 0..23 : 23 - p \in icao}
CrcOfAddress(icao) == crc24(AddressBytes(icao), 3)

SYNDROME_SHORT == [bit \in 0..(8 * SHORT_FRAME_BYTES - 1) |-> crc24({bit}, SHORT_FRAME_BYTES)]
SYNDROME_LONG == [bit \in 0..(8 * LONG_FRAME_BYTES - 1) |-> crc24({bit}, LONG_FRAME_BYTES)]

Syndromes(n) == IF n = SHORT_FRAME_BYTES THEN SYNDROME_SHORT ELSE SYNDROME_LONG

(* Mutant: the scan leaves out the last position. *)
FirstButLast(table) ==
  [syndrome \in {table[i] : i \in DOMAIN table \ {55, 111}} |-> CHOOSE i \in DOMAIN table : table[i] = syndrome]

\* The first position with each syndrome: what the scans of a table find.
FirstWith(table) ==
  [syndrome \in {table[i] : i \in DOMAIN table} |->
     CHOOSE i \in DOMAIN table : table[i] = syndrome /\ \A j \in DOMAIN table : table[j] = syndrome => i <= j]
FIRST_SHORT == FirstWith(SYNDROME_SHORT)
FIRST_LONG == FirstWith(SYNDROME_LONG)
First(n) == IF n = SHORT_FRAME_BYTES THEN FIRST_SHORT ELSE FIRST_LONG

\* The bits that check_with_depth flips for a syndrome, if any.
SingleBit(syndrome, n) == IF syndrome \in DOMAIN First(n) THEN {First(n)[syndrome]} ELSE {}

\* The pair that begins first; the single bits' syndromes differ, so each first bit has one second at most.
TwoBits(syndrome, n) ==
  LET Second(i) == {j \in SingleBit(Xor(syndrome, Syndromes(n)[i]), n) : j > i}
      begins == {i \in DOMAIN Syndromes(n) : Second(i) # {}}
      first == CHOOSE i \in begins : \A j \in begins : i <= j
  IN  IF begins = {} THEN {} ELSE {first} \cup Second(first)

(* Mutant: the repair is reported and not made. *)
CheckOnly(bytes, n, depth) ==
  LET syndrome == crc24(bytes, n) IN
  [outcome |-> CASE syndrome = {} -> "Clean"
                 [] syndrome # {} /\ SingleBit(syndrome, n) # {} -> "Corrected"
                 [] OTHER -> "Failed",
   bytes |-> bytes]

check_with_depth(bytes, n, depth) ==
  LET syndrome == crc24(bytes, n)
      one == IF depth >= 1 THEN SingleBit(syndrome, n) ELSE {}
      flips == IF one = {} /\ depth >= 2 THEN TwoBits(syndrome, n) ELSE one
  IN  [outcome |-> CASE syndrome = {} -> "Clean"
                     [] syndrome # {} /\ flips # {} -> "Corrected"
                     [] OTHER -> "Failed",
       bytes |-> IF syndrome = {} THEN bytes ELSE Xor(bytes, flips)]

=============================================================================
