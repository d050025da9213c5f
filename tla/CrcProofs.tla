----------------------------- MODULE CrcProofs -----------------------------
(***************************************************************************)
(* What Crc says of every word, byte and frame, whatever its length, and   *)
(* what the link makes of it for any messages, addresses and errors.       *)
(***************************************************************************)
EXTENDS Link, FiniteSetTheorems, WellFoundedInduction, TLAPS

\* Shifts add up, and a register whose top bit is clear is just shifted.
LEMMA ShiftsAdd ==
  ASSUME NEW rem, NEW j \in Nat, NEW k \in Nat
  PROVE  ShiftLeft(ShiftLeft(rem, j), k) = ShiftLeft(rem, j + k)
PROOF BY DEF ShiftLeft

\* XOR in the register commutes with a turn of the loop.
LEMMA StepBitLinear ==
  ASSUME NEW a, NEW b
  PROVE  StepBit(Xor(a, b)) = Xor(StepBit(a), StepBit(b))
<1>1. ShiftLeft(Xor(a, b), 1) = Xor(ShiftLeft(a, 1), ShiftLeft(b, 1))
  BY DEF ShiftLeft, Xor
<1>2. 23 \in Xor(a, b) <=> ~(23 \in a <=> 23 \in b)
  BY DEF Xor
<1>3. ASSUME NEW x, NEW y
      PROVE  /\ Xor(Xor(x, y), POLY) = Xor(x, Xor(y, POLY))
             /\ Xor(Xor(x, y), POLY) = Xor(Xor(x, POLY), y)
             /\ Xor(Xor(x, POLY), Xor(y, POLY)) = Xor(x, y)
  BY DEF Xor
<1> QED BY <1>1, <1>2, <1>3 DEF StepBit

LEMMA StepByteLinear ==
  ASSUME NEW a, NEW b
  PROVE  StepByte(Xor(a, b)) = Xor(StepByte(a), StepByte(b))
<1>1. \A x, y : StepTwo(Xor(x, y)) = Xor(StepTwo(x), StepTwo(y))
  BY StepBitLinear DEF StepTwo
<1>2. \A x, y : StepFour(Xor(x, y)) = Xor(StepFour(x), StepFour(y))
  BY <1>1 DEF StepFour
<1> QED BY <1>2 DEF StepByte

\* Only the 24 bits of the register count.
LEMMA StepByteOfRegister ==
  ASSUME NEW a PROVE StepByte(a) = StepByte(a \cap 0..23)
<1>1. StepBit(a) = StepBit(a \cap 0..23)
  <2>1. ShiftLeft(a, 1) = ShiftLeft(a \cap 0..23, 1) BY DEF ShiftLeft
  <2>2. 23 \in a <=> 23 \in a \cap 0..23 OBVIOUS
  <2> QED BY <2>1, <2>2 DEF StepBit
<1> QED BY <1>1 DEF StepByte, StepFour, StepTwo

\* Eight turns over a register with a clear top byte are a shift by eight.
LEMMA ClearTopShifts ==
  ASSUME NEW a, a \cap 16..23 = {} PROVE StepByte(a) = ShiftLeft(a, 8)
<1>1. ASSUME NEW k \in 0..7 PROVE StepBit(ShiftLeft(a, k)) = ShiftLeft(a, k + 1)
  <2>1. 23 \notin ShiftLeft(a, k) BY DEF ShiftLeft
  <2>2. ShiftLeft(ShiftLeft(a, k), 1) = ShiftLeft(a, k + 1) BY ShiftsAdd
  <2> QED BY <2>1, <2>2 DEF StepBit
<1>2. StepBit(a) = ShiftLeft(a, 1)
  BY DEF StepBit
<1>3. StepTwo(a) = ShiftLeft(a, 2) BY <1>1, <1>2 DEF StepTwo
<1>4. StepFour(a) = ShiftLeft(a, 4)
  <2>1. StepBit(ShiftLeft(a, 2)) = ShiftLeft(a, 3) BY <1>1
  <2>2. StepBit(ShiftLeft(a, 3)) = ShiftLeft(a, 4) BY <1>1
  <2> QED BY <1>3, <2>1, <2>2 DEF StepFour, StepTwo
<1>5. StepFour(ShiftLeft(a, 4)) = ShiftLeft(a, 8)
  <2>1. StepBit(ShiftLeft(a, 4)) = ShiftLeft(a, 5) BY <1>1
  <2>2. StepBit(ShiftLeft(a, 5)) = ShiftLeft(a, 6) BY <1>1
  <2>3. StepBit(ShiftLeft(a, 6)) = ShiftLeft(a, 7) BY <1>1
  <2>4. StepBit(ShiftLeft(a, 7)) = ShiftLeft(a, 8) BY <1>1
  <2> QED BY <2>1, <2>2, <2>3, <2>4 DEF StepFour, StepTwo
<1> QED BY <1>4, <1>5 DEF StepByte

\* The look-up of a byte is eight turns of the bitwise loop, whatever the register holds: TABLE is right.
THEOREM TableStep ==
  ASSUME NEW rem, NEW b \in Byte
  PROVE  FeedByte(rem, b) = FeedBitwise(rem, b)
<1> DEFINE x == Xor(rem, AtTop(b))
           low == x \cap 0..15
           high == x \cap 16..23
           idx == Xor({e \in 0..7 : e + 16 \in rem}, b)
<1>1. x \cap 0..23 = Xor(low, high) BY DEF Xor
<1>2. StepByte(x) = Xor(StepByte(low), StepByte(high))
  BY <1>1, StepByteOfRegister, StepByteLinear
<1>3. StepByte(low) = ShiftLeft(rem, 8)
  <2>1. StepByte(low) = ShiftLeft(low, 8)
    <3>1. low \cap 16..23 = {} OBVIOUS
    <3> QED BY <3>1, ClearTopShifts
  <2>2. ShiftLeft(low, 8) = ShiftLeft(rem, 8) BY DEF ShiftLeft, Xor, AtTop
  <2> QED BY <2>1, <2>2
<1>4. high = AtTop(idx)
  BY DEF Xor, AtTop, Byte
<1>5. idx \in Byte BY DEF Xor, Byte
<1>6. TABLE[idx] = StepByte(AtTop(idx)) BY <1>5 DEF TABLE
<1> QED BY <1>2, <1>3, <1>4, <1>6 DEF FeedByte, FeedBitwise

\* The two checksums of crc.rs give the same remainder for every frame of every length.
THEOREM ChecksumsAgree ==
  ASSUME NEW bytes, NEW n PROVE crc24(bytes, n) = crc24_bitwise(bytes, n)
<1> DEFINE F(rem) == [i \in 0..n |-> IF i = 0 THEN {} ELSE FeedByte(rem[i - 1], ByteAt(bytes, i - 1))]
           G(rem) == [i \in 0..n |-> IF i = 0 THEN {} ELSE FeedBitwise(rem[i - 1], ByteAt(bytes, i - 1))]
<1>1. ASSUME NEW rem PROVE F(rem) = G(rem)
  <2>1. \A i \in 0..n : ByteAt(bytes, i - 1) \in Byte BY DEF ByteAt, Byte
  <2> QED BY <2>1, TableStep
<1>2. (CHOOSE rem : rem = F(rem)) = (CHOOSE rem : rem = G(rem))
  BY <1>1
<1> QED BY <1>2 DEF crc24, crc24_bitwise

\* ---------------------------------------------------------------- a byte at a time

\* Every set of natural numbers that has a member has a least one.
LEMMA LeastNatural ==
  ASSUME NEW T, T \subseteq Nat, T # {}
  PROVE  \E x \in T : \A y \in T : x <= y
<1> DEFINE R == {p \in Nat \X Nat : p[1] < p[2]}
<1>1. IsWellFoundedOn(R, Nat)
  BY NatLessThanWellFounded DEF OpToRel
<1> HIDE DEF R
<1>2. PICK x \in T : \A y \in T : ~(<<y, x>> \in R)
  BY <1>1, WFMin
<1>3. \A y \in T : ~(y < x)
  BY <1>2 DEF R
<1> QED BY <1>3

\* The registers of crc24's loop over so many bytes.
Registers(bytes, n, f) ==
  f = [i \in 0..n |-> IF i = 0 THEN {} ELSE FeedByte(f[i - 1], ByteAt(bytes, i - 1))]

LEMMA RegistersRun ==
  ASSUME NEW bytes, NEW n \in Nat, NEW f, Registers(bytes, n, f)
  PROVE  /\ DOMAIN f = 0..n /\ f[0] = {}
         /\ \A i \in 1..n : f[i] = FeedByte(f[i - 1], ByteAt(bytes, i - 1))
<1>1. DOMAIN f = 0..n
  BY DEF Registers
<1>2. \A i \in 0..n : f[i] = IF i = 0 THEN {} ELSE FeedByte(f[i - 1], ByteAt(bytes, i - 1))
  BY DEF Registers
<1> QED BY <1>1, <1>2

\* They are determined by the bytes.
LEMMA RegistersUnique ==
  ASSUME NEW bytes, NEW n \in Nat, NEW m \in Nat, n <= m, NEW f, NEW g, Registers(bytes, n, f), Registers(bytes, m, g)
  PROVE  \A i \in 0..n : f[i] = g[i]
<1> DEFINE bad == {i \in 0..n : f[i] # g[i]}
<1>1. /\ f[0] = {} /\ \A i \in 1..n : f[i] = FeedByte(f[i - 1], ByteAt(bytes, i - 1))
      /\ g[0] = {} /\ \A i \in 1..m : g[i] = FeedByte(g[i - 1], ByteAt(bytes, i - 1))
  BY RegistersRun
<1>2. bad \subseteq Nat
  OBVIOUS
<1>3. ASSUME bad # {} PROVE FALSE
  <2> HIDE DEF bad
  <2>1. PICK i \in bad : \A k \in bad : i <= k
    BY <1>2, <1>3, LeastNatural
  <2>2. i \in 0..n /\ f[i] # g[i]
    BY <2>1 DEF bad
  <2>3. i # 0
    BY <1>1, <2>2
  <2>4. i - 1 \in 0..n /\ ~(i <= i - 1) /\ i \in 1..n /\ i \in 1..m
    BY <2>2, <2>3
  <2>5. f[i - 1] = g[i - 1]
    BY <2>1, <2>4 DEF bad
  <2> QED BY <1>1, <2>2, <2>4, <2>5
<1> QED BY <1>3

LEMMA RegistersExist ==
  ASSUME NEW bytes, NEW n \in Nat
  PROVE  \E f : Registers(bytes, n, f)
<1> DEFINE bad == {k \in Nat : ~\E f : Registers(bytes, k, f)}
<1>1. \E f : Registers(bytes, 0, f)
  <2> DEFINE f == [i \in 0..0 |-> {}]
  <2>1. f = [i \in 0..0 |-> IF i = 0 THEN {} ELSE FeedByte(f[i - 1], ByteAt(bytes, i - 1))]
    OBVIOUS
  <2> QED BY <2>1 DEF Registers
<1>2. ASSUME NEW k \in Nat, NEW f, Registers(bytes, k, f)
      PROVE  \E g : Registers(bytes, k + 1, g)
  <2> DEFINE g == [i \in 0..k + 1 |-> IF i = k + 1 THEN FeedByte(f[k], ByteAt(bytes, k)) ELSE f[i]]
  <2>1. f[0] = {} /\ \A i \in 1..k : f[i] = FeedByte(f[i - 1], ByteAt(bytes, i - 1))
    BY <1>2, RegistersRun
  <2>2. g[k + 1] = FeedByte(f[k], ByteAt(bytes, k)) /\ \A i \in 0..k : g[i] = f[i]
    OBVIOUS
  <2>3. g = [i \in 0..k + 1 |-> g[i]]
    OBVIOUS
  <2> HIDE DEF g
  <2>4. g[0] = {}
    BY <2>1, <2>2
  <2>5. ASSUME NEW i \in 1..k + 1 PROVE g[i] = FeedByte(g[i - 1], ByteAt(bytes, i - 1))
    <3>1. CASE i = k + 1
      <4>1. i - 1 = k /\ k \in 0..k
        BY <3>1
      <4> QED BY <2>2, <3>1, <4>1
    <3>2. CASE i # k + 1
      <4>1. i \in 1..k /\ i \in 0..k /\ i - 1 \in 0..k
        BY <3>2
      <4> QED BY <2>1, <2>2, <4>1
    <3> QED BY <3>1, <3>2
  <2>6. \A i \in 0..k + 1 : g[i] = IF i = 0 THEN {} ELSE FeedByte(g[i - 1], ByteAt(bytes, i - 1))
    <3>1. \A i \in 0..k + 1 : i # 0 => i \in 1..k + 1
      OBVIOUS
    <3>2. \A i \in 1..k + 1 : g[i] = FeedByte(g[i - 1], ByteAt(bytes, i - 1))
      BY <2>5
    <3> QED BY <2>4, <3>1, <3>2
  <2>7. g = [i \in 0..k + 1 |-> IF i = 0 THEN {} ELSE FeedByte(g[i - 1], ByteAt(bytes, i - 1))]
    BY <2>3, <2>6
  <2> QED BY <2>7 DEF Registers
<1>3. ASSUME bad # {} PROVE FALSE
  <2>1. bad \subseteq Nat
    OBVIOUS
  <2> HIDE DEF bad
  <2>2. PICK k \in bad : \A i \in bad : k <= i
    BY <1>3, <2>1, LeastNatural
  <2>3. k \in Nat /\ k # 0 /\ ~\E f : Registers(bytes, k, f)
    BY <1>1, <2>2 DEF bad
  <2>4. k - 1 \in Nat /\ ~(k <= k - 1) /\ (k - 1) + 1 = k
    BY <2>3
  <2>5. \E f : Registers(bytes, k - 1, f)
    BY <2>2, <2>4 DEF bad
  <2> QED BY <1>2, <2>3, <2>4, <2>5
<1> QED BY <1>3

\* The checksum starts from nothing and takes in one byte after the other.
LEMMA CrcTurn ==
  ASSUME NEW bytes, NEW n \in Nat
  PROVE  /\ crc24(bytes, 0) = {}
         /\ crc24(bytes, n + 1) = FeedByte(crc24(bytes, n), ByteAt(bytes, n))
<1> DEFINE R(k) == CHOOSE f : Registers(bytes, k, f)
<1>1. \A k \in Nat : Registers(bytes, k, R(k))
  BY RegistersExist
<1>2. \A k : crc24(bytes, k) = R(k)[k]
  BY DEF crc24, Registers
<1> HIDE DEF R
<1>3. R(0)[0] = {}
  BY <1>1, RegistersRun
<1>4. R(n + 1)[n + 1] = FeedByte(R(n + 1)[n], ByteAt(bytes, n))
  <2>1. n + 1 \in Nat /\ n + 1 \in 1..n + 1 /\ (n + 1) - 1 = n
    OBVIOUS
  <2>2. \A i \in 1..n + 1 : R(n + 1)[i] = FeedByte(R(n + 1)[i - 1], ByteAt(bytes, i - 1))
    BY <1>1, <2>1, RegistersRun
  <2>3. R(n + 1)[n + 1] = FeedByte(R(n + 1)[(n + 1) - 1], ByteAt(bytes, (n + 1) - 1))
    BY <2>1, <2>2
  <2> QED BY <2>1, <2>3
<1>5. R(n + 1)[n] = R(n)[n]
  <2>1. n + 1 \in Nat /\ n <= n + 1 /\ n \in 0..n
    OBVIOUS
  <2> QED BY <1>1, <2>1, RegistersUnique
<1> QED BY <1>2, <1>3, <1>4, <1>5

\* A byte is taken in bit by bit, whatever the register holds.
LEMMA CrcTurnBitwise ==
  ASSUME NEW bytes, NEW n \in Nat
  PROVE  crc24(bytes, n + 1) = FeedBitwise(crc24(bytes, n), ByteAt(bytes, n))
<1>1. ByteAt(bytes, n) \in Byte
  BY DEF ByteAt, Byte
<1> QED BY <1>1, CrcTurn, TableStep

LEMMA XorParts ==
  ASSUME NEW a, NEW b, NEW c, NEW d
  PROVE  /\ Xor(Xor(a, b), Xor(c, d)) = Xor(Xor(a, c), Xor(b, d))
         /\ Xor(Xor(a, b), c) = Xor(a, Xor(b, c))
         /\ Xor(a, Xor(a, b)) = b
         /\ Xor({}, a) = a /\ Xor(a, {}) = a
BY DEF Xor

\* The checksum is linear under XOR, over any number of bytes: errors have a syndrome of their own.
LEMMA CrcLinear ==
  ASSUME NEW a, NEW b, NEW n \in Nat
  PROVE  crc24(Xor(a, b), n) = Xor(crc24(a, n), crc24(b, n))
<1> DEFINE bad == {k \in Nat : crc24(Xor(a, b), k) # Xor(crc24(a, k), crc24(b, k))}
<1>1. crc24(Xor(a, b), 0) = Xor(crc24(a, 0), crc24(b, 0))
  <2>1. crc24(Xor(a, b), 0) = {} /\ crc24(a, 0) = {} /\ crc24(b, 0) = {}
    BY CrcTurn
  <2> QED BY <2>1, XorParts
<1>2. ASSUME NEW k \in Nat, crc24(Xor(a, b), k) = Xor(crc24(a, k), crc24(b, k))
      PROVE  crc24(Xor(a, b), k + 1) = Xor(crc24(a, k + 1), crc24(b, k + 1))
  <2> DEFINE x == crc24(a, k)  y == crc24(b, k)  u == AtTop(ByteAt(a, k))  v == AtTop(ByteAt(b, k))
  <2>1. AtTop(ByteAt(Xor(a, b), k)) = Xor(u, v)
    BY DEF AtTop, ByteAt, Xor
  <2>2. /\ crc24(Xor(a, b), k + 1) = StepByte(Xor(crc24(Xor(a, b), k), AtTop(ByteAt(Xor(a, b), k))))
        /\ crc24(a, k + 1) = StepByte(Xor(x, u))
        /\ crc24(b, k + 1) = StepByte(Xor(y, v))
    BY CrcTurnBitwise DEF FeedBitwise
  <2> HIDE DEF x, y, u, v
  <2>3. crc24(Xor(a, b), k + 1) = StepByte(Xor(Xor(x, y), Xor(u, v)))
    BY <1>2, <2>1, <2>2 DEF x, y
  <2>4. Xor(Xor(x, y), Xor(u, v)) = Xor(Xor(x, u), Xor(y, v))
    BY XorParts
  <2> QED BY <2>2, <2>3, <2>4, StepByteLinear
<1>3. ASSUME bad # {} PROVE FALSE
  <2>1. bad \subseteq Nat
    OBVIOUS
  <2> HIDE DEF bad
  <2>2. PICK k \in bad : \A i \in bad : k <= i
    BY <1>3, <2>1, LeastNatural
  <2>3. k \in Nat /\ k # 0 /\ crc24(Xor(a, b), k) # Xor(crc24(a, k), crc24(b, k))
    BY <1>1, <2>2 DEF bad
  <2>4. k - 1 \in Nat /\ ~(k <= k - 1) /\ (k - 1) + 1 = k
    BY <2>3
  <2>5. crc24(Xor(a, b), k - 1) = Xor(crc24(a, k - 1), crc24(b, k - 1))
    BY <2>2, <2>4 DEF bad
  <2> QED BY <1>2, <2>3, <2>4, <2>5
<1> QED BY <1>3

\* It depends on these bytes alone.
LEMMA CrcOfPrefix ==
  ASSUME NEW a, NEW b, NEW n \in Nat, \A p \in 0..8 * n - 1 : p \in a <=> p \in b
  PROVE  crc24(a, n) = crc24(b, n)
<1>1. ASSUME NEW i \in 0..n, i # 0 PROVE ByteAt(a, i - 1) = ByteAt(b, i - 1)
  <2>1. \A e \in 0..7 : 8 * (i - 1) + 7 - e \in 0..8 * n - 1
    BY <1>1
  <2> QED BY <2>1 DEF ByteAt
<1>2. \A f : Registers(a, n, f) <=> Registers(b, n, f)
  <2>1. ASSUME NEW f
        PROVE  [i \in 0..n |-> IF i = 0 THEN {} ELSE FeedByte(f[i - 1], ByteAt(a, i - 1))]
                 = [i \in 0..n |-> IF i = 0 THEN {} ELSE FeedByte(f[i - 1], ByteAt(b, i - 1))]
    BY <1>1
  <2> QED BY <2>1 DEF Registers
<1>3. (CHOOSE f : Registers(a, n, f)) = (CHOOSE f : Registers(b, n, f))
  BY <1>2
<1> QED BY <1>3 DEF crc24, Registers

\* Three bytes are taken in as the word they spell.
LEMMA ThreeBytes ==
  ASSUME NEW bytes, NEW n \in Nat, NEW w \in Word,
         \A e \in 0..23 : 8 * n + 23 - e \in bytes <=> e \in w
  PROVE  crc24(bytes, n + 3) = StepByte(StepByte(StepByte(Xor(crc24(bytes, n), w))))
<1> DEFINE B(i) == ByteAt(bytes, n + i)
           Part(i) == w \cap (16 - 8 * i)..(23 - 8 * i)
           x == crc24(bytes, n)
<1>1. crc24(bytes, n + 3) = FeedBitwise(FeedBitwise(FeedBitwise(x, B(0)), B(1)), B(2))
  <2>1. n + 1 \in Nat /\ n + 2 \in Nat /\ (n + 1) + 1 = n + 2 /\ (n + 2) + 1 = n + 3 /\ n + 0 = n
    OBVIOUS
  <2>2. /\ crc24(bytes, n + 1) = FeedBitwise(x, B(0))
        /\ crc24(bytes, (n + 1) + 1) = FeedBitwise(crc24(bytes, n + 1), B(1))
        /\ crc24(bytes, (n + 2) + 1) = FeedBitwise(crc24(bytes, n + 2), B(2))
    BY <2>1, CrcTurnBitwise
  <2> HIDE DEF B, x
  <2> QED BY <2>1, <2>2
<1>3. AtTop(B(0)) = Part(0) /\ AtTop(B(1)) = ShiftLeft(Part(1), 8)
      /\ AtTop(B(2)) = ShiftLeft(ShiftLeft(Part(2), 8), 8)
  <2>1. \A e \in 16..23 : /\ e - 16 \in B(0) <=> e \in w
                          /\ e - 16 \in B(1) <=> e - 8 \in w
                          /\ e - 16 \in B(2) <=> e - 16 \in w
    <3> SUFFICES ASSUME NEW e \in 16..23
                 PROVE  /\ e - 16 \in B(0) <=> e \in w
                        /\ e - 16 \in B(1) <=> e - 8 \in w
                        /\ e - 16 \in B(2) <=> e - 16 \in w
      OBVIOUS
    <3>1. e \in 0..23 /\ e - 8 \in 0..23 /\ e - 16 \in 0..23
      OBVIOUS
    <3>2. /\ 8 * n + 23 - e \in bytes <=> e \in w
          /\ 8 * n + 23 - (e - 8) \in bytes <=> e - 8 \in w
          /\ 8 * n + 23 - (e - 16) \in bytes <=> e - 16 \in w
      BY <3>1
    <3>3. /\ 8 * (n + 0) + 7 - (e - 16) = 8 * n + 23 - e
          /\ 8 * (n + 1) + 7 - (e - 16) = 8 * n + 23 - (e - 8)
          /\ 8 * (n + 2) + 7 - (e - 16) = 8 * n + 23 - (e - 16)
          /\ e - 16 \in 0..7
      OBVIOUS
    <3> QED BY <3>2, <3>3 DEF ByteAt
  <2> HIDE DEF B
  <2>2. AtTop(B(0)) = Part(0) BY <2>1 DEF AtTop
  <2>3. AtTop(B(1)) = ShiftLeft(Part(1), 8) BY <2>1 DEF AtTop, ShiftLeft
  <2>4. AtTop(B(2)) = ShiftLeft(Part(2), 16) BY <2>1 DEF AtTop, ShiftLeft
  <2>5. ShiftLeft(ShiftLeft(Part(2), 8), 8) = ShiftLeft(Part(2), 16) BY ShiftsAdd
  <2> QED BY <2>2, <2>3, <2>4, <2>5
<1>4. StepByte(Part(1)) = ShiftLeft(Part(1), 8)
      /\ StepByte(StepByte(Part(2))) = ShiftLeft(ShiftLeft(Part(2), 8), 8)
  <2>1. StepByte(Part(1)) = ShiftLeft(Part(1), 8)
    <3>1. Part(1) \cap 16..23 = {} OBVIOUS
    <3> QED BY <3>1, ClearTopShifts
  <2>2. StepByte(Part(2)) = ShiftLeft(Part(2), 8)
    <3>1. Part(2) \cap 16..23 = {} OBVIOUS
    <3> QED BY <3>1, ClearTopShifts
  <2>3. StepByte(ShiftLeft(Part(2), 8)) = ShiftLeft(ShiftLeft(Part(2), 8), 8)
    <3>1. ShiftLeft(Part(2), 8) \cap 16..23 = {} BY DEF ShiftLeft
    <3> QED BY <3>1, ClearTopShifts
  <2> QED BY <2>1, <2>2, <2>3
<1>5. w = Xor(Xor(Part(0), Part(1)), Part(2))
  <2>1. Part(0) = w \cap 16..23 /\ Part(1) = w \cap 8..15 /\ Part(2) = w \cap 0..7
    OBVIOUS
  <2> HIDE DEF Part
  <2>2. \A e \in w : e \in 0..23 BY DEF Word
  <2>3. \A e : e \in Xor(Xor(Part(0), Part(1)), Part(2)) <=> e \in w
    BY <2>1, <2>2 DEF Xor
  <2> QED BY <2>3, SMT DEF Xor
<1> QED
  <2> HIDE DEF B, Part, x
  <2>1. Xor(x, w) = Xor(Xor(Xor(x, Part(0)), Part(1)), Part(2))
    <3>1. Xor(x, Xor(Xor(Part(0), Part(1)), Part(2))) = Xor(Xor(Xor(x, Part(0)), Part(1)), Part(2))
      BY XorParts
    <3> QED BY <1>5, <3>1
  <2>2. StepByte(StepByte(Xor(Xor(Xor(x, Part(0)), Part(1)), Part(2)))) =
          Xor(Xor(StepByte(StepByte(Xor(x, Part(0)))), StepByte(StepByte(Part(1)))), StepByte(StepByte(Part(2))))
    BY StepByteLinear
  <2>3. crc24(bytes, n + 3) =
          StepByte(Xor(StepByte(Xor(StepByte(Xor(x, Part(0))), StepByte(Part(1)))), StepByte(StepByte(Part(2)))))
    BY <1>1, <1>3, <1>4 DEF FeedBitwise
  <2> QED BY <2>1, <2>2, <2>3, StepByteLinear DEF x

\* ---------------------------------------------------------------- one address for each syndrome

\* A turn of the loop loses nothing: the lowest bit tells whether POLY was subtracted.
LEMMA StepBitInjective ==
  ASSUME NEW a \in Word, NEW b \in Word, StepBit(a) = StepBit(b) PROVE a = b
<1>1. ASSUME NEW x \in Word PROVE 0 \in StepBit(x) <=> 23 \in x
  BY DEF StepBit, Xor, ShiftLeft, POLY
<1>2. 23 \in a <=> 23 \in b
  BY <1>1
<1>3. ShiftLeft(a, 1) = ShiftLeft(b, 1)
  <2>1. ASSUME NEW x, NEW y, Xor(x, POLY) = Xor(y, POLY) PROVE x = y
    BY <2>1 DEF Xor
  <2> QED BY <1>2, <2>1 DEF StepBit
<1>4. \A e \in 0..22 : e \in a <=> e \in b
  <2> SUFFICES ASSUME NEW e \in 0..22 PROVE e \in a <=> e \in b
    OBVIOUS
  <2>1. e \in a <=> e + 1 \in ShiftLeft(a, 1) BY DEF ShiftLeft
  <2>2. e \in b <=> e + 1 \in ShiftLeft(b, 1) BY DEF ShiftLeft
  <2> QED BY <1>3, <2>1, <2>2
<1>5. \A e \in 0..23 : e \in a <=> e \in b
  <2>1. \A e \in 0..23 : e = 23 \/ e \in 0..22 OBVIOUS
  <2> QED BY <1>2, <1>4, <2>1
<1>6. a \subseteq 0..23 /\ b \subseteq 0..23 BY DEF Word
<1> QED BY <1>5, <1>6

LEMMA StepBitInWord == ASSUME NEW a PROVE StepBit(a) \in Word
BY DEF StepBit, Xor, ShiftLeft, POLY, Word

LEMMA StepByteInjective ==
  ASSUME NEW a \in Word, NEW b \in Word, StepByte(a) = StepByte(b) PROVE a = b
<1>1. ASSUME NEW x \in Word, NEW y \in Word, StepTwo(x) = StepTwo(y) PROVE x = y
  BY <1>1, StepBitInjective, StepBitInWord DEF StepTwo
<1>2. ASSUME NEW x \in Word, NEW y \in Word, StepFour(x) = StepFour(y) PROVE x = y
  BY <1>1, <1>2, StepBitInWord DEF StepFour, StepTwo
<1> QED BY <1>2, StepBitInWord DEF StepByte, StepFour, StepTwo

LEMMA StepByteInWord == ASSUME NEW a PROVE StepByte(a) \in Word
BY StepBitInWord DEF StepByte, StepFour, StepTwo

LEMMA CrcInWord ==
  ASSUME NEW bytes, NEW n \in Nat PROVE crc24(bytes, n) \in Word
<1>1. CASE n = 0
  BY <1>1, CrcTurn DEF Word
<1>2. CASE n # 0
  <2>1. n - 1 \in Nat /\ (n - 1) + 1 = n
    BY <1>2
  <2>2. crc24(bytes, (n - 1) + 1) = FeedBitwise(crc24(bytes, n - 1), ByteAt(bytes, n - 1))
    BY <2>1, CrcTurnBitwise
  <2> QED BY <2>1, <2>2, StepByteInWord DEF FeedBitwise
<1> QED BY <1>1, <1>2

\* The checksum of an address is 24 turns of the loop over the address itself.
LEMMA AddressIsStepped ==
  ASSUME NEW icao \in Word
  PROVE  CrcOfAddress(icao) = StepByte(StepByte(StepByte(icao)))
<1>1. \A e \in 0..23 : 8 * 0 + 23 - e \in AddressBytes(icao) <=> e \in icao
  BY DEF AddressBytes
<1>2. crc24(AddressBytes(icao), 0 + 3) = StepByte(StepByte(StepByte(Xor(crc24(AddressBytes(icao), 0), icao))))
  <2>1. 0 \in Nat OBVIOUS
  <2> QED BY <1>1, <2>1, ThreeBytes
<1>3. crc24(AddressBytes(icao), 0) = {} /\ 0 + 3 = 3
  BY CrcTurn
<1> QED BY <1>2, <1>3, XorParts DEF CrcOfAddress

\* The checksum of an address tells the address: the syndrome of an overlaid reply belongs to one aircraft,
\* which resolve_icao relies on when it takes the first that matches.
THEOREM AddressesTold ==
  ASSUME NEW a \in Word, NEW b \in Word, CrcOfAddress(a) = CrcOfAddress(b)
  PROVE  a = b
BY AddressIsStepped, StepByteInjective, StepByteInWord

\* A frame with a word laid over its parity leaves the syndrome of that word, whatever the frame says: the parity
\* that encoders append is clean, and an overlaid reply shows its address (state.rs, resolve_icao).
THEOREM OverlayShows ==
  ASSUME NEW n \in Nat, NEW data \in SUBSET (0..8 * n - 1), NEW overlay \in Word
  PROVE  crc24(data \cup AtPositions(Xor(crc24(data, n), overlay), 8 * n + 23), n + 3) = CrcOfAddress(overlay)
<1> DEFINE w == Xor(crc24(data, n), overlay)
           frame == data \cup AtPositions(w, 8 * n + 23)
<1>1. crc24(data, n) \in Word
  BY CrcInWord
<1>2. w \in Word
  BY <1>1 DEF Xor, Word
<1>3. \A e \in 0..23 : 8 * n + 23 - e \in frame <=> e \in w
  BY <1>2 DEF AtPositions, Word
<1>4. \A p \in 0..8 * n - 1 : p \in frame <=> p \in data
  BY <1>2 DEF AtPositions, Word
<1> HIDE DEF w, frame
<1>5. crc24(frame, n) = crc24(data, n)
  BY <1>4, CrcOfPrefix
<1>6. crc24(frame, n + 3) = StepByte(StepByte(StepByte(Xor(crc24(frame, n), w))))
  BY <1>2, <1>3, ThreeBytes
<1>7. Xor(crc24(data, n), w) = overlay
  BY XorParts DEF w
<1> QED BY <1>5, <1>6, <1>7, AddressIsStepped DEF w, frame

\* ---------------------------------------------------------------- frames on the link

LEMMA CrcOfNothing ==
  ASSUME NEW n \in Nat PROVE crc24({}, n) = {} /\ CrcOfAddress({}) = {}
<1>1. \A k \in Nat : crc24({}, k) = {}
  <2>1. ASSUME NEW a PROVE Xor(a, a) = {}
    BY DEF Xor
  <2>2. ASSUME NEW k \in Nat PROVE crc24(Xor({}, {}), k) = Xor(crc24({}, k), crc24({}, k))
    BY CrcLinear
  <2> QED BY <2>1, <2>2
<1>2. CrcOfAddress({}) = crc24({}, 3)
  BY DEF CrcOfAddress, AddressBytes
<1> QED BY <1>1, <1>2

\* What a transponder sends: data that begin with the format, and their checksum under the overlay.
Framed(df, bytes, overlay) ==
  \E data \in SUBSET (0..8 * (FrameBytes(df) - 3) - 1) :
    /\ data \cap 0..4 = PutFormat(df)
    /\ bytes = data \cup AtPositions(Xor(crc24(data, FrameBytes(df) - 3), overlay), 8 * FrameBytes(df) - 1)

LEMMA FrameLengths ==
  ASSUME NEW df \in CleanCrc \cup AddressedCrc
  PROVE  /\ df \notin CleanCrc => df \in AddressedCrc
         /\ FrameBytes(df) \in {7, 14} /\ ~Reserved(df)
         /\ df \in {17, 18} => FrameBytes(df) = 14
         /\ df = 11 => FrameBytes(df) = 7
BY DEF CleanCrc, AddressedCrc, FrameBytes, Reserved

LEMMA MeFits ==
  ASSUME NEW m, m.kind \in {"identification", "airborne", "surface", "ground", "airspeed"}
  PROVE  Me(m) \subseteq 32..87
<1>1. ASSUME NEW cpr PROVE PutPosition(cpr) \subseteq 32..87
  BY DEF PutPosition, Put, Flag
<1>2. ASSUME NEW v, NEW pos \in 1..46, NEW scale PROVE PutComponent(v, pos, scale) \subseteq 32..87
  <2>1. Flag(v < 0, pos) \subseteq 32..87
    BY DEF Flag
  <2>2. ASSUME NEW x PROVE Put(x, pos + 1, 10) \subseteq 32..87
    BY DEF Put
  <2> QED BY <2>1, <2>2 DEF PutComponent
<1>3. ASSUME NEW rate PROVE PutRate(rate) \subseteq 32..87
  <2>1. Flag(~rate.gnss, 36) \subseteq 32..87 /\ Flag(rate.vertical < 0, 37) \subseteq 32..87
    BY DEF Flag
  <2>2. ASSUME NEW x PROVE Put(x, 38, 9) \subseteq 32..87
    BY DEF Put
  <2> QED BY <2>1, <2>2 DEF PutRate
<1>4. CASE m.kind = "identification"
  <2>1. ASSUME NEW k \in 1..8, NEW v PROVE Put(v, 9 + 6 * (k - 1), 6) \subseteq 32..87
    BY DEF Put
  <2>2. ASSUME NEW v PROVE Put(v, 1, 5) \subseteq 32..87 /\ Put(v, 6, 3) \subseteq 32..87
    BY DEF Put
  <2>3. UNION {Put(IF k <= Len(m.callsign) THEN m.callsign[k] ELSE 32, 9 + 6 * (k - 1), 6) : k \in 1..8} \subseteq 32..87
    BY <2>1
  <2> QED BY <1>4, <2>2, <2>3 DEF Me
<1>5. CASE m.kind = "airborne"
  <2>1. ASSUME NEW v PROVE /\ Put(v, 1, 5) \subseteq 32..87 /\ Put(v, 9, 12) \subseteq 32..87
                           /\ Put(v, 9, 7) \subseteq 32..87 /\ Put(v, 17, 4) \subseteq 32..87
    BY DEF Put
  <2>2. Flag(TRUE, 16) \subseteq 32..87
    BY DEF Flag
  <2> DEFINE n == (m.feet + 1000) \div 25
             Altitude == CASE m.metres # NoValue -> Put(m.metres, 9, 12)
                           [] m.metres = NoValue /\ m.feet # NoValue ->
                                Put(n \div 16, 9, 7) \cup Flag(TRUE, 16) \cup Put(n % 16, 17, 4)
                           [] OTHER -> {}
  <2>3. Altitude \subseteq 32..87
    <3>1. CASE m.metres # NoValue
      BY <2>1, <3>1
    <3>2. CASE m.metres = NoValue /\ m.feet # NoValue
      <4>1. Altitude = Put(n \div 16, 9, 7) \cup Flag(TRUE, 16) \cup Put(n % 16, 17, 4)
        BY <3>2
      <4> HIDE DEF n, Altitude
      <4>2. Put(n \div 16, 9, 7) \subseteq 32..87 /\ Put(n % 16, 17, 4) \subseteq 32..87
        BY <2>1
      <4> QED BY <2>2, <4>1, <4>2
    <3>3. CASE m.metres = NoValue /\ m.feet = NoValue
      BY <3>3
    <3> QED BY <3>1, <3>2, <3>3
  <2>4. Me(m) = Put(IF m.metres = NoValue THEN 11 ELSE 20, 1, 5) \cup PutPosition(m.cpr) \cup Altitude
    BY <1>5 DEF Me
  <2> HIDE DEF Altitude
  <2> QED BY <1>1, <2>1, <2>3, <2>4
<1>6. CASE m.kind = "surface"
  <2>1. ASSUME NEW v
        PROVE  Put(v, 1, 5) \subseteq 32..87 /\ Put(v, 6, 7) \subseteq 32..87 /\ Put(v, 14, 7) \subseteq 32..87
    BY DEF Put
  <2>2. Flag(TRUE, 13) \subseteq 32..87
    BY DEF Flag
  <2> QED BY <1>1, <1>6, <2>1, <2>2 DEF Me
<1>7. CASE m.kind = "ground"
  <2>1. ASSUME NEW v PROVE Put(v, 1, 5) \subseteq 32..87 /\ Put(v, 6, 3) \subseteq 32..87
    BY DEF Put
  <2>2. /\ PutComponent(m.east, 14, Scale(m)) \subseteq 32..87
        /\ PutComponent(m.north, 25, Scale(m)) \subseteq 32..87
    <3>1. 14 \in 1..46 /\ 25 \in 1..46
      OBVIOUS
    <3> QED BY <1>2, <3>1
  <2> QED BY <1>3, <1>7, <2>1, <2>2 DEF Me
<1>8. CASE m.kind = "airspeed"
  <2>1. ASSUME NEW v
        PROVE  /\ Put(v, 1, 5) \subseteq 32..87 /\ Put(v, 6, 3) \subseteq 32..87
               /\ Put(v, 26, 10) \subseteq 32..87 /\ Put(v, 15, 10) \subseteq 32..87
    BY DEF Put
  <2>2. Flag(m.tas, 25) \subseteq 32..87 /\ Flag(TRUE, 14) \subseteq 32..87
    BY DEF Flag
  <2> DEFINE Heading == IF m.heading = NoValue THEN {} ELSE Flag(TRUE, 14) \cup Put(m.heading, 15, 10)
  <2>3. Heading \subseteq 32..87
    BY <2>1, <2>2
  <2>4. Me(m) = Put(19, 1, 5) \cup Put(IF m.speed > 1022 THEN 4 ELSE 3, 6, 3) \cup PutRate(m.rate)
                  \cup Flag(m.tas, 25) \cup Put(m.speed \div AirScale(m) + 1, 26, 10) \cup Heading
    BY <1>8 DEF Me
  <2> DEFINE Type == Put(IF m.speed > 1022 THEN 4 ELSE 3, 6, 3)
             TrueAir == Flag(m.tas, 25)
             Speed == Put(m.speed \div AirScale(m) + 1, 26, 10)
  <2>5. Type \subseteq 32..87 /\ TrueAir \subseteq 32..87 /\ Speed \subseteq 32..87
    BY <2>1, <2>2
  <2>6. Me(m) = Put(19, 1, 5) \cup Type \cup PutRate(m.rate) \cup TrueAir \cup Speed \cup Heading
    BY <2>4
  <2> HIDE DEF Heading, Type, TrueAir, Speed
  <2> QED BY <1>3, <2>1, <2>3, <2>5, <2>6
<1> QED BY <1>4, <1>5, <1>6, <1>7, <1>8

LEMMA EncodedFrames ==
  ASSUME NEW df \in CleanCrc \cup AddressedCrc, NEW content, NEW overlay,
         content \subseteq 5..(8 * (FrameBytes(df) - 3) - 1)
  PROVE  Framed(df, Encoded(df, content, overlay), overlay)
<1> DEFINE data == PutFormat(df) \cup content
<1>1. FrameBytes(df) \in {7, 14}
  BY FrameLengths
<1>2. PutFormat(df) \subseteq 0..4
  BY DEF PutFormat
<1>3. data \in SUBSET (0..8 * (FrameBytes(df) - 3) - 1) /\ data \cap 0..4 = PutFormat(df)
  <2>1. PICK n \in {7, 14} : FrameBytes(df) = n
    BY <1>1
  <2>2. content \subseteq 5..8 * (n - 3) - 1
    BY <2>1
  <2>3. data \in SUBSET (0..8 * (n - 3) - 1)
    <3>1. \A p \in 0..4 : p \in 0..8 * (n - 3) - 1
      OBVIOUS
    <3>2. \A p \in 5..8 * (n - 3) - 1 : p \in 0..8 * (n - 3) - 1
      OBVIOUS
    <3> QED BY <1>2, <2>2, <3>1, <3>2
  <2>4. data \cap 0..4 = PutFormat(df)
    BY <1>2, <2>2
  <2> QED BY <2>1, <2>3, <2>4
<1>4. Encoded(df, content, overlay)
        = data \cup AtPositions(Xor(crc24(data, FrameBytes(df) - 3), overlay), 8 * FrameBytes(df) - 1)
  BY DEF Encoded
<1> HIDE DEF data
<1> QED BY <1>3, <1>4 DEF Framed

\* Every kind of frame is encoded so; its overlay is nothing, an interrogator's code or the sender's address.
LEMMA SentFrames ==
  ASSUME NEW s \in Squitters \cup AllCalls \cup Surveillance
  PROVE  /\ s.df \in CleanCrc \cup AddressedCrc /\ s.overlay \in Word /\ Framed(s.df, s.bytes, s.overlay)
         /\ s.df \in CleanCrc => s.overlay \subseteq 0..6
         /\ s.df \in AddressedCrc => s.overlay = s.icao
<1>1. CASE s \in Squitters
  <2>1. PICK df \in {17, 18}, a \in Icaos, m \in Messages :
          s = Sent(df, a, m, Put24(a) \cup {5} \cup Me(m), {})
    BY <1>1 DEF Squitters
  <2>2. s.df = df /\ s.overlay = {} /\ s.bytes = Encoded(df, Put24(a) \cup {5} \cup Me(m), {})
    BY <2>1 DEF Sent
  <2>3. df \in CleanCrc \cup AddressedCrc /\ df \notin AddressedCrc /\ FrameBytes(df) = 14
    BY FrameLengths DEF CleanCrc, AddressedCrc
  <2>4. Put24(a) \subseteq 8..31
    BY LinkAssumption DEF Put24, AtPositions, Word
  <2>5. Me(m) \subseteq 32..87
    BY MeFits, LinkAssumption
  <2>6. Put24(a) \cup {5} \cup Me(m) \subseteq 5..(8 * (FrameBytes(df) - 3) - 1)
    <3>1. 8 * (14 - 3) - 1 = 87 OBVIOUS
    <3> QED BY <2>3, <2>4, <2>5, <3>1
  <2>7. Framed(df, Encoded(df, Put24(a) \cup {5} \cup Me(m), {}), {})
    BY <2>3, <2>6, EncodedFrames
  <2> QED BY <2>2, <2>3, <2>7 DEF Word
<1>2. CASE s \in AllCalls
  <2>1. PICK a \in Icaos, code \in Codes :
          s = Sent(11, a, [kind |-> "all_call"], Put24(a) \cup {5}, code)
    BY <1>2 DEF AllCalls
  <2>2. s.df = 11 /\ s.overlay = code /\ s.bytes = Encoded(11, Put24(a) \cup {5}, code)
    BY <2>1 DEF Sent
  <2>3. 11 \in CleanCrc \cup AddressedCrc /\ 11 \notin AddressedCrc /\ FrameBytes(11) = 7
    BY FrameLengths DEF CleanCrc, AddressedCrc
  <2>4. Put24(a) \subseteq 8..31
    BY LinkAssumption DEF Put24, AtPositions, Word
  <2>5. Put24(a) \cup {5} \subseteq 5..(8 * (FrameBytes(11) - 3) - 1)
    <3>1. 8 * (7 - 3) - 1 = 31 OBVIOUS
    <3> QED BY <2>3, <2>4, <3>1
  <2>6. Framed(11, Encoded(11, Put24(a) \cup {5}, code), code)
    BY <2>3, <2>5, EncodedFrames
  <2>7. code \subseteq 0..6 /\ code \in Word
    BY LinkAssumption DEF Word
  <2> QED BY <2>2, <2>3, <2>6, <2>7
<1>3. CASE s \in Surveillance
  <2> DEFINE Reply(df, a, p) == Sent(df, a, [kind |-> "reply", payload |-> p], p \cap 5..(8 * FrameBytes(df) - 25), a)
  <2>1. Surveillance = {Reply(df, a, p) : df \in AddressedCrc, a \in Icaos, p \in Replies}
    BY DEF Surveillance
  <2> HIDE DEF Reply
  <2>2. PICK df \in AddressedCrc, a \in Icaos, p \in Replies : s = Reply(df, a, p)
    BY <1>3, <2>1
  <2>3. s.df = df /\ s.icao = a /\ s.overlay = a /\ s.bytes = Encoded(df, p \cap 5..(8 * FrameBytes(df) - 25), a)
    BY <2>2 DEF Sent, Reply
  <2>4. df \notin CleanCrc /\ FrameBytes(df) \in {7, 14}
    BY FrameLengths DEF CleanCrc, AddressedCrc
  <2>5. p \cap 5..(8 * FrameBytes(df) - 25) \subseteq 5..(8 * (FrameBytes(df) - 3) - 1)
    BY <2>4
  <2>6. Framed(df, Encoded(df, p \cap 5..(8 * FrameBytes(df) - 25), a), a)
    BY <2>5, EncodedFrames
  <2>7. a \in Word
    BY LinkAssumption
  <2> QED BY <2>3, <2>4, <2>6, <2>7
<1> QED BY <1>1, <1>2, <1>3

\* ---------------------------------------------------------------- what the receiver makes of them

\* The bits on the air are the frame sent, flipped where the errors are; what was heard, some receiver made of them.
LinkInv ==
  /\ sent = Nothing => errors = {} /\ heard = Nothing
  /\ sent # Nothing => /\ sent \in Squitters \cup AllCalls \cup Surveillance
                       /\ errors \subseteq 0..Length - 1
                       /\ bits = Xor(sent.bytes, errors)
  /\ heard # Nothing => \E depth \in Depths : \E tail \in Tails : heard = Received(depth, tail)

LEMMA LinkInvInit == Init => LinkInv
BY DEF Init, LinkInv

LEMMA LinkInvNext == LinkInv /\ [Next]_vars => LinkInv'
<1> SUFFICES ASSUME LinkInv, [Next]_vars PROVE LinkInv'
  OBVIOUS
<1> USE DEF LinkInv
<1>1. ASSUME UNCHANGED <<sent, bits>>
      PROVE  /\ Length' = Length /\ Tails' = Tails
             /\ \A depth, tail : Received(depth, tail)' = Received(depth, tail)
  BY <1>1 DEF Length, Tails, ReadLength, Received, Sliced
<1>2. CASE Transmit
  <2>1. sent = Nothing /\ errors = {} /\ heard = Nothing
    BY <1>2 DEF Transmit
  <2>2. sent' \in Squitters \cup AllCalls \cup Surveillance /\ bits' = sent'.bytes /\ errors' = {} /\ heard' = Nothing
    BY <1>2, <2>1 DEF Transmit
  <2>3. bits' = Xor(sent'.bytes, errors')
    BY <2>2, XorParts
  <2> QED BY <2>2, <2>3
<1>3. ASSUME NEW p \in 0..8 * LONG_FRAME_BYTES - 1, Flip(p)
      PROVE  LinkInv'
  <2>1. /\ sent # Nothing /\ heard = Nothing /\ p < Length
        /\ p \notin errors /\ bits' = Xor(bits, {p}) /\ errors' = errors \cup {p} /\ sent' = sent /\ heard' = heard
    BY <1>3 DEF Flip
  <2>2. Length' = Length /\ Length \in Int
    <3>1. Length \in Int
      BY DEF Length, FrameBytes
    <3> QED BY <2>1, <3>1 DEF Length
  <2>3. errors' \subseteq 0..Length' - 1
    <3>1. p \in 0..Length - 1
      BY <2>1, <2>2 DEF LONG_FRAME_BYTES
    <3> QED BY <2>1, <2>2, <3>1
  <2>4. bits' = Xor(sent'.bytes, errors')
    <3>1. errors \cup {p} = Xor(errors, {p})
      BY <2>1 DEF Xor
    <3>2. Xor(Xor(sent.bytes, errors), {p}) = Xor(sent.bytes, Xor(errors, {p}))
      BY XorParts
    <3> QED BY <2>1, <3>1, <3>2
  <2> QED BY <2>1, <2>3, <2>4
<1>4. ASSUME NEW depth \in Depths, sent # Nothing, NEW tail \in Tails, Receive(depth, tail)
      PROVE  LinkInv'
  <2>1. UNCHANGED <<sent, bits>> /\ errors' = errors /\ heard' = Received(depth, tail)
    BY <1>4 DEF Receive
  <2>2. /\ Length' = Length /\ Tails' = Tails
        /\ Received(depth, tail)' = Received(depth, tail)
    BY <1>1, <2>1
  <2>3. \E d \in Depths : \E t \in Tails' : heard' = Received(d, t)'
    BY <1>4, <2>1, <2>2
  <2> QED BY <1>4, <2>1, <2>2, <2>3
<1>5. CASE Over
  BY <1>5 DEF Over
<1>6. CASE UNCHANGED vars
  <2>1. UNCHANGED <<sent, bits>> /\ errors' = errors /\ heard' = heard
    BY <1>6 DEF vars
  <2>2. /\ Length' = Length /\ Tails' = Tails
        /\ \A depth, tail : Received(depth, tail)' = Received(depth, tail)
    BY <1>1, <2>1
  <2> QED BY <2>1, <2>2
<1> QED BY <1>2, <1>3, <1>4, <1>5, <1>6 DEF Next

\* It holds in every behaviour of the link, whatever is sent and wherever noise hits.
THEOREM LinkInvHolds == Spec => []LinkInv
BY LinkInvInit, LinkInvNext, PTL DEF Spec

\* The format is read as it was written, whatever follows it.
LEMMA FormatRead ==
  ASSUME NEW df \in 0..31, NEW bytes, bytes \cap 0..4 = PutFormat(df)
  PROVE  DownlinkFormat(bytes) = df
<1>1. /\ FormatWeight[1] = 16 /\ FormatWeight[2] = 8 /\ FormatWeight[3] = 4 /\ FormatWeight[4] = 2 /\ FormatWeight[5] = 1
      /\ 0 + 1 = 1 /\ 1 + 1 = 2 /\ 2 + 1 = 3 /\ 3 + 1 = 4 /\ 4 + 1 = 5
  BY DEF FormatWeight
<1>2. \A p \in 0..4 : p \in bytes <=> (df \div FormatWeight[p + 1]) % 2 = 1
  BY DEF PutFormat
<1>3. /\ 0 \in bytes <=> (df \div 16) % 2 = 1
      /\ 1 \in bytes <=> (df \div 8) % 2 = 1
      /\ 2 \in bytes <=> (df \div 4) % 2 = 1
      /\ 3 \in bytes <=> (df \div 2) % 2 = 1
      /\ 4 \in bytes <=> (df \div 1) % 2 = 1
  <2>1. 0 \in 0..4 /\ 1 \in 0..4 /\ 2 \in 0..4 /\ 3 \in 0..4 /\ 4 \in 0..4
    OBVIOUS
  <2> HIDE DEF FormatWeight
  <2>2. /\ 0 \in bytes <=> (df \div FormatWeight[0 + 1]) % 2 = 1
        /\ 1 \in bytes <=> (df \div FormatWeight[1 + 1]) % 2 = 1
        /\ 2 \in bytes <=> (df \div FormatWeight[2 + 1]) % 2 = 1
        /\ 3 \in bytes <=> (df \div FormatWeight[3 + 1]) % 2 = 1
        /\ 4 \in bytes <=> (df \div FormatWeight[4 + 1]) % 2 = 1
    BY <1>2, <2>1
  <2> QED BY <1>1, <2>2
<1> DEFINE bit(k) == IF k \in bytes THEN 1 ELSE 0
<1>4. DownlinkFormat(bytes) = 16 * bit(0) + 8 * bit(1) + 4 * bit(2) + 2 * bit(3) + bit(4)
  BY <1>1 DEF DownlinkFormat
<1>5. /\ bit(0) = (df \div 16) % 2 /\ bit(1) = (df \div 8) % 2 /\ bit(2) = (df \div 4) % 2
      /\ bit(3) = (df \div 2) % 2 /\ bit(4) = (df \div 1) % 2
  <2>1. ASSUME NEW k, NEW d \in {1, 2, 4, 8, 16}, k \in bytes <=> (df \div d) % 2 = 1
        PROVE  bit(k) = (df \div d) % 2
    <3>1. (df \div d) % 2 \in {0, 1}
      OBVIOUS
    <3> QED BY <2>1, <3>1
  <2> HIDE DEF bit
  <2> QED BY <1>3, <2>1
<1> HIDE DEF bit
<1>6. 16 * ((df \div 16) % 2) + 8 * ((df \div 8) % 2) + 4 * ((df \div 4) % 2) + 2 * ((df \div 2) % 2) + ((df \div 1) % 2) = df
  OBVIOUS
<1> QED BY <1>4, <1>5, <1>6

\* A frame is clean but for its overlay, and errors leave their own syndrome on top of that.
LEMMA FrameSyndrome ==
  ASSUME NEW df \in CleanCrc \cup AddressedCrc, NEW frame, NEW overlay \in Word, Framed(df, frame, overlay)
  PROVE  /\ crc24(frame, FrameBytes(df)) = CrcOfAddress(overlay)
         /\ frame \subseteq 0..8 * FrameBytes(df) - 1
         /\ frame \cap 0..4 = PutFormat(df)
<1>1. PICK n \in {4, 11} : FrameBytes(df) = n + 3
  <2>1. FrameBytes(df) \in {7, 14}
    BY FrameLengths
  <2> QED BY <2>1
<1>2. (n + 3) - 3 = n /\ 8 * (n + 3) - 1 = 8 * n + 23 /\ n \in Nat
  OBVIOUS
<1>3. PICK data \in SUBSET (0..8 * n - 1) :
        /\ data \cap 0..4 = PutFormat(df)
        /\ frame = data \cup AtPositions(Xor(crc24(data, n), overlay), 8 * n + 23)
  BY <1>1, <1>2 DEF Framed
<1>4. crc24(frame, n + 3) = CrcOfAddress(overlay)
  BY <1>2, <1>3, OverlayShows
<1>5. Xor(crc24(data, n), overlay) \in Word
  <2>1. crc24(data, n) \in Word
    BY <1>2, CrcInWord
  <2> QED BY <2>1 DEF Xor, Word
<1>6. AtPositions(Xor(crc24(data, n), overlay), 8 * n + 23) \subseteq 8 * n..8 * n + 23
  <2> DEFINE w == Xor(crc24(data, n), overlay)
  <2>1. w \subseteq 0..23
    BY <1>5 DEF Word
  <2> HIDE DEF w
  <2> QED BY <2>1 DEF AtPositions, w
<1>7. frame \subseteq 0..8 * n + 23 /\ frame \cap 0..4 = data \cap 0..4
  <2> DEFINE parity == AtPositions(Xor(crc24(data, n), overlay), 8 * n + 23)
  <2> HIDE DEF parity
  <2>1. frame = data \cup parity /\ parity \subseteq 8 * n..8 * n + 23
    BY <1>3, <1>6 DEF parity
  <2> QED BY <2>1
<1> QED BY <1>1, <1>2, <1>3, <1>4, <1>7

\* Errors in the parity leave the syndrome of the address they spell.
LEMMA ParityErrors ==
  ASSUME NEW n \in Nat, NEW e \in SUBSET (8 * n..8 * n + 23)
  PROVE  LET word == {8 * n + 23 - p : p \in e}
         IN  word \in Word /\ crc24(e, n + 3) = CrcOfAddress(word)
<1> DEFINE word == {8 * n + 23 - p : p \in e}
<1>1. word \in Word
  BY DEF Word
<1>2. \A k \in 0..23 : 8 * n + 23 - k \in e <=> k \in word
  OBVIOUS
<1>3. crc24(e, n) = {}
  <2>1. \A p \in 0..8 * n - 1 : p \in e <=> p \in {}
    OBVIOUS
  <2>2. crc24(e, n) = crc24({}, n)
    BY <2>1, CrcOfPrefix
  <2> QED BY <2>2, CrcOfNothing
<1> HIDE DEF word
<1>4. crc24(e, n + 3) = StepByte(StepByte(StepByte(Xor(crc24(e, n), word))))
  BY <1>1, <1>2, ThreeBytes
<1>5. crc24(e, n + 3) = CrcOfAddress(word)
  BY <1>1, <1>3, <1>4, XorParts, AddressIsStepped
<1> QED BY <1>1, <1>5 DEF word

LEMMA AddressesAdd ==
  ASSUME NEW a \in Word, NEW b \in Word
  PROVE  Xor(a, b) \in Word /\ CrcOfAddress(Xor(a, b)) = Xor(CrcOfAddress(a), CrcOfAddress(b))
<1>1. Xor(a, b) \in Word
  BY DEF Xor, Word
<1> QED BY <1>1, AddressIsStepped, StepByteLinear

\* What is read of a frame whose format survived: all of it, and nothing of what follows.
LEMMA ReadWhole ==
  ASSUME LinkInv, sent # Nothing, DownlinkFormat(bits) = sent.df, NEW tail \in Tails
  PROVE  /\ sent.df \in CleanCrc \cup AddressedCrc
         /\ bits \subseteq 0..Length - 1 /\ Sliced(tail) = bits
         /\ crc24(bits, FrameBytes(sent.df)) = Xor(CrcOfAddress(sent.overlay), crc24(errors, FrameBytes(sent.df)))
<1>1. /\ sent \in Squitters \cup AllCalls \cup Surveillance
      /\ errors \subseteq 0..Length - 1 /\ bits = Xor(sent.bytes, errors)
  BY DEF LinkInv
<1>2. sent.df \in CleanCrc \cup AddressedCrc /\ sent.overlay \in Word /\ Framed(sent.df, sent.bytes, sent.overlay)
  BY <1>1, SentFrames
<1>3. /\ crc24(sent.bytes, FrameBytes(sent.df)) = CrcOfAddress(sent.overlay)
      /\ sent.bytes \subseteq 0..Length - 1
  BY <1>2, FrameSyndrome DEF Length
<1>4. bits \subseteq 0..Length - 1
  BY <1>1, <1>3 DEF Xor
<1>5. ReadLength = Length /\ Length \in Nat
  <2>1. FrameBytes(sent.df) \in {7, 14}
    BY <1>2, FrameLengths
  <2> QED BY <2>1 DEF ReadLength, Length
<1>6. tail = {}
  BY <1>5 DEF Tails
<1>7. Sliced(tail) = bits
  BY <1>4, <1>5, <1>6 DEF Sliced
<1>8. FrameBytes(sent.df) \in Nat
  BY <1>2, FrameLengths
<1>9. crc24(bits, FrameBytes(sent.df)) = Xor(CrcOfAddress(sent.overlay), crc24(errors, FrameBytes(sent.df)))
  BY <1>1, <1>3, <1>8, CrcLinear
<1> QED BY <1>2, <1>4, <1>7, <1>9

\* Errors behind the format leave it as it was sent.
LEMMA FormatSurvives ==
  ASSUME LinkInv, sent # Nothing, OnlyParityHit
  PROVE  DownlinkFormat(bits) = sent.df
<1>1. /\ sent \in Squitters \cup AllCalls \cup Surveillance
      /\ errors \subseteq 0..Length - 1 /\ bits = Xor(sent.bytes, errors)
  BY DEF LinkInv
<1>2. sent.df \in CleanCrc \cup AddressedCrc /\ sent.overlay \in Word /\ Framed(sent.df, sent.bytes, sent.overlay)
  BY <1>1, SentFrames
<1>3. sent.bytes \cap 0..4 = PutFormat(sent.df)
  BY <1>2, FrameSyndrome
<1>4. errors \cap 0..4 = {}
  <2>1. PICK n \in {7, 14} : FrameBytes(sent.df) = n
    BY <1>2, FrameLengths
  <2>2. \A p \in errors : p \in 0..8 * n - 1 /\ p >= 8 * n - 24
    BY <1>1, <2>1 DEF OnlyParityHit, Length
  <2> QED BY <2>2
<1>5. bits \cap 0..4 = PutFormat(sent.df)
  BY <1>1, <1>3, <1>4 DEF Xor
<1>6. sent.df \in 0..31
  BY <1>2 DEF CleanCrc, AddressedCrc
<1> QED BY <1>5, <1>6, FormatRead

LEMMA RepliesFollow == LinkInv => RepliesAttributed
<1> SUFFICES ASSUME LinkInv, IsHeard, sent.df \in AddressedCrc, OnlyParityHit
             PROVE  heard.icao = IF ShownAddress \in Active \ {{}} THEN ShownAddress ELSE NoValue
  BY DEF RepliesAttributed
<1>1. sent # Nothing /\ sent \in Squitters \cup AllCalls \cup Surveillance /\ errors \subseteq 0..Length - 1
  BY DEF LinkInv, IsHeard
<1>2. PICK depth \in Depths : \E tail \in Tails : heard = Received(depth, tail)
  BY DEF LinkInv, IsHeard
<1>3. PICK tail \in Tails : heard = Received(depth, tail)
  BY <1>2
<1>4. DownlinkFormat(bits) = sent.df
  BY <1>1, FormatSurvives
<1>5. /\ Sliced(tail) = bits
      /\ crc24(bits, FrameBytes(sent.df)) = Xor(CrcOfAddress(sent.overlay), crc24(errors, FrameBytes(sent.df)))
  BY <1>1, <1>4, ReadWhole
<1>6. sent.overlay = sent.icao /\ sent.icao \in Word
  BY <1>1, SentFrames
<1>7. ShownAddress \in Word /\ crc24(bits, FrameBytes(sent.df)) = CrcOfAddress(ShownAddress)
  <2>1. PICK n \in {4, 11} : FrameBytes(sent.df) = n + 3 /\ Length = 8 * n + 24
    <3>1. FrameBytes(sent.df) \in {7, 14}
      BY FrameLengths
    <3> QED BY <3>1 DEF Length
  <2>2. errors \in SUBSET (8 * n..8 * n + 23)
    <3>1. \A p \in errors : p \in 0..(8 * n + 24) - 1 /\ p >= (8 * n + 24) - 24
      BY <1>1, <2>1 DEF OnlyParityHit
    <3> QED BY <3>1
  <2> DEFINE word == {8 * n + 23 - p : p \in errors}
  <2>3. word \in Word /\ crc24(errors, n + 3) = CrcOfAddress(word)
    <3>1. n \in Nat OBVIOUS
    <3> QED BY <2>2, <3>1, ParityErrors
  <2>4. ShownAddress = Xor(sent.icao, word)
    <3>1. {p \in errors : p >= Length - 24} = errors
      BY DEF OnlyParityHit
    <3>2. {Length - 1 - p : p \in errors} = word
      <4>1. \A p \in errors : Length - 1 - p = 8 * n + 23 - p
        BY <2>1, <2>2
      <4> QED BY <4>1
    <3> QED BY <3>1, <3>2 DEF ShownAddress
  <2> HIDE DEF word
  <2> QED BY <1>5, <1>6, <2>1, <2>3, <2>4, AddressesAdd
<1>8. heard.icao = Recovered(bits, sent.df)
  <2>1. sent.df \notin CleanCrc /\ ~Reserved(sent.df)
    BY DEF CleanCrc, AddressedCrc, Reserved
  <2>2. Checked(bits, sent.df, depth) = [outcome |-> "Failed", bytes |-> bits]
    BY <2>1 DEF Checked
  <2>3. Resolved(Checked(bits, sent.df, depth), sent.df) = [icao |-> Recovered(bits, sent.df), message |-> NoValue]
    BY <2>2 DEF Resolved
  <2>4. Received(depth, tail) =
          [df |-> sent.df, depth |-> depth, outcome |-> "Failed", icao |-> Recovered(bits, sent.df), message |-> NoValue]
    BY <1>4, <1>5, <2>1, <2>2, <2>3 DEF Received
  <2> QED BY <1>3, <2>4
<1>9. Recovered(bits, sent.df) = IF ShownAddress \in Active \ {{}} THEN ShownAddress ELSE NoValue
  <2> DEFINE syndrome == CrcOfAddress(ShownAddress)
             hits == {icao \in Active : ActiveSyndromes[icao] = syndrome}
  <2>1. Recovered(bits, sent.df) = IF syndrome = {} \/ hits = {} THEN NoValue ELSE CHOOSE icao \in hits : TRUE
    BY <1>7 DEF Recovered
  <2>2. syndrome = {} <=> ShownAddress = {}
    <3>1. CrcOfAddress({}) = {} /\ {} \in Word
      BY CrcOfNothing DEF Word
    <3> QED BY <1>7, <3>1, AddressesTold
  <2>3. hits = Active \cap {ShownAddress}
    <3>1. \A icao \in Active : icao \in Word /\ ActiveSyndromes[icao] = CrcOfAddress(icao)
      BY LinkAssumption DEF ActiveSyndromes
    <3>2. \A icao \in Active : ActiveSyndromes[icao] = syndrome <=> icao = ShownAddress
      BY <1>7, <3>1, AddressesTold
    <3> QED BY <3>2
  <2> HIDE DEF syndrome, hits
  <2>4. CASE ShownAddress \in Active
    <3>1. hits = {ShownAddress}
      BY <2>3, <2>4
    <3>2. (CHOOSE icao \in hits : TRUE) \in hits
      BY <3>1
    <3> QED BY <2>1, <2>2, <2>4, <3>1, <3>2
  <2>5. CASE ShownAddress \notin Active
    BY <2>1, <2>3, <2>5
  <2> QED BY <2>4, <2>5
<1> QED BY <1>8, <1>9

\* In every behaviour, for any set of active aircraft and any errors in the parity, a surveillance reply is credited
\* to the aircraft its parity shows.
THEOREM RepliesAttributedHolds == Spec => []RepliesAttributed
BY LinkInvHolds, RepliesFollow, PTL

\* ---------------------------------------------------------------- what is repaired

LEMMA SyndromeTables ==
  ASSUME NEW n \in {7, 14}
  PROVE  DOMAIN Syndromes(n) = 0..8 * n - 1 /\ \A i \in 0..8 * n - 1 : Syndromes(n)[i] = crc24({i}, n)
BY DEF Syndromes, SYNDROME_SHORT, SYNDROME_LONG, SHORT_FRAME_BYTES, LONG_FRAME_BYTES

\* Every syndrome of one bit is in the table, at the first position that has it.
LEMMA OneBitFound ==
  ASSUME NEW n \in {7, 14}, NEW i \in 0..8 * n - 1
  PROVE  \E j \in 0..8 * n - 1 : SingleBit(Syndromes(n)[i], n) = {j} /\ Syndromes(n)[j] = Syndromes(n)[i]
<1> DEFINE table == Syndromes(n)
           same == {j \in 0..8 * n - 1 : table[j] = table[i]}
<1>1. DOMAIN table = 0..8 * n - 1
  BY SyndromeTables
<1>2. First(n) = FirstWith(table)
  BY DEF First, FIRST_SHORT, FIRST_LONG, Syndromes, SHORT_FRAME_BYTES, LONG_FRAME_BYTES
<1> HIDE DEF table
<1>3. \E j \in DOMAIN table : table[j] = table[i] /\ \A k \in DOMAIN table : table[k] = table[i] => j <= k
  <2>1. same \subseteq Nat /\ same # {}
    OBVIOUS
  <2> HIDE DEF same
  <2>2. PICK j \in same : \A k \in same : j <= k
    BY <2>1, LeastNatural
  <2> QED BY <1>1, <2>2 DEF same
<1> DEFINE first == CHOOSE j \in DOMAIN table : table[j] = table[i] /\ \A k \in DOMAIN table : table[k] = table[i] => j <= k
<1>4. first \in DOMAIN table /\ table[first] = table[i]
  BY <1>3
<1>5. table[i] \in DOMAIN First(n) /\ First(n)[table[i]] = first
  <2>1. table[i] \in {table[k] : k \in DOMAIN table}
    BY <1>1
  <2> HIDE DEF first
  <2> QED BY <1>2, <2>1 DEF FirstWith, first
<1> HIDE DEF first
<1>6. SingleBit(table[i], n) = {first}
  BY <1>5 DEF SingleBit
<1> QED BY <1>1, <1>4, <1>6 DEF table

\* The syndrome of two bits is found as that of a pair, whether or not other pairs share it.
LEMMA PairFound ==
  ASSUME NEW n \in {7, 14}, NEW p \in 0..8 * n - 1, NEW q \in 0..8 * n - 1,
         NEW s, s = Xor(Syndromes(n)[p], Syndromes(n)[q]), s # {}
  PROVE  TwoBits(s, n) # {}
<1> DEFINE S == Syndromes(n)
           Second(i) == {j \in SingleBit(Xor(s, S[i]), n) : j > i}
           begins == {i \in DOMAIN S : Second(i) # {}}
<1>1. ASSUME NEW a \in 0..8 * n - 1, NEW b \in 0..8 * n - 1, s = Xor(S[a], S[b]), SingleBit(S[b], n) = {b}, a < b
      PROVE  begins # {}
  <2>1. Xor(s, S[a]) = S[b]
    BY <1>1 DEF Xor
  <2>2. b \in Second(a)
    BY <1>1, <2>1
  <2>3. a \in DOMAIN S
    BY SyndromeTables
  <2> QED BY <2>2, <2>3
<1>2. PICK a \in 0..8 * n - 1 : SingleBit(S[p], n) = {a} /\ S[a] = S[p]
  BY OneBitFound
<1>3. PICK b \in 0..8 * n - 1 : SingleBit(S[q], n) = {b} /\ S[b] = S[q]
  BY OneBitFound
<1>4. s = Xor(S[a], S[b]) /\ s = Xor(S[b], S[a])
  BY <1>2, <1>3 DEF Xor
<1>5. a # b
  <2>1. ASSUME NEW x PROVE Xor(x, x) = {}
    BY DEF Xor
  <2> QED BY <1>4, <2>1
<1>6. SingleBit(S[a], n) = {a} /\ SingleBit(S[b], n) = {b}
  BY <1>2, <1>3
<1>7. begins # {}
  <2> HIDE DEF begins, S
  <2>1. a < b \/ b < a
    BY <1>5
  <2> QED BY <1>1, <1>4, <1>6, <2>1
<1>8. TwoBits(s, n) = {CHOOSE i \in begins : \A j \in begins : i <= j} \cup Second(CHOOSE i \in begins : \A j \in begins : i <= j)
  BY <1>7 DEF TwoBits
<1> HIDE DEF Second, begins
<1> QED BY <1>8

\* check_with_depth believes a frame whose syndrome is that of as many bits as its depth.
LEMMA Repairs ==
  ASSUME NEW n \in {7, 14}, NEW bytes, NEW depth \in 0..2,
         \/ crc24(bytes, n) = {}
         \/ depth >= 1 /\ \E p \in 0..8 * n - 1 : crc24(bytes, n) = Syndromes(n)[p]
         \/ depth >= 2 /\ \E p, q \in 0..8 * n - 1 : crc24(bytes, n) = Xor(Syndromes(n)[p], Syndromes(n)[q])
  PROVE  check_with_depth(bytes, n, depth).outcome \in {"Clean", "Corrected"}
<1> DEFINE s == crc24(bytes, n)
           one == IF depth >= 1 THEN SingleBit(s, n) ELSE {}
           flips == IF one = {} /\ depth >= 2 THEN TwoBits(s, n) ELSE one
<1>1. check_with_depth(bytes, n, depth).outcome =
        CASE s = {} -> "Clean" [] s # {} /\ flips # {} -> "Corrected" [] OTHER -> "Failed"
  BY DEF check_with_depth
<1>2. s = {} \/ flips # {}
  <2>1. ASSUME depth >= 1, NEW p \in 0..8 * n - 1, s = Syndromes(n)[p] PROVE flips # {}
    <3>1. SingleBit(s, n) # {}
      <4> HIDE DEF s
      <4>1. PICK j \in 0..8 * n - 1 : SingleBit(Syndromes(n)[p], n) = {j}
        BY OneBitFound
      <4> QED BY <2>1, <4>1
    <3> QED BY <2>1, <3>1
  <2>2. ASSUME depth >= 2, NEW p \in 0..8 * n - 1, NEW q \in 0..8 * n - 1, s # {},
               s = Xor(Syndromes(n)[p], Syndromes(n)[q])
        PROVE  flips # {}
    <3>1. TwoBits(s, n) # {}
      <4> HIDE DEF s
      <4> QED BY <2>2, PairFound
    <3> QED BY <2>2, <3>1
  <2> HIDE DEF flips
  <2> QED BY <2>1, <2>2
<1> HIDE DEF s, flips
<1> QED BY <1>1, <1>2

\* Sets of at most two members.
LEMMA FewMembers ==
  ASSUME NEW T, IsFiniteSet(T), Cardinality(T) <= 2
  PROVE  \/ T = {} /\ Cardinality(T) = 0
         \/ Cardinality(T) = 1 /\ \E p \in T : T = {p}
         \/ Cardinality(T) = 2 /\ \E p, q \in T : T = Xor({p}, {q})
<1>1. Cardinality(T) \in Nat
  BY FS_CardinalityType
<1>2. ASSUME NEW U, IsFiniteSet(U), Cardinality(U) = 1 PROVE \E p \in U : U = {p}
  BY <1>2, FS_Singleton
<1>3. CASE Cardinality(T) = 0
  BY <1>3, FS_EmptySet
<1>4. CASE Cardinality(T) = 1
  BY <1>2, <1>4
<1>5. CASE Cardinality(T) = 2
  <2>1. PICK p \in T : TRUE
    BY <1>5, FS_EmptySet
  <2>2. IsFiniteSet(T \ {p}) /\ Cardinality(T \ {p}) = 1
    BY <1>5, FS_RemoveElement
  <2>3. PICK q \in T \ {p} : T \ {p} = {q}
    BY <1>2, <2>2
  <2>4. T = Xor({p}, {q})
    BY <2>3 DEF Xor
  <2> QED BY <1>5, <2>3, <2>4
<1>6. Cardinality(T) \in {0, 1, 2}
  BY <1>1
<1> QED
  <2> HIDE DEF Xor
  <2> QED BY <1>3, <1>4, <1>5, <1>6, Zenon

\* The syndrome of a frame with these errors under an overlay of one or two bits, over the length of a frame.
LEMMA ErrorSyndromes ==
  ASSUME NEW n \in {7, 14}, NEW e \in SUBSET (0..8 * n - 1)
  PROVE  /\ e = {} => crc24(e, n) = {}
         /\ \A p \in e : e = {p} => crc24(e, n) = Syndromes(n)[p]
         /\ \A p, q \in e : e = Xor({p}, {q}) => crc24(e, n) = Xor(Syndromes(n)[p], Syndromes(n)[q])
<1> DEFINE L == 8 * n - 1
<1>1. n \in Nat /\ \A p \in e : Syndromes(n)[p] = crc24({p}, n)
  <2>1. n \in Nat
    OBVIOUS
  <2>2. \A p \in 0..L : Syndromes(n)[p] = crc24({p}, n)
    BY SyndromeTables
  <2>3. e \subseteq 0..L
    OBVIOUS
  <2> HIDE DEF L
  <2> QED BY <2>1, <2>2, <2>3
<1>2. \A p, q : crc24(Xor({p}, {q}), n) = Xor(crc24({p}, n), crc24({q}, n))
  BY <1>1, CrcLinear
<1>3. crc24({}, n) = {}
  BY <1>1, CrcOfNothing
<1>4. ASSUME NEW p \in e, e = {p} PROVE crc24(e, n) = Syndromes(n)[p]
  BY <1>1, <1>4
<1>5. ASSUME NEW p \in e, NEW q \in e, e = Xor({p}, {q}) PROVE crc24(e, n) = Xor(Syndromes(n)[p], Syndromes(n)[q])
  <2>1. crc24(e, n) = crc24(Xor({p}, {q}), n)
    BY <1>5
  <2>2. crc24(Xor({p}, {q}), n) = Xor(crc24({p}, n), crc24({q}, n))
    BY <1>2
  <2>3. crc24({p}, n) = Syndromes(n)[p] /\ crc24({q}, n) = Syndromes(n)[q]
    BY <1>1
  <2> QED BY <2>1, <2>2, <2>3
<1> QED BY <1>3, <1>4, <1>5

\* An overlay is an error pattern in the parity.
LEMMA OverlaySyndromes ==
  ASSUME NEW n \in {7, 14}, NEW overlay \in SUBSET (0..23)
  PROVE  /\ overlay = {} => CrcOfAddress(overlay) = {}
         /\ \A j \in overlay : overlay = {j} => CrcOfAddress(overlay) = Syndromes(n)[8 * n - 1 - j]
         /\ \A j, k \in overlay : overlay = Xor({j}, {k}) =>
              CrcOfAddress(overlay) = Xor(Syndromes(n)[8 * n - 1 - j], Syndromes(n)[8 * n - 1 - k])
<1>1. ASSUME NEW j \in 0..23 PROVE {j} \in Word /\ CrcOfAddress({j}) = Syndromes(n)[8 * n - 1 - j]
  <2>1. PICK m \in {4, 11} : n = m + 3
    OBVIOUS
  <2> DEFINE p == 8 * m + 23 - j
  <2>2. {p} \in SUBSET (8 * m..8 * m + 23) /\ m \in Nat /\ {8 * m + 23 - x : x \in {p}} = {j}
        /\ p = 8 * n - 1 - j /\ p \in 0..8 * n - 1
    BY <2>1
  <2> HIDE DEF p
  <2>3. {j} \in Word /\ crc24({p}, m + 3) = CrcOfAddress({j})
    BY <2>2, ParityErrors
  <2>4. Syndromes(n)[p] = crc24({p}, n)
    BY <2>2, SyndromeTables
  <2> QED BY <2>1, <2>2, <2>3, <2>4
<1>2. CrcOfAddress({}) = {}
  BY CrcOfNothing
<1>3. ASSUME NEW j \in overlay, NEW k \in overlay, overlay = Xor({j}, {k})
      PROVE  CrcOfAddress(overlay) = Xor(Syndromes(n)[8 * n - 1 - j], Syndromes(n)[8 * n - 1 - k])
  <2>1. {j} \in Word /\ {k} \in Word
    BY <1>1
  <2>2. CrcOfAddress(Xor({j}, {k})) = Xor(CrcOfAddress({j}), CrcOfAddress({k}))
    BY <2>1, AddressesAdd
  <2> QED BY <1>1, <1>3, <2>2
<1> QED BY <1>1, <1>2, <1>3

\* Errors and overlay together: as many bits as Distance counts, or fewer when one undoes the other.
LEMMA DistanceSyndrome ==
  ASSUME NEW n \in {7, 14}, NEW e \in SUBSET (0..8 * n - 1), NEW overlay \in SUBSET (0..23),
         Cardinality(e) + Cardinality(overlay) <= 2
  PROVE  LET s == Xor(CrcOfAddress(overlay), crc24(e, n))
             d == Cardinality(e) + Cardinality(overlay)
         IN  \/ s = {}
             \/ d >= 1 /\ \E p \in 0..8 * n - 1 : s = Syndromes(n)[p]
             \/ d >= 2 /\ \E p, q \in 0..8 * n - 1 : s = Xor(Syndromes(n)[p], Syndromes(n)[q])
<1> DEFINE s == Xor(CrcOfAddress(overlay), crc24(e, n))
           a == Cardinality(overlay)
           b == Cardinality(e)
           S == Syndromes(n)
           One(x) == \E p \in 0..8 * n - 1 : x = S[p]
           Two(x) == \E p, q \in 0..8 * n - 1 : x = Xor(S[p], S[q])
<1>1. IsFiniteSet(e) /\ IsFiniteSet(overlay) /\ a \in Nat /\ b \in Nat
  <2>1. 0 \in Int /\ 8 * n - 1 \in Int /\ 23 \in Int
    OBVIOUS
  <2>2. IsFiniteSet(0..8 * n - 1) /\ IsFiniteSet(0..23)
    BY <2>1, FS_Interval
  <2>3. IsFiniteSet(e) /\ IsFiniteSet(overlay)
    BY <2>2, FS_Subset
  <2> QED BY <2>3, FS_CardinalityType
<1>2. a <= 2 /\ b <= 2 /\ a + b <= 2
  BY <1>1
<1>3. \/ b = 0 /\ crc24(e, n) = {}
      \/ b = 1 /\ One(crc24(e, n))
      \/ b = 2 /\ Two(crc24(e, n))
  <2>1. \/ e = {} /\ b = 0
        \/ b = 1 /\ \E p \in e : e = {p}
        \/ b = 2 /\ \E p, q \in e : e = Xor({p}, {q})
    BY <1>1, <1>2, FewMembers
  <2>2. /\ e = {} => crc24(e, n) = {}
        /\ \A p \in e : e = {p} => crc24(e, n) = S[p]
        /\ \A p, q \in e : e = Xor({p}, {q}) => crc24(e, n) = Xor(S[p], S[q])
    BY ErrorSyndromes
  <2>3. e \subseteq 0..8 * n - 1
    OBVIOUS
  <2> HIDE DEF S, b
  <2>4. ASSUME b = 1, NEW p \in e, e = {p} PROVE One(crc24(e, n))
    BY <2>2, <2>3, <2>4
  <2>5. ASSUME b = 2, NEW p \in e, NEW q \in e, e = Xor({p}, {q}) PROVE Two(crc24(e, n))
    <3>1. crc24(e, n) = Xor(S[p], S[q])
      BY <2>2, <2>5
    <3> QED BY <2>3, <3>1
  <2> HIDE DEF One, Two
  <2> QED BY <2>1, <2>2, <2>4, <2>5
<1>4. \/ a = 0 /\ CrcOfAddress(overlay) = {}
      \/ a = 1 /\ One(CrcOfAddress(overlay))
      \/ a = 2 /\ Two(CrcOfAddress(overlay))
  <2>1. \/ overlay = {} /\ a = 0
        \/ a = 1 /\ \E j \in overlay : overlay = {j}
        \/ a = 2 /\ \E j, k \in overlay : overlay = Xor({j}, {k})
    BY <1>1, <1>2, FewMembers
  <2>2. /\ overlay = {} => CrcOfAddress(overlay) = {}
        /\ \A j \in overlay : overlay = {j} => CrcOfAddress(overlay) = S[8 * n - 1 - j]
        /\ \A j, k \in overlay : overlay = Xor({j}, {k}) =>
             CrcOfAddress(overlay) = Xor(S[8 * n - 1 - j], S[8 * n - 1 - k])
    BY OverlaySyndromes
  <2>3. \A j \in overlay : 8 * n - 1 - j \in 0..8 * n - 1
    OBVIOUS
  <2> HIDE DEF S, a
  <2>4. ASSUME a = 1, NEW j \in overlay, overlay = {j} PROVE One(CrcOfAddress(overlay))
    <3>1. CrcOfAddress(overlay) = S[8 * n - 1 - j]
      BY <2>2, <2>4
    <3> QED BY <2>3, <3>1
  <2>5. ASSUME a = 2, NEW j \in overlay, NEW k \in overlay, overlay = Xor({j}, {k}) PROVE Two(CrcOfAddress(overlay))
    <3>1. CrcOfAddress(overlay) = Xor(S[8 * n - 1 - j], S[8 * n - 1 - k])
      BY <2>2, <2>5
    <3> QED BY <2>3, <3>1
  <2> HIDE DEF One, Two
  <2> QED BY <2>1, <2>2, <2>4, <2>5
<1>5. ASSUME NEW x, NEW y
      PROVE  /\ x = {} => Xor(x, y) = y
             /\ y = {} => Xor(x, y) = x
             /\ One(x) /\ One(y) => Two(Xor(x, y))
  <2> HIDE DEF S
  <2> QED BY XorParts
<1>6. \/ (a = 0 /\ b = 0) \/ (a = 0 /\ b = 1) \/ (a = 0 /\ b = 2)
      \/ (a = 1 /\ b = 0) \/ (a = 1 /\ b = 1) \/ (a = 2 /\ b = 0)
  BY <1>1, <1>2
<1>7. s = {} \/ (b + a >= 1 /\ One(s)) \/ (b + a >= 2 /\ Two(s))
  <2> HIDE DEF One, Two, a, b
  <2>1. ASSUME a = 0 /\ b = 0 PROVE s = {} BY <1>3, <1>4, <1>5, <2>1
  <2>2. ASSUME a = 0 /\ b = 1 PROVE One(s) BY <1>3, <1>4, <1>5, <2>2
  <2>3. ASSUME a = 0 /\ b = 2 PROVE Two(s) BY <1>3, <1>4, <1>5, <2>3
  <2>4. ASSUME a = 1 /\ b = 0 PROVE One(s) BY <1>3, <1>4, <1>5, <2>4
  <2>5. ASSUME a = 1 /\ b = 1 PROVE Two(s) BY <1>3, <1>4, <1>5, <2>5
  <2>6. ASSUME a = 2 /\ b = 0 PROVE Two(s) BY <1>3, <1>4, <1>5, <2>6
  <2> HIDE DEF s
  <2> QED BY <1>6, <2>1, <2>2, <2>3, <2>4, <2>5, <2>6
<1> QED BY <1>7

LEMMA RepairsFollow == LinkInv => ErrorsUndone
<1> SUFFICES ASSUME LinkInv, IsHeard, sent.df \in CleanCrc, heard.df = sent.df, Distance <= heard.depth
             PROVE  Believed
  BY DEF ErrorsUndone
<1>1. sent # Nothing /\ sent \in Squitters \cup AllCalls \cup Surveillance /\ errors \subseteq 0..Length - 1
  BY DEF LinkInv, IsHeard
<1>2. PICK depth \in Depths : \E tail \in Tails : heard = Received(depth, tail)
  BY DEF LinkInv, IsHeard
<1>3. PICK tail \in Tails : heard = Received(depth, tail)
  BY <1>2
<1>4. DownlinkFormat(bits) = sent.df /\ heard.depth = depth
  BY <1>3 DEF Received
<1>5. /\ Sliced(tail) = bits
      /\ crc24(bits, FrameBytes(sent.df)) = Xor(CrcOfAddress(sent.overlay), crc24(errors, FrameBytes(sent.df)))
  BY <1>1, <1>4, ReadWhole
<1>6. PICK n \in {7, 14} : FrameBytes(sent.df) = n
  BY FrameLengths
<1>7. depth \in 0..2 /\ errors \in SUBSET (0..8 * n - 1) /\ sent.overlay \in SUBSET (0..23)
  <2>1. sent.overlay \in Word
    BY <1>1, SentFrames
  <2> QED BY <1>1, <1>6, <2>1, LinkAssumption DEF Length, Word
<1> DEFINE s == crc24(bits, n)
           d == Cardinality(errors) + Cardinality(sent.overlay)
<1>8. d <= depth /\ d \in Int
  <2>1. IsFiniteSet(errors) /\ IsFiniteSet(sent.overlay)
    <3>1. 0 \in Int /\ 8 * n - 1 \in Int /\ 23 \in Int
      OBVIOUS
    <3>2. IsFiniteSet(0..8 * n - 1) /\ IsFiniteSet(0..23)
      BY <3>1, FS_Interval
    <3> QED BY <1>7, <3>2, FS_Subset
  <2>2. Cardinality(errors) \in Nat /\ Cardinality(sent.overlay) \in Nat
    BY <2>1, FS_CardinalityType
  <2> QED BY <1>4, <2>2 DEF Distance
<1>9. \/ s = {}
      \/ d >= 1 /\ \E p \in 0..8 * n - 1 : s = Syndromes(n)[p]
      \/ d >= 2 /\ \E p, q \in 0..8 * n - 1 : s = Xor(Syndromes(n)[p], Syndromes(n)[q])
  <2>1. s = Xor(CrcOfAddress(sent.overlay), crc24(errors, n))
    BY <1>5, <1>6
  <2>2. d <= 2
    BY <1>7, <1>8
  <2> HIDE DEF s
  <2> QED BY <1>7, <2>1, <2>2, DistanceSyndrome
<1>10. check_with_depth(bits, n, depth).outcome \in {"Clean", "Corrected"}
  <2> HIDE DEF d
  <2>1. \/ s = {}
        \/ depth >= 1 /\ \E p \in 0..8 * n - 1 : s = Syndromes(n)[p]
        \/ depth >= 2 /\ \E p, q \in 0..8 * n - 1 : s = Xor(Syndromes(n)[p], Syndromes(n)[q])
    BY <1>7, <1>8, <1>9
  <2> QED BY <1>7, <2>1, Repairs
<1>11. heard.outcome = check_with_depth(bits, n, depth).outcome
  <2>1. ~Reserved(sent.df)
    BY DEF Reserved
  <2>2. Checked(bits, sent.df, depth) = check_with_depth(bits, n, depth)
    BY <1>6 DEF Checked
  <2> QED BY <1>3, <1>4, <1>5, <2>1, <2>2 DEF Received
<1> QED BY <1>10, <1>11 DEF Believed

\* In every behaviour a squitter or an all-call reply whose format was read is believed again after as many flipped
\* bits as the correction depth, an interrogator's code among them.
THEOREM ErrorsUndoneHolds == Spec => []ErrorsUndone
BY LinkInvHolds, RepairsFollow, PTL

\* In every state of the link the table-driven checksum of the frame is the bitwise one.
THEOREM TableIsBitwiseHolds == Spec => []TableIsBitwise
<1>1. TableIsBitwise BY ChecksumsAgree DEF TableIsBitwise
<1> QED BY <1>1, PTL

=============================================================================
