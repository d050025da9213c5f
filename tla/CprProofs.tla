----------------------------- MODULE CprProofs -----------------------------
(***************************************************************************)
(* What Cpr says of every place on the grid: two reports of one aircraft   *)
(* decode to the point of the later one, or are refused at a transition,   *)
(* and so does one with a receiver that is near.                           *)
(***************************************************************************)
EXTENDS Cpr, FiniteSetTheorems, TLAPS

------------------------------------------------------------------------------
(* Division *)

LEMMA Fractions == Frac \in Nat \ {0} /\ Frac \div 2 \in Nat /\ Frac = 2 * (Frac \div 2)
BY SMT DEF Frac

\* A multiple of z that is less than z away from zero is zero.
LEMMA SmallMultiple ==
  ASSUME NEW z \in Nat, NEW d \in Int, -z < z * d, z * d < z
  PROVE  d = 0
<1>1. CASE d >= 1
  <2>1. z * d = z * (d - 1) + z
    OBVIOUS
  <2>2. z * (d - 1) >= 0
    BY <1>1
  <2> QED BY <2>1, <2>2
<1>2. CASE d <= -1
  <2>1. z * d = z * (d + 1) - z
    OBVIOUS
  <2>2. z * (d + 1) <= 0
    BY <1>2
  <2> QED BY <2>1, <2>2
<1> QED BY <1>1, <1>2

\* Remainders are unique.
LEMMA RemainderOf ==
  ASSUME NEW z \in Nat \ {0}, NEW a \in 0..z - 1, NEW t \in Int
  PROVE  (a + z * t) % z = a
<1> DEFINE x == a + z * t
<1>1. x \in Int /\ x \div z \in Int /\ x % z \in 0..z - 1
  OBVIOUS
<1>2. x = z * (x \div z) + (x % z)
  OBVIOUS
<1>3. z * ((x \div z) - t) = a - (x % z)
  BY <1>1, <1>2
<1>4. (x \div z) - t = 0
  BY <1>1, <1>3, SmallMultiple
<1> QED BY <1>1, <1>3, <1>4

\* The remainder by a number of zones, of a point of the lattice: its zone's, and its place in the zone.
LEMMA ZoneOfPoint ==
  ASSUME NEW n \in Int, NEW z \in Nat \ {0}
  PROVE  n % (Frac * z) = Frac * ((n \div Frac) % z) + (n % Frac)
<1> USE Fractions
<1> DEFINE q == n \div Frac
           a == Frac * (q % z) + (n % Frac)
<1>1. q \in Int /\ n % Frac \in 0..Frac - 1 /\ n = Frac * q + (n % Frac)
  OBVIOUS
<1>2. q % z \in 0..z - 1 /\ q \div z \in Int /\ q = z * (q \div z) + (q % z)
  BY <1>1
<1>3. a \in 0..Frac * z - 1
  <2>1. Frac * (q % z) \in 0..Frac * (z - 1)
    BY <1>2
  <2>2. Frac * (z - 1) + Frac = Frac * z
    OBVIOUS
  <2> QED BY <1>1, <2>1, <2>2
<1>4. n = a + (Frac * z) * (q \div z)
  <2>1. Frac * q = Frac * (z * (q \div z)) + Frac * (q % z)
    BY <1>2
  <2>2. Frac * (z * (q \div z)) = (Frac * z) * (q \div z)
    BY <1>2
  <2> QED BY <1>1, <2>1, <2>2
<1>5. Frac * z \in Nat \ {0}
  OBVIOUS
<1> HIDE DEF q, a
<1>6. (a + (Frac * z) * (q \div z)) % (Frac * z) = a
  BY <1>2, <1>3, <1>5, RemainderOf
<1> QED BY <1>4, <1>6 DEF a, q

\* A number and its remainder differ by a multiple.
LEMMA SameModulo ==
  ASSUME NEW n \in Int, NEW z \in Nat \ {0}
  PROVE  /\ ((n % z) - n) % z = 0
         /\ ((n % z) - z - n) % z = 0
<1>1. n \div z \in Int /\ n % z \in Int /\ n = z * (n \div z) + (n % z)
  OBVIOUS
<1>2. /\ (n % z) - n = 0 + z * (-(n \div z))
      /\ (n % z) - z - n = 0 + z * (-(n \div z) - 1)
  BY <1>1
<1>3. 0 \in 0..z - 1 /\ -(n \div z) \in Int /\ -(n \div z) - 1 \in Int
  BY <1>1
<1>4. (0 + z * (-(n \div z))) % z = 0 /\ (0 + z * (-(n \div z) - 1)) % z = 0
  BY <1>3, RemainderOf
<1> QED BY <1>2, <1>4

------------------------------------------------------------------------------
(* Two lattices that differ by one zone *)

\* What the code's rounding makes of a difference that is nearly a whole number.
LEMMA ZoneOf ==
  ASSUME NEW a \in Int, NEW b \in Int, NEW k \in Int, NEW d \in Int,
         a - b = Frac * k + d, -(Frac \div 2) <= d, d < Frac \div 2
  PROVE  Zone(a, b) = k
BY SMT DEF Zone, Frac

\* The same remainder after a multiple is added.
LEMMA AddMultiple ==
  ASSUME NEW z \in Nat \ {0}, NEW q \in Int, NEW t \in Int
  PROVE  (q + z * t) % z = q % z
<1>1. PICK p \in Int, r \in 0..z - 1 : q = z * p + r /\ r = q % z
  OBVIOUS
<1>2. PICK u \in Int : u = p + t
  OBVIOUS
<1>3. (r + z * u) % z = r
  BY RemainderOf
<1>4. q + z * t = r + z * u
  BY <1>1, <1>2
<1> QED BY <1>1, <1>3, <1>4

\* The fractions of two points, of lattices of z + 1 and of z zones, give away their zones.
Recovered(z, n0, n1) ==
  LET j == Zone(z * (n0 % Frac), (z + 1) * (n1 % Frac))
  IN  /\ Frac * (j % (z + 1)) + (n0 % Frac) = n0 % (Frac * (z + 1))
      /\ Frac * (j % z) + (n1 % Frac) = n1 % (Frac * z)

\* Points of the two lattices that are less than half a step of the vernier apart, up to w turns of the
\* globe, give away both zones.
LEMMA Vernier ==
  ASSUME NEW z \in Nat \ {0}, NEW n0 \in Int, NEW n1 \in Int, NEW w \in Int, NEW d \in Int,
         (z + 1) * (n1 - Frac * (z * w)) = z * n0 - d, -(Frac \div 2) <= d, d < Frac \div 2
  PROVE  Recovered(z, n0, n1)
<1>1. PICK f \in Nat \ {0} : f = Frac
  BY Fractions
<1>2. PICK q0 \in Int, f0 \in 0..f - 1 : n0 = f * q0 + f0 /\ q0 = n0 \div f /\ f0 = n0 % f
  OBVIOUS
<1>3. PICK q1 \in Int, f1 \in 0..f - 1 : n1 = f * q1 + f1 /\ q1 = n1 \div f /\ f1 = n1 % f
  OBVIOUS
<1>4. PICK k \in Int : k = (z + 1) * q1 - z * q0 - z * ((z + 1) * w)
  OBVIOUS
<1> DEFINE j == Zone(z * f0, (z + 1) * f1)
<1>5. /\ z * f0 - (z + 1) * f1 = f * k + d
      /\ k = q0 + (z + 1) * (q1 - q0 - z * w)
      /\ k = q1 + z * (q1 - q0 - (z + 1) * w)
  <2>1. (z + 1) * (n1 - f * (z * w)) = z * n0 - d
    BY <1>1
  <2>2. (z + 1) * (f * q1 + f1 - f * (z * w)) = z * (f * q0 + f0) - d
    BY <1>2, <1>3, <2>1
  <2> QED BY <1>4, <2>2
<1>6. j = k
  <2>1. z * f0 \in Int /\ (z + 1) * f1 \in Int
    OBVIOUS
  <2>2. ASSUME NEW a \in Int, NEW b \in Int, a - b = f * k + d PROVE Zone(a, b) = k
    BY <1>1, <2>2, ZoneOf
  <2> QED BY <1>5, <2>1, <2>2, Zenon
<1> HIDE DEF j
<1>7. PICK y \in Nat \ {0} : y = z + 1
  OBVIOUS
<1>8. j % y = q0 % y
  <2>1. PICK u \in Int : u = q1 - q0 - z * w
    OBVIOUS
  <2>2. (q0 + y * u) % y = q0 % y
    BY AddMultiple
  <2> QED BY <1>7, <1>5, <1>6, <2>1, <2>2
<1>9. j % z = q1 % z
  <2>1. PICK u \in Int : u = q1 - q0 - (z + 1) * w
    OBVIOUS
  <2>2. (q1 + z * u) % z = q1 % z
    BY AddMultiple
  <2> QED BY <1>5, <1>6, <2>1, <2>2
<1>10. /\ n0 % (Frac * y) = Frac * ((n0 \div Frac) % y) + (n0 % Frac)
      /\ n1 % (Frac * z) = Frac * ((n1 \div Frac) % z) + (n1 % Frac)
  BY ZoneOfPoint
<1>11. /\ Frac * (j % y) + (n0 % Frac) = n0 % (Frac * y)
      /\ Frac * (j % z) + (n1 % Frac) = n1 % (Frac * z)
  BY <1>1, <1>2, <1>3, <1>8, <1>9, <1>10
<1> QED BY <1>1, <1>2, <1>3, <1>7, <1>11 DEF j, Recovered

------------------------------------------------------------------------------
(* Two reports of one aircraft *)

LEMMA ZonesOfLongitude == ASSUME NEW lat PROVE nl(lat) \in 1..59
<1> DEFINE passed == {i \in 1..58 : Abs(lat) < NL_TRANSITIONS[i]}
<1>1. PICK last \in Int : last = 58
  OBVIOUS
<1>2. IsFiniteSet(1..last) /\ Cardinality(1..last) = IF 1 > last THEN 0 ELSE last - 1 + 1
  BY FS_Interval
<1>3. passed \in SUBSET (1..last)
  BY <1>1
<1> HIDE DEF passed
<1>4. IsFiniteSet(passed) /\ Cardinality(passed) <= Cardinality(1..last)
  BY <1>2, <1>3, FS_Subset
<1>5. Cardinality(passed) \in Nat
  BY <1>4, FS_CardinalityType
<1>6. Cardinality(passed) <= 58
  BY <1>1, <1>2, <1>4, <1>5
<1>7. nl(lat) = 1 + Cardinality(passed)
  BY DEF nl, passed
<1> QED BY <1>5, <1>6, <1>7

\* A point is off its place by half a step at most.
Rounded(n, k, zones) ==
  n \in Int /\ \E r \in Int : 0 <= r /\ r <= 449 /\ 450 * n = 4096 * (k * zones) + 225 - r

\* The transponder rounds.
LEMMA NearestPoint ==
  ASSUME NEW k \in Int, NEW zones \in Int, NEW n, n = Nearest(k, zones)
  PROVE  Rounded(n, k, zones)
<1>1. PICK x \in Int : x = k * zones
  OBVIOUS
<1>2. PICK g \in Nat \ {0}, f \in Int : g = Grid /\ f = Frac
  BY SMT DEF Grid, Frac
<1>3. 450 * f = 4096 * g
  BY SMT, <1>2 DEF Grid, Frac
<1>4. PICK q, b, e \in Int : q = x \div g /\ b = x % g /\ e = 4096 * b + 225
  OBVIOUS
<1>5. x = g * q + b
  BY <1>4
<1>6. PICK c \in Int : c = e \div 450
  OBVIOUS
<1>7. PICK r \in Int : 0 <= r /\ r <= 449 /\ e = 450 * c + r
  <2>1. e - 450 * c >= 0 /\ e - 450 * c <= 449
    BY <1>6
  <2> QED BY <2>1
<1>8. PICK y \in Int : y = f * q + c
  OBVIOUS
<1>9. 450 * y = 4096 * x + 225 - r
  <2>1. 450 * y = (450 * f) * q + 450 * c
    BY <1>8
  <2>2. (450 * f) * q = 4096 * (g * q)
    BY <1>3
  <2> QED BY <1>4, <1>5, <1>7, <2>1, <2>2
<1>10. n = y
  <2>1. n = Frac * (x \div Grid) + (4096 * (x % Grid) + 225) \div 450
    BY <1>1 DEF Nearest
  <2>2. n = f * (x \div g) + (4096 * (x % g) + 225) \div 450
    BY <1>2, <2>1
  <2>3. n = f * q + e \div 450
    BY <1>4, <2>2
  <2> QED BY <1>6, <1>8, <2>3
<1> QED BY <1>1, <1>7, <1>9, <1>10 DEF Rounded

\* Two places that are two steps of the grid apart at most, up to turns of the globe.
TwoSteps(k0, k1) == \E w \in Int : k1 - k0 - Grid * w \in -2..2

\* Reports of two longitudes, or latitudes, that are two steps of the grid apart at most give away their zones.
LEMMA TwoReports ==
  ASSUME NEW z \in Nat \ {0}, z <= 59, NEW k0 \in Int, NEW k1 \in Int, TwoSteps(k0, k1),
         NEW n0 \in Int, NEW n1 \in Int, Rounded(n0, k0, z + 1), Rounded(n1, k1, z)
  PROVE  Recovered(z, n0, n1)
<1>1. PICK w \in Int : k1 - k0 - Grid * w \in -2..2
  BY DEF TwoSteps
<1>2. Grid \in Int
  BY SMT DEF Grid
<1>3. PICK s \in Int : s = k1 - k0 - Grid * w
  BY <1>2
<1>4. -2 <= s /\ s <= 2 /\ k1 = k0 + s + Grid * w
  BY <1>2, <1>1, <1>3
<1> USE DEF Rounded
<1>5. PICK y \in Nat : y = z + 1
  OBVIOUS
<1>6. PICK r0 \in Int : 0 <= r0 /\ r0 <= 449 /\ 450 * n0 = 4096 * (k0 * y) + 225 - r0
  BY <1>5
<1>7. PICK r1 \in Int : 0 <= r1 /\ r1 <= 449 /\ 450 * n1 = 4096 * (k1 * z) + 225 - r1
  OBVIOUS
<1> HIDE DEF Rounded
<1>8. PICK f, g, h \in Int : f = Frac /\ g = Grid /\ h = Frac \div 2 /\ 450 * f = 4096 * g /\ h = 65536
  BY SMT DEF Frac, Grid
<1>9. PICK d \in Int : d = z * n0 - y * (n1 - f * (z * w))
  OBVIOUS
<1>10. 450 * d = y * r1 - z * r0 - 225 - 4096 * (z * y * s)
  <2>1. PICK a0, a1, v \in Int : a0 = 450 * n0 /\ a1 = 450 * n1 /\ v = z * w
    OBVIOUS
  <2>2. 450 * d = z * a0 - y * (a1 - (450 * f) * v)
    BY <1>9, <2>1
  <2>3. 450 * d = z * (4096 * (k0 * y) + 225 - r0) - y * (4096 * (k1 * z) + 225 - r1 - (4096 * g) * (z * w))
    BY <1>6, <1>7, <1>8, <2>1, <2>2
  <2>4. k1 - g * w = k0 + s
    BY <1>4, <1>8
  <2>5. 4096 * (k1 * z) - (4096 * g) * (z * w) = 4096 * (z * (k1 - g * w))
    OBVIOUS
  <2>6. 450 * d = z * (4096 * (k0 * y) + 225 - r0) - y * (4096 * (z * (k0 + s)) + 225 - r1)
    BY <2>3, <2>4, <2>5
  <2> QED BY <1>5, <2>6
<1>11. PICK t0, t1, t2 \in Int :
        /\ t0 = z * r0 /\ t1 = y * r1 /\ t2 = z * y * s
        /\ 0 <= t0 /\ t0 <= 26491 /\ 0 <= t1 /\ t1 <= 26940 /\ -7080 <= t2 /\ t2 <= 7080
  <2>1. 0 <= z * r0 /\ z * r0 <= 26491
    BY SMT, <1>6
  <2>2. 0 <= y * r1 /\ y * r1 <= 26940
    BY SMT, <1>5, <1>7
  <2>3. PICK a \in Int : a = z * y /\ 0 <= a /\ a <= 3540
    BY SMT, <1>5
  <2>4. -7080 <= a * s /\ a * s <= 7080
    BY SMT, <1>4, <2>3
  <2> QED BY SMT, <2>1, <2>2, <2>3, <2>4
<1>12. 450 * d = t1 - t0 - 225 - 4096 * t2
  BY <1>10, <1>11
<1>13. -h <= d /\ d < h
  BY SMT, <1>8, <1>11, <1>12
<1>14. (z + 1) * (n1 - Frac * (z * w)) = z * n0 - d
  BY <1>5, <1>8, <1>9
<1>15. -(Frac \div 2) <= d /\ d < Frac \div 2
  BY <1>8, <1>13
<1> QED BY <1>14, <1>15, Vernier

\* A remainder of a number that is one turn off at most.
LEMMA OneTurn ==
  ASSUME NEW z \in Nat \ {0}, NEW n \in Int, -z <= n, n < z
  PROVE  n % z = IF n < 0 THEN n + z ELSE n
<1>1. CASE n < 0
  <2>1. PICK a \in 0..z - 1 : a = n + z
    BY <1>1
  <2>2. (a + z * (-1)) % z = a
    BY RemainderOf
  <2> QED BY <1>1, <2>1, <2>2
<1>2. CASE n >= 0
  BY <1>2
<1> QED BY <1>1, <1>2

\* A latitude of the grid.
OnGlobe(k) == -3600 <= k /\ k <= 3600

\* A reported latitude is between the poles, and the receiver's turn of the globe is undone.
LEMMA EvenLatitude ==
  ASSUME NEW k \in Int, OnGlobe(k), NEW n \in Int, Rounded(n, k, 60)
  PROVE  /\ ~(Abs(236 * n) > Circle \div 4)
         /\ wrap_lat(236 * (n % (Frac * 60))) = 236 * n
<1>1. PICK r \in Int : 0 <= r /\ r <= 449 /\ 450 * n = 4096 * (k * 60) + 225 - r
  BY SMT DEF Rounded
<1>2. n + 1966080 >= 0 /\ n <= 1966080
  BY SMT, <1>1 DEF OnGlobe
<1>3. PICK z \in Nat \ {0}, c, q \in Int : z = Frac * 60 /\ c = Circle /\ q = Circle \div 4
  BY SMT DEF Frac, Circle
<1>4. z = 7864320 /\ c = 1855979520 /\ q = 463994880
  BY SMT, <1>3 DEF Frac, Circle
<1>5. n % z = IF n < 0 THEN n + z ELSE n
  BY SMT, <1>2, <1>4, OneTurn
<1>6. PICK m \in Int : m = n % z
  OBVIOUS
<1>7. PICK v \in Int : v = 236 * n
  OBVIOUS
<1>8. -q <= v /\ v <= q
  BY SMT, <1>2, <1>4, <1>7
<1>9. n < 0 => 236 * m = v + c /\ v + c >= 3 * q
  BY SMT, <1>2, <1>4, <1>5, <1>6, <1>7
<1>10. n >= 0 => 236 * m = v /\ v < 3 * q
  BY SMT, <1>2, <1>4, <1>5, <1>6, <1>7
<1>11. wrap_lat(236 * m) = v
  BY <1>3, <1>9, <1>10 DEF wrap_lat
<1>12. ~(Abs(v) > q)
  BY <1>8 DEF Abs
<1>13. n % (Frac * 60) = m
  BY SMT, <1>3, <1>6
<1>14. 236 * (n % (Frac * 60)) = 236 * m
  BY <1>13
<1> QED BY <1>3, <1>7, <1>11, <1>12, <1>14

LEMMA OddLatitude ==
  ASSUME NEW k \in Int, OnGlobe(k), NEW n \in Int, Rounded(n, k, 59)
  PROVE  /\ ~(Abs(240 * n) > Circle \div 4)
         /\ wrap_lat(240 * (n % (Frac * 59))) = 240 * n
<1>1. PICK r \in Int : 0 <= r /\ r <= 449 /\ 450 * n = 4096 * (k * 59) + 225 - r
  BY SMT DEF Rounded
<1>2. n + 1933312 >= 0 /\ n <= 1933312
  BY SMT, <1>1 DEF OnGlobe
<1>3. PICK z \in Nat \ {0}, c, q \in Int : z = Frac * 59 /\ c = Circle /\ q = Circle \div 4
  BY SMT DEF Frac, Circle
<1>4. z = 7733248 /\ c = 1855979520 /\ q = 463994880
  BY SMT, <1>3 DEF Frac, Circle
<1>5. n % z = IF n < 0 THEN n + z ELSE n
  BY SMT, <1>2, <1>4, OneTurn
<1>6. PICK m \in Int : m = n % z
  OBVIOUS
<1>7. PICK v \in Int : v = 240 * n
  OBVIOUS
<1>8. -q <= v /\ v <= q
  BY SMT, <1>2, <1>4, <1>7
<1>9. n < 0 => 240 * m = v + c /\ v + c >= 3 * q
  BY SMT, <1>2, <1>4, <1>5, <1>6, <1>7
<1>10. n >= 0 => 240 * m = v /\ v < 3 * q
  BY SMT, <1>2, <1>4, <1>5, <1>6, <1>7
<1>11. wrap_lat(240 * m) = v
  BY <1>3, <1>9, <1>10 DEF wrap_lat
<1>12. ~(Abs(v) > q)
  BY <1>8 DEF Abs
<1>13. n % (Frac * 59) = m
  BY SMT, <1>3, <1>6
<1>14. 240 * (n % (Frac * 59)) = 240 * m
  BY <1>13
<1> QED BY <1>3, <1>7, <1>11, <1>12, <1>14

\* Longitudes that are whole turns apart.
WholeTurns(m, n, zones) == (m - n) % (Frac * zones) = 0

\* wrap_lon changes a longitude by whole turns.
LEMMA WrappedLongitude ==
  ASSUME NEW n \in Int, NEW zones \in Nat \ {0}
  PROVE  (wrap_lon(n % (Frac * zones), zones) - n) % (Frac * zones) = 0
<1>1. PICK y \in Nat \ {0} : y = Frac * zones
  BY Fractions
<1>2. ((n % y) - n) % y = 0 /\ ((n % y) - y - n) % y = 0
  BY SameModulo
<1>3. wrap_lon(n % y, zones) = n % y \/ wrap_lon(n % y, zones) = (n % y) - y
  BY <1>1 DEF wrap_lon
<1> QED BY <1>1, <1>2, <1>3

\* Two reported latitudes give away their zones.
LEMMA LatitudeZones ==
  ASSUME NEW k0 \in Int, NEW k1 \in Int, TwoSteps(k0, k1),
         NEW n0 \in Int, NEW n1 \in Int, Rounded(n0, k0, 60), Rounded(n1, k1, 59)
  PROVE  Recovered(59, n0, n1)
<1>1. PICK z \in Nat \ {0} : z <= 59 /\ z = 59
  OBVIOUS
<1>2. z + 1 = 60
  BY <1>1
<1>3. Rounded(n0, k0, z + 1) /\ Rounded(n1, k1, z)
  BY <1>1, <1>2, Zenon
<1>4. Recovered(z, n0, n1)
  BY <1>1, <1>3, TwoReports, Zenon
<1> QED BY <1>1, <1>4, Zenon

\* Both latitudes, from two reports.
LEMMA Latitudes ==
  ASSUME NEW k0 \in Int, OnGlobe(k0), NEW k1 \in Int, OnGlobe(k1), TwoSteps(k0, k1),
         NEW n0 \in Int, NEW n1 \in Int, Rounded(n0, k0, 60), Rounded(n1, k1, 59)
  PROVE  LET j == Zone(59 * (n0 % Frac), 60 * (n1 % Frac))
         IN  /\ wrap_lat(236 * (Frac * (j % 60) + (n0 % Frac))) = 236 * n0
             /\ wrap_lat(240 * (Frac * (j % 59) + (n1 % Frac))) = 240 * n1
             /\ ~(Abs(236 * n0) > Circle \div 4) /\ ~(Abs(240 * n1) > Circle \div 4)
<1>1. 59 + 1 = 60
  OBVIOUS
<1>2. Recovered(59, n0, n1)
  BY LatitudeZones
<1>3. LET j == Zone(59 * (n0 % Frac), 60 * (n1 % Frac))
      IN  /\ Frac * (j % 60) + (n0 % Frac) = n0 % (Frac * 60)
          /\ Frac * (j % 59) + (n1 % Frac) = n1 % (Frac * 59)
  BY <1>1, <1>2 DEF Recovered
<1>4. /\ ~(Abs(236 * n0) > Circle \div 4)
      /\ wrap_lat(236 * (n0 % (Frac * 60))) = 236 * n0
  BY EvenLatitude
<1>5. /\ ~(Abs(240 * n1) > Circle \div 4)
      /\ wrap_lat(240 * (n1 % (Frac * 59))) = 240 * n1
  BY OddLatitude
<1> QED BY <1>3, <1>4, <1>5

\* How many zones odd reports have, where even ones have n.
OddZones(n) == IF n > 1 THEN n - 1 ELSE n

BothLongitudes(n, z, m0, m1) ==
  /\ Frac * (Zone((m0 % Frac) * z, (m1 % Frac) * n) % n) + (m0 % Frac) = m0 % (Frac * n)
  /\ Frac * (Zone((m0 % Frac) * z, (m1 % Frac) * n) % z) + (m1 % Frac) = m1 % (Frac * z)

\* Both longitudes, where the two latitudes have the same number of zones.
LEMMA Longitudes ==
  ASSUME NEW n \in Nat \ {0}, n <= 59, NEW k0 \in Int, NEW k1 \in Int, TwoSteps(k0, k1),
         NEW z \in Nat \ {0}, z = OddZones(n),
         NEW m0 \in Int, NEW m1 \in Int, Rounded(m0, k0, n), Rounded(m1, k1, z)
  PROVE  BothLongitudes(n, z, m0, m1)
<1> USE DEF BothLongitudes
<1>1. CASE n > 1
  <2>1. n = z + 1 /\ z <= 59
    BY <1>1 DEF OddZones
  <2>2. Rounded(m0, k0, z + 1) /\ Rounded(m1, k1, z)
    BY <2>1
  <2>3. Recovered(z, m0, m1)
    BY <2>1, <2>2, TwoReports
  <2>4. PICK f \in Nat \ {0} : f = Frac
    BY Fractions
  <2>5. PICK f0, f1 \in Int : f0 = m0 % f /\ f1 = m1 % f
    BY <2>4
  <2>6. f0 * z = z * f0 /\ f1 * n = n * f1
    OBVIOUS
  <2> QED BY <2>1, <2>3, <2>4, <2>5, <2>6 DEF Recovered
<1>2. CASE n = 1
  <2>1. n = 1 /\ z = 1
    BY <1>2 DEF OddZones
  <2>2. ASSUME NEW i \in Int, NEW m \in Int
        PROVE  Frac * (m % 1) + (i % Frac) = i % (Frac * 1)
    <3>1. i % (Frac * 1) = Frac * ((i \div Frac) % 1) + (i % Frac)
      BY ZoneOfPoint
    <3>2. m % 1 = 0 /\ (i \div Frac) % 1 = 0
      BY Fractions
    <3> QED BY <3>1, <3>2
  <2>3. Zone((m0 % Frac) * 1, (m1 % Frac) * 1) \in Int
    BY Fractions DEF Zone
  <2> QED BY <2>1, <2>2, <2>3
<1> QED BY <1>1, <1>2

------------------------------------------------------------------------------
(* The decoder *)

\* What the decoder makes of two reports whose latitudes it recovers.
LEMMA DecodeOf ==
  ASSUME NEW even, NEW odd, even.odd = FALSE, odd.odd = TRUE, NEW last \in BOOLEAN,
         NEW le, le = lat_e(even, odd), ~(Abs(le) > Circle \div 4),
         NEW lo, lo = lat_o(even, odd), ~(Abs(lo) > Circle \div 4)
  PROVE  LET lat == IF last THEN lo ELSE le
         IN  global_decode(even, odd, last) =
               IF nl(le) # nl(lo) THEN [error |-> "LatitudeZoneMismatch"]
               ELSE [error |-> NoValue, lat |-> lat, zones |-> LonZones(nl(lat), last),
                     lon |-> lon(even, odd, nl(lat), IF last THEN odd ELSE even)]
<1>1. CASE nl(le) # nl(lo)
  BY <1>1 DEF global_decode
<1>2. CASE nl(le) = nl(lo) /\ last
  BY <1>2 DEF global_decode
<1>3. CASE nl(le) = nl(lo) /\ ~last
  BY <1>3 DEF global_decode
<1> QED BY <1>1, <1>2, <1>3

\* The answer a is the point that was reported as r, up to whole turns of longitude.
Names(a, r) ==
  a.error = NoValue /\ a.lat = r.lat /\ a.zones = r.zones /\ WholeTurns(a.lon, r.lon, a.zones)

Near(p, q) == TwoSteps(p.lat, q.lat) /\ TwoSteps(p.lon, q.lon)

\* The decoder's latitudes are those of the reports.
LEMMA DecodedLatitudes ==
  ASSUME NEW k0 \in Int, OnGlobe(k0), NEW k1 \in Int, OnGlobe(k1), TwoSteps(k0, k1),
         NEW n0 \in Int, NEW n1 \in Int, Rounded(n0, k0, 60), Rounded(n1, k1, 59),
         NEW even, even.lat = n0 % Frac, NEW odd, odd.lat = n1 % Frac
  PROVE  /\ lat_e(even, odd) = 236 * n0 /\ ~(Abs(236 * n0) > Circle \div 4)
         /\ lat_o(even, odd) = 240 * n1 /\ ~(Abs(240 * n1) > Circle \div 4)
<1>1. Step(FALSE, 1) = 236 /\ Step(TRUE, 1) = 240
  BY DEF Step
<1>2. /\ wrap_lat(236 * (Frac * (Zone(59 * (n0 % Frac), 60 * (n1 % Frac)) % 60) + (n0 % Frac))) = 236 * n0
      /\ wrap_lat(240 * (Frac * (Zone(59 * (n0 % Frac), 60 * (n1 % Frac)) % 59) + (n1 % Frac))) = 240 * n1
      /\ ~(Abs(236 * n0) > Circle \div 4) /\ ~(Abs(240 * n1) > Circle \div 4)
  BY Latitudes
<1>3. lat_e(even, odd) = wrap_lat(236 * (Frac * (Zone(59 * (n0 % Frac), 60 * (n1 % Frac)) % 60) + (n0 % Frac)))
  BY <1>1, Zenon DEF lat_e
<1>4. lat_o(even, odd) = wrap_lat(240 * (Frac * (Zone(59 * (n0 % Frac), 60 * (n1 % Frac)) % 59) + (n1 % Frac)))
  BY <1>1, Zenon DEF lat_o
<1> QED BY <1>2, <1>3, <1>4

\* Messages with the longitude m.
EvenMsg(msg, m) == msg.odd = FALSE /\ msg.lon = m % Frac
OddMsg(msg, m) == msg.odd = TRUE /\ msg.lon = m % Frac

\* Its longitude is that of the report, up to whole turns.
LEMMA DecodedLongitude ==
  ASSUME NEW n \in Nat \ {0}, n <= 59, NEW k0 \in Int, NEW k1 \in Int, TwoSteps(k0, k1),
         NEW z \in Nat \ {0}, z = OddZones(n),
         NEW m0 \in Int, NEW m1 \in Int, Rounded(m0, k0, n), Rounded(m1, k1, z),
         NEW even, EvenMsg(even, m0), NEW odd, OddMsg(odd, m1)
  PROVE  WholeTurns(lon(even, odd, n, even), m0, n) /\ WholeTurns(lon(even, odd, n, odd), m1, z)
<1>1. LonZones(n, FALSE) = n /\ LonZones(n, TRUE) = z
  BY DEF LonZones, OddZones
<1>2. BothLongitudes(n, z, m0, m1)
  BY Longitudes, Zenon
<1>3. lon(even, odd, n, even) = wrap_lon(m0 % (Frac * n), n) /\ lon(even, odd, n, odd) = wrap_lon(m1 % (Frac * z), z)
  BY <1>1, <1>2, Zenon DEF lon, BothLongitudes, EvenMsg, OddMsg
<1> QED BY <1>3, WrappedLongitude DEF WholeTurns

\* The decoder's answer, where it recovers both latitudes and, of equal zones, both longitudes.
LEMMA DecodedPair ==
  ASSUME NEW e, NEW o, e.msg.odd = FALSE, o.msg.odd = TRUE, NEW last \in BOOLEAN,
         lat_e(e.msg, o.msg) = e.lat, ~(Abs(e.lat) > Circle \div 4),
         lat_o(e.msg, o.msg) = o.lat, ~(Abs(o.lat) > Circle \div 4),
         nl(e.lat) = nl(o.lat) =>
           /\ LonZones(nl(o.lat), last) = IF last THEN o.zones ELSE e.zones
           /\ WholeTurns(lon(e.msg, o.msg, nl(o.lat), e.msg), e.lon, e.zones)
           /\ WholeTurns(lon(e.msg, o.msg, nl(o.lat), o.msg), o.lon, o.zones)
  PROVE  IF nl(e.lat) # nl(o.lat)
         THEN global_decode(e.msg, o.msg, last) = [error |-> "LatitudeZoneMismatch"]
         ELSE Names(global_decode(e.msg, o.msg, last), IF last THEN o ELSE e)
<1>1. CASE nl(e.lat) # nl(o.lat)
  <2>1. global_decode(e.msg, o.msg, last) = [error |-> "LatitudeZoneMismatch"]
    BY <1>1 DEF global_decode
  <2> QED BY <1>1, <2>1
<1>2. CASE nl(e.lat) = nl(o.lat) /\ last
  <2>1. global_decode(e.msg, o.msg, last) =
          [error |-> NoValue, lat |-> o.lat, zones |-> LonZones(nl(o.lat), last),
           lon |-> lon(e.msg, o.msg, nl(o.lat), o.msg)]
    BY <1>2 DEF global_decode
  <2>2. LonZones(nl(o.lat), last) = o.zones /\ WholeTurns(lon(e.msg, o.msg, nl(o.lat), o.msg), o.lon, o.zones)
    BY <1>2
  <2>3. Names(global_decode(e.msg, o.msg, last), o)
    BY <2>1, <2>2 DEF Names
  <2> QED BY <1>2, <2>3, Zenon
<1>3. CASE nl(e.lat) = nl(o.lat) /\ ~last
  <2>1. global_decode(e.msg, o.msg, last) =
          [error |-> NoValue, lat |-> e.lat, zones |-> LonZones(nl(o.lat), last),
           lon |-> lon(e.msg, o.msg, nl(o.lat), e.msg)]
    BY <1>3 DEF global_decode
  <2> QED BY <1>3, <2>1 DEF Names
<1> QED BY <1>1, <1>2, <1>3

\* Points are whole numbers.
LEMMA NearestIs ==
  ASSUME NEW k \in Int, NEW zones \in Int
  PROVE  \E n \in Int : n = Nearest(k, zones) /\ Rounded(n, k, zones)
<1>1. PICK n : n = Nearest(k, zones)
  OBVIOUS
<1>2. Rounded(n, k, zones)
  BY <1>1, NearestPoint
<1>3. n \in Int
  BY <1>2 DEF Rounded
<1> QED BY <1>1, <1>2, <1>3

\* Two reports from places that are two steps of the grid apart at most decode to the point of the later one,
\* or are refused because their latitudes have different numbers of zones: global_decode, for every place.
THEOREM PairDecodes ==
  ASSUME NEW p, NEW q, p.lat \in Int, OnGlobe(p.lat), q.lat \in Int, OnGlobe(q.lat), p.lon \in Int, q.lon \in Int,
         Near(p, q), NEW last \in BOOLEAN
  PROVE  LET e == Report(FALSE, p, 1)
             o == Report(TRUE, q, 1)
         IN  IF nl(e.lat) # nl(o.lat)
             THEN global_decode(e.msg, o.msg, last) = [error |-> "LatitudeZoneMismatch"]
             ELSE Names(global_decode(e.msg, o.msg, last), IF last THEN o ELSE e)
<1>1. PICK a, b, k0, k1, h0, h1 \in Int :
        a = 60 /\ b = 59 /\ k0 = p.lat /\ k1 = q.lat /\ h0 = p.lon /\ h1 = q.lon
  OBVIOUS
<1>2. PICK n0 \in Int : n0 = Nearest(k0, a) /\ Rounded(n0, k0, a)
  BY NearestIs, Zenon
<1>3. PICK n1 \in Int : n1 = Nearest(k1, b) /\ Rounded(n1, k1, b)
  BY NearestIs, Zenon
<1>4. PICK y0, y1 \in Nat \ {0} : y0 <= 59 /\ y0 = nl(236 * n0) /\ y1 <= 59 /\ y1 = nl(240 * n1)
  BY ZonesOfLongitude
<1>5. PICK z1 \in Nat \ {0} : z1 = OddZones(y1)
  BY DEF OddZones
<1>6. PICK m0 \in Int : m0 = Nearest(h0, y0) /\ Rounded(m0, h0, y0)
  <2>1. y0 \in Int
    OBVIOUS
  <2> QED BY <2>1, NearestIs, Zenon
<1>7. PICK m1 \in Int : m1 = Nearest(h1, z1) /\ Rounded(m1, h1, z1)
  <2>1. z1 \in Int
    OBVIOUS
  <2> QED BY <2>1, NearestIs, Zenon
<1>8. PICK e : e = [msg |-> [odd |-> FALSE, lat |-> n0 % Frac, lon |-> m0 % Frac],
                    lat |-> 236 * n0, lon |-> m0, zones |-> y0]
  OBVIOUS
<1>9. PICK o : o = [msg |-> [odd |-> TRUE, lat |-> n1 % Frac, lon |-> m1 % Frac],
                    lat |-> 240 * n1, lon |-> m1, zones |-> z1]
  OBVIOUS
<1>10. /\ e.msg.odd = FALSE /\ e.msg.lat = n0 % Frac /\ e.msg.lon = m0 % Frac
      /\ e.lat = 236 * n0 /\ e.lon = m0 /\ e.zones = y0
  BY <1>8
<1>11. /\ o.msg.odd = TRUE /\ o.msg.lat = n1 % Frac /\ o.msg.lon = m1 % Frac
       /\ o.lat = 240 * n1 /\ o.lon = m1 /\ o.zones = z1
  BY <1>9
<1>12. OnGlobe(k0) /\ OnGlobe(k1) /\ TwoSteps(k0, k1) /\ TwoSteps(h0, h1)
  BY <1>1 DEF Near
<1>13. Rounded(n0, k0, 60) /\ Rounded(n1, k1, 59)
  BY <1>1, <1>2, <1>3, Zenon
<1>14. /\ lat_e(e.msg, o.msg) = 236 * n0 /\ ~(Abs(236 * n0) > Circle \div 4)
       /\ lat_o(e.msg, o.msg) = 240 * n1 /\ ~(Abs(240 * n1) > Circle \div 4)
  <2>1. PICK even, odd : even = e.msg /\ odd = o.msg
    OBVIOUS
  <2>2. even.lat = n0 % Frac /\ odd.lat = n1 % Frac
    BY <1>10, <1>11, <2>1
  <2>3. /\ lat_e(even, odd) = 236 * n0 /\ ~(Abs(236 * n0) > Circle \div 4)
        /\ lat_o(even, odd) = 240 * n1 /\ ~(Abs(240 * n1) > Circle \div 4)
    BY <1>12, <1>13, <2>2, DecodedLatitudes, SMTT(30)
  <2> QED BY <2>1, <2>3, Zenon
<1>15. z1 = OddZones(y0) => /\ WholeTurns(lon(e.msg, o.msg, y0, e.msg), m0, y0)
                            /\ WholeTurns(lon(e.msg, o.msg, y0, o.msg), m1, z1)
  <2>1. PICK even, odd : even = e.msg /\ odd = o.msg
    OBVIOUS
  <2>2. EvenMsg(even, m0) /\ OddMsg(odd, m1)
    BY <1>10, <1>11, <2>1 DEF EvenMsg, OddMsg
  <2>3. y0 <= 59 /\ TwoSteps(h0, h1) /\ Rounded(m0, h0, y0) /\ Rounded(m1, h1, z1)
    BY <1>4, <1>6, <1>7, <1>12
  <2>4. z1 = OddZones(y0) => /\ WholeTurns(lon(even, odd, y0, even), m0, y0)
                             /\ WholeTurns(lon(even, odd, y0, odd), m1, z1)
    BY <2>2, <2>3, DecodedLongitude, Zenon
  <2> QED BY <2>1, <2>4, Zenon
<1>16. ASSUME nl(e.lat) = nl(o.lat)
       PROVE  /\ LonZones(nl(o.lat), last) = IF last THEN o.zones ELSE e.zones
              /\ WholeTurns(lon(e.msg, o.msg, nl(o.lat), e.msg), e.lon, e.zones)
              /\ WholeTurns(lon(e.msg, o.msg, nl(o.lat), o.msg), o.lon, o.zones)
  <2>1. y1 = y0 /\ nl(o.lat) = y0
    <3>1. nl(e.lat) = y0
      BY <1>4, <1>10, Zenon
    <3>2. nl(o.lat) = y1
      BY <1>4, <1>11, Zenon
    <3> QED BY <1>16, <3>1, <3>2, Zenon
  <2>2. z1 = OddZones(y0)
    BY <1>5, <2>1
  <2>3. LonZones(y0, last) = IF last THEN z1 ELSE y0
    BY <2>2 DEF LonZones, OddZones
  <2>4. LonZones(nl(o.lat), last) = IF last THEN o.zones ELSE e.zones
    BY <1>10, <1>11, <2>1, <2>3, Zenon
  <2>5. WholeTurns(lon(e.msg, o.msg, y0, e.msg), m0, y0) /\ WholeTurns(lon(e.msg, o.msg, y0, o.msg), m1, z1)
    BY <1>15, <2>2, Zenon
  <2>6. e.lon = m0 /\ e.zones = y0 /\ o.lon = m1 /\ o.zones = z1
    BY <1>10, <1>11, Zenon
  <2> QED BY <2>1, <2>4, <2>5, <2>6, Zenon
<1>17. IF nl(e.lat) # nl(o.lat)
       THEN global_decode(e.msg, o.msg, last) = [error |-> "LatitudeZoneMismatch"]
       ELSE Names(global_decode(e.msg, o.msg, last), IF last THEN o ELSE e)
  <2>1. /\ e.msg.odd = FALSE /\ lat_e(e.msg, o.msg) = e.lat /\ ~(Abs(e.lat) > Circle \div 4)
        /\ o.msg.odd = TRUE /\ lat_o(e.msg, o.msg) = o.lat /\ ~(Abs(o.lat) > Circle \div 4)
    BY <1>10, <1>11, <1>14, Zenon
  <2> QED BY <2>1, <1>16, DecodedPair, ZenonT(60)
<1>18. Report(FALSE, p, 1) = e
  <2>1. 1 * LatZones(FALSE) = 60 /\ Step(FALSE, 1) = 236
    BY DEF LatZones, NZ_AIRBORNE, Step
  <2>2. n0 = Nearest(p.lat, 60) /\ y0 = nl(236 * n0) /\ m0 = Nearest(p.lon, y0)
    BY <1>1, <1>2, <1>4, <1>6, Zenon
  <2>3. ReportedLat(FALSE, p, 1) = 236 * n0
    BY <2>1, <2>2, Zenon DEF ReportedLat
  <2>4. 1 * LonZones(y0, FALSE) = y0
    BY <1>4 DEF LonZones
  <2>5. ReportedZones(FALSE, p, 1) = y0
    <3>1. nl(ReportedLat(FALSE, p, 1)) = y0
      BY <2>2, <2>3, Zenon
    <3> QED BY <2>4, <3>1, Zenon DEF ReportedZones
  <2> QED BY <1>8, <2>1, <2>2, <2>3, <2>5, Zenon DEF Report
<1>19. Report(TRUE, q, 1) = o
  <2>1. 1 * LatZones(TRUE) = 59 /\ Step(TRUE, 1) = 240
    BY DEF LatZones, NZ_AIRBORNE, Step
  <2>2. n1 = Nearest(q.lat, 59) /\ y1 = nl(240 * n1) /\ m1 = Nearest(q.lon, z1)
    BY <1>1, <1>3, <1>4, <1>7, Zenon
  <2>3. ReportedLat(TRUE, q, 1) = 240 * n1
    BY <2>1, <2>2, Zenon DEF ReportedLat
  <2>4. 1 * LonZones(y1, TRUE) = z1
    BY <1>5 DEF LonZones, OddZones
  <2>5. ReportedZones(TRUE, q, 1) = z1
    <3>1. nl(ReportedLat(TRUE, q, 1)) = y1
      BY <2>2, <2>3, Zenon
    <3> QED BY <2>4, <3>1, Zenon DEF ReportedZones
  <2> QED BY <1>9, <2>1, <2>2, <2>3, <2>5, Zenon DEF Report
<1> QED BY <1>17, <1>18, <1>19, Zenon

------------------------------------------------------------------------------
(* The invariant: which places the reports were made from *)

EvenFrom(p) == sent[FALSE] = Report(FALSE, p, Finer)
OddFrom(q) == sent[TRUE] = Report(TRUE, q, Finer)
EvenSent == sent[FALSE] # Nothing
OddSent == sent[TRUE] # Nothing

\* The even report is made from p and the odd one from q, which are near; what is not made yet will be from here.
MadeFrom(p, q) ==
  /\ EvenSent => EvenFrom(p)
  /\ OddSent => OddFrom(q)
  /\ ~EvenSent \/ ~flown => p = at
  /\ ~OddSent \/ ~flown => q = at
  /\ Near(p, q)

\* An answer from two reports is the decoder's; one of a receiver's place is no refusal.
AnswerOf ==
  /\ answer = Unanswered => receiver = Nothing
  /\ answer # Unanswered /\ receiver = Nothing =>
       ~surface /\ EvenSent /\ OddSent /\ answer = global_decode(sent[FALSE].msg, sent[TRUE].msg, recent)
  /\ answer # Unanswered /\ receiver # Nothing => answer.error = NoValue

IInv ==
  /\ surface \in BOOLEAN /\ recent \in BOOLEAN /\ at \in Place /\ DOMAIN sent = BOOLEAN
  /\ \E p, q \in Place : MadeFrom(p, q)
  /\ AnswerOf

\* A place is near itself, and near those one move away on either side.
LEMMA Unmoved == ASSUME NEW k \in Int PROVE TwoSteps(k, k)
<1>1. k - k - Grid * 0 \in -2..2
  BY SMT DEF Grid
<1> QED BY <1>1 DEF TwoSteps

LEMMA Moved ==
  ASSUME NEW k \in Int, NEW w \in Int, NEW s \in -2..2
  PROVE  TwoSteps(k, k + s + Grid * w) /\ TwoSteps(k + s + Grid * w, k)
<1>1. (k + s + Grid * w) - k - Grid * w \in -2..2 /\ k - (k + s + Grid * w) - Grid * (-w) \in -2..2
  BY SMT DEF Grid
<1> QED BY <1>1 DEF TwoSteps

\* Where the grid ends east and west.
LEMMA LonsAre == ASSUME NEW v \in Int, v >= -7200, v <= 7199 PROVE v \in Lons
BY SMTT(60) DEF Lons

LEMMA Wrapped ==
  ASSUME NEW k \in Int
  PROVE  /\ WrapGrid(k) \in Lons
         /\ \E w \in Int : WrapGrid(k) = k + Grid * w
<1>1. PICK g \in Nat \ {0} : g = Grid /\ g = 14400
  BY SMT DEF Grid
<1>2. PICK x, d, r \in Int : x = k + 7200 /\ d = x \div g /\ r = x % g
  BY <1>1
<1>3. x = g * d + r /\ 0 <= r /\ r < g
  BY <1>1, <1>2
<1>4. WrapGrid(k) = r - 7200
  BY <1>1, <1>2 DEF WrapGrid
<1>5. PICK w \in Int : w = -d
  OBVIOUS
<1>6. WrapGrid(k) = k + g * w
  BY <1>2, <1>3, <1>4, <1>5
<1>7. \E v \in Int : WrapGrid(k) = k + Grid * v
  <2>1. WrapGrid(k) = k + Grid * w
    BY <1>1, <1>6
  <2> QED BY <2>1, Zenon
<1>8. WrapGrid(k) \in Lons
  <2>1. WrapGrid(k) \in Int /\ WrapGrid(k) >= -7200 /\ WrapGrid(k) <= 7199
    BY <1>1, <1>2, <1>3, <1>4
  <2> QED BY SMTT(60), <2>1, LonsAre
<1> QED BY <1>7, <1>8

\* Its latitudes are those of the globe.
LEMMA LatsAre == \A x : x \in Lats <=> x \in Int /\ OnGlobe(x)
<1>1. ASSUME NEW x \in Lats PROVE x \in Int /\ OnGlobe(x)
  BY SMTT(60), <1>1 DEF Lats, OnGlobe
<1>2. ASSUME NEW x \in Int, OnGlobe(x) PROVE x \in Lats
  BY SMTT(60), <1>2 DEF Lats, OnGlobe
<1> QED BY <1>1, <1>2, Zenon

LEMMA PlaceParts ==
  ASSUME NEW p \in Place
  PROVE  p.lat \in Lats /\ p.lon \in Lons /\ p.lat \in Int /\ OnGlobe(p.lat) /\ p.lon \in Int
<1>1. p \in [lat : Lats, lon : Lons]
  BY Zenon DEF Place
<1>2. p.lat \in Lats /\ p.lon \in Lons
  BY <1>1
<1>3. \A x \in Lons : x \in Int
  BY SMTT(60) DEF Lons
<1> QED BY <1>2, <1>3, LatsAre, Zenon

LEMMA NearItself == ASSUME NEW p \in Place PROVE Near(p, p)
<1>1. TwoSteps(p.lat, p.lat) /\ TwoSteps(p.lon, p.lon)
  BY PlaceParts, Unmoved, Zenon
<1> QED BY <1>1, Zenon DEF Near

LEMMA NearMoved ==
  ASSUME NEW p \in Place, NEW s \in -2..2, NEW t \in -2..2, p.lat + s \in Lats,
         NEW q, q = [lat |-> p.lat + s, lon |-> WrapGrid(p.lon + t)]
  PROVE  q \in Place /\ Near(p, q) /\ Near(q, p)
<1>1. PICK k, h \in Int : k = p.lat /\ h = p.lon
  BY PlaceParts, Zenon
<1>2. q.lat = k + s /\ q.lon = WrapGrid(h + t) /\ q.lat \in Lats
  BY <1>1
<1>3. k + s = k + s + Grid * 0 /\ h + t \in Int
  BY DEF Grid
<1>4. TwoSteps(k, k + s) /\ TwoSteps(k + s, k)
  <2>1. \A w \in Int : TwoSteps(k, k + s + Grid * w) /\ TwoSteps(k + s + Grid * w, k)
    BY Moved, Zenon
  <2>2. TwoSteps(k, k + s + Grid * 0) /\ TwoSteps(k + s + Grid * 0, k)
    <3>1. 0 \in Int
      OBVIOUS
    <3> QED BY <2>1, <3>1, Zenon
  <2> QED BY <1>3, <2>2, Zenon
<1>5. PICK w \in Int : WrapGrid(h + t) = h + t + Grid * w
  BY <1>3, Wrapped
<1>6. TwoSteps(h, WrapGrid(h + t)) /\ TwoSteps(WrapGrid(h + t), h)
  BY <1>5, Moved
<1>7. Near(p, q) /\ Near(q, p)
  BY <1>1, <1>2, <1>4, <1>6, Zenon DEF Near
<1>8. WrapGrid(h + t) \in Lons
  BY <1>3, Wrapped, Zenon
<1>9. q \in [lat : Lats, lon : Lons]
  BY <1>1, <1>2, <1>8
<1> QED BY <1>7, <1>9, Zenon DEF Place

LEMMA InitInv == Init => IInv
<1> SUFFICES ASSUME Init PROVE IInv
  OBVIOUS
<1>1. surface \in BOOLEAN /\ recent \in BOOLEAN /\ at \in Place /\ DOMAIN sent = BOOLEAN
  <2>1. at \in Place
    BY CprAssumption, Zenon DEF Init
  <2> QED BY <2>1, Zenon DEF Init
<1>2. ~EvenSent /\ ~OddSent
  BY Zenon DEF Init, EvenSent, OddSent
<1>3. MadeFrom(at, at)
  BY <1>1, <1>2, NearItself, Zenon DEF MadeFrom
<1>4. AnswerOf
  BY Zenon DEF Init, AnswerOf
<1> QED BY <1>1, <1>3, <1>4, Zenon DEF IInv

\* A report is made from where the aircraft is.
LEMMA SendInv == ASSUME IInv, NEW odd \in BOOLEAN, Send(odd) PROVE IInv'
<1>1. PICK p, q \in Place : MadeFrom(p, q)
  BY Zenon DEF IInv
<1>2. surface' = surface /\ at' = at /\ flown' = flown /\ receiver' = receiver /\ answer' = answer /\ recent' = odd
  BY Zenon DEF Send
<1>3. Finer' = Finer
  BY <1>2, Zenon DEF Finer
<1>4. answer = Unanswered /\ sent[odd] = Nothing
  BY Zenon DEF Send
<1>5. DOMAIN sent' = BOOLEAN /\ sent'[odd] = Report(odd, at, Finer) /\ sent'[~odd] = sent[~odd]
  BY Zenon DEF Send, IInv
<1>6. MadeFrom(p, q)'
  <2>1. CASE odd = FALSE
    <3>1. sent'[FALSE] = Report(FALSE, at, Finer) /\ sent'[TRUE] = sent[TRUE] /\ ~EvenSent
      BY <2>1, <1>4, <1>5, Zenon DEF EvenSent
    <3>2. p = at /\ EvenFrom(p)' /\ (OddSent' <=> OddSent) /\ (OddFrom(q)' <=> OddFrom(q))
      BY <1>1, <1>3, <3>1, Zenon DEF MadeFrom, EvenFrom, OddSent, OddFrom
    <3> QED BY <1>1, <1>2, <3>1, <3>2, Zenon DEF MadeFrom
  <2>2. CASE odd = TRUE
    <3>1. sent'[TRUE] = Report(TRUE, at, Finer) /\ sent'[FALSE] = sent[FALSE] /\ ~OddSent
      BY <2>2, <1>4, <1>5, Zenon DEF OddSent
    <3>2. q = at /\ OddFrom(q)' /\ (EvenSent' <=> EvenSent) /\ (EvenFrom(p)' <=> EvenFrom(p))
      BY <1>1, <1>3, <3>1, Zenon DEF MadeFrom, EvenFrom, EvenSent, OddFrom
    <3> QED BY <1>1, <1>2, <3>1, <3>2, Zenon DEF MadeFrom
  <2> QED BY <2>1, <2>2
<1>7. AnswerOf'
  BY <1>2, <1>4, Zenon DEF IInv, AnswerOf
<1> QED BY <1>1, <1>2, <1>5, <1>6, <1>7, Zenon DEF IInv

\* The aircraft moves with one report made: the other one will be made from the place it moved to.
LEMMA FlyInv == ASSUME IInv, NEW move \in Moves, Fly(move) PROVE IInv'
<1>1. PICK p, q \in Place : MadeFrom(p, q)
  BY Zenon DEF IInv
<1>2. surface' = surface /\ sent' = sent /\ recent' = recent /\ receiver' = receiver /\ answer' = answer
  BY DEF Fly
<1>3. ~flown /\ flown' /\ answer = Unanswered
  BY DEF Fly
<1>4. /\ Finer' = Finer /\ (EvenSent' <=> EvenSent) /\ (OddSent' <=> OddSent)
      /\ \A x : (EvenFrom(x)' <=> EvenFrom(x)) /\ (OddFrom(x)' <=> OddFrom(x))
  BY <1>2, Zenon DEF Finer, EvenSent, OddSent, EvenFrom, OddFrom
<1>5. p = at /\ q = at
  BY <1>1, <1>3, Zenon DEF MadeFrom
<1>6. at' \in Place /\ Near(at, at') /\ Near(at', at)
  <2>1. PICK s, t \in -2..2 : s = move.lat /\ t = move.lon
    BY CprAssumption
  <2>2. at.lat + s \in Lats /\ at' = [lat |-> at.lat + s, lon |-> WrapGrid(at.lon + t)]
    <3>1. at' = [lat |-> at.lat + move.lat, lon |-> WrapGrid(at.lon + move.lon)]
      BY DEF Fly
    <3>2. at.lat + move.lat \in Lats
      BY Zenon DEF Fly
    <3> QED BY <2>1, <3>1, <3>2
  <2>3. at \in Place
    BY Zenon DEF IInv
  <2> QED BY <2>2, <2>3, NearMoved, Zenon
<1>7. PICK a \in Place : a = at'
  BY <1>6, Zenon
<1>8. \E x, y \in Place : MadeFrom(x, y)'
  <2>1. \/ EvenSent /\ ~OddSent
        \/ OddSent /\ ~EvenSent
    <3>1. PICK odd \in BOOLEAN : sent[odd] # Nothing /\ sent[~odd] = Nothing
      BY Zenon DEF Fly
    <3>2. CASE odd = FALSE
      BY <3>1, <3>2, Zenon DEF EvenSent, OddSent
    <3>3. CASE odd = TRUE
      BY <3>1, <3>3, Zenon DEF EvenSent, OddSent
    <3> QED BY <3>2, <3>3
  <2>2. CASE EvenSent /\ ~OddSent
    <3>1. MadeFrom(p, a)'
      BY <1>1, <1>3, <1>4, <1>5, <1>6, <1>7, <2>2, Zenon DEF MadeFrom
    <3> QED BY <3>1, Zenon
  <2>3. CASE OddSent /\ ~EvenSent
    <3>1. MadeFrom(a, q)'
      BY <1>1, <1>3, <1>4, <1>5, <1>6, <1>7, <2>3, Zenon DEF MadeFrom
    <3> QED BY <3>1, Zenon
  <2> QED BY <2>1, <2>2, <2>3, Zenon
<1>9. AnswerOf'
  BY <1>2, <1>3, Zenon DEF IInv, AnswerOf
<1> QED BY <1>2, <1>6, <1>8, <1>9, Zenon DEF IInv

\* Whatever leaves the aircraft and its reports alone leaves the places they were made from.
LEMMA FromUnchanged ==
  ASSUME IInv, surface' = surface, at' = at, sent' = sent, recent' = recent, flown' = flown, AnswerOf'
  PROVE  IInv'
<1>1. PICK p, q \in Place : MadeFrom(p, q)
  BY Zenon DEF IInv
<1>2. /\ Finer' = Finer /\ (EvenSent' <=> EvenSent) /\ (OddSent' <=> OddSent)
      /\ \A x : (EvenFrom(x)' <=> EvenFrom(x)) /\ (OddFrom(x)' <=> OddFrom(x))
  BY Zenon DEF Finer, EvenSent, OddSent, EvenFrom, OddFrom
<1>3. MadeFrom(p, q)'
  BY <1>1, <1>2, Zenon DEF MadeFrom
<1> QED BY <1>1, <1>3, Zenon DEF IInv

LEMMA PairInv == ASSUME IInv, Pair PROVE IInv'
<1>1. AnswerOf'
  BY Zenon DEF IInv, AnswerOf, Pair, EvenSent, OddSent
<1> QED BY <1>1, FromUnchanged DEF Pair

LEMMA LocateInv == ASSUME IInv, NEW offset \in Offsets, Locate(offset) PROVE IInv'
<1>1. receiver' # Nothing
  <2>1. DOMAIN receiver' = {"lat", "lon"}
    <3>1. receiver' \in [lat : Lats, lon : Lons]
      BY Zenon DEF Place, Locate
    <3> QED BY <3>1
  <2>2. DOMAIN Nothing = {"lat"}
    BY DEF Nothing
  <2> QED BY <2>1, <2>2
<1>2. answer'.error = NoValue
  BY DEF Locate, local_decode, local_decode_surface, local_decode_with_dlat
<1>3. answer' # Unanswered
  <2>1. NoValue # "none yet"
    BY CprAssumption, Zenon
  <2>2. Unanswered.error = "none yet"
    BY DEF Unanswered
  <2> QED BY <1>2, <2>1, <2>2, Zenon
<1>4. AnswerOf'
  BY <1>1, <1>2, <1>3, Zenon DEF AnswerOf
<1> QED BY <1>4, FromUnchanged DEF Locate

\* In every behaviour the reports were made from two near places, the last from where the aircraft is.
THEOREM Inductive == Spec => []IInv
<1>1. ASSUME IInv, [Next]_vars PROVE IInv'
  <2>1. ASSUME NEW odd \in BOOLEAN, Send(odd) PROVE IInv'
    BY <1>1, <2>1, SendInv
  <2>2. ASSUME NEW move \in Moves, Fly(move) PROVE IInv'
    BY <1>1, <2>2, FlyInv
  <2>3. CASE Pair
    BY <1>1, <2>3, PairInv
  <2>4. ASSUME NEW offset \in Offsets, Locate(offset) PROVE IInv'
    BY <1>1, <2>4, LocateInv
  <2>5. CASE UNCHANGED vars
    <3>1. AnswerOf'
      BY <1>1, <2>5, Zenon DEF IInv, AnswerOf, EvenSent, OddSent, vars
    <3> QED BY <1>1, <2>5, <3>1, FromUnchanged DEF vars
  <2> QED BY <1>1, <2>1, <2>2, <2>3, <2>4, <2>5, Zenon DEF Next
<1> QED BY <1>1, InitInv, PTL DEF Spec

\* What two reports are answered with, in a state of the invariant.
LEMMA PairAnswer ==
  ASSUME IInv, Answered, receiver = Nothing
  PROVE  IF nl(sent[FALSE].lat) # nl(sent[TRUE].lat)
         THEN answer = [error |-> "LatitudeZoneMismatch"]
         ELSE Names(answer, sent[recent])
<1>1. PICK p, q \in Place : MadeFrom(p, q)
  BY Zenon DEF IInv
<1>2. /\ EvenSent /\ OddSent /\ ~surface /\ recent \in BOOLEAN
      /\ answer = global_decode(sent[FALSE].msg, sent[TRUE].msg, recent)
  BY Zenon DEF IInv, AnswerOf, Answered
<1>3. Finer = 1
  BY <1>2, Zenon DEF Finer
<1>4. sent[FALSE] = Report(FALSE, p, 1) /\ sent[TRUE] = Report(TRUE, q, 1) /\ Near(p, q)
  BY <1>1, <1>2, <1>3, Zenon DEF MadeFrom, EvenFrom, OddFrom
<1>5. IF nl(sent[FALSE].lat) # nl(sent[TRUE].lat)
      THEN answer = [error |-> "LatitudeZoneMismatch"]
      ELSE Names(answer, IF recent THEN sent[TRUE] ELSE sent[FALSE])
  BY <1>2, <1>4, PlaceParts, PairDecodes, Zenon
<1>6. (IF recent THEN sent[TRUE] ELSE sent[FALSE]) = sent[recent]
  <2>1. CASE recent = TRUE
    BY <2>1, Zenon
  <2>2. CASE recent = FALSE
    BY <2>2, Zenon
  <2> QED BY <1>2, <2>1, <2>2
<1> QED BY <1>5, <1>6, Zenon

\* Two reports of an aircraft that flew less than 3 miles in between give the exact point of the later one,
\* if they give a position.
THEOREM GlobalRightHolds == Spec => []GlobalRight
<1>1. ASSUME IInv PROVE GlobalRight
  <2> SUFFICES ASSUME Position, receiver = Nothing PROVE NamesReport
    BY Zenon DEF GlobalRight
  <2>1. Answered /\ answer.error = NoValue
    BY Zenon DEF Position
  <2>2. [error |-> "LatitudeZoneMismatch"].error # NoValue
    BY CprAssumption
  <2>3. Names(answer, sent[recent])
    BY <1>1, <2>1, <2>2, PairAnswer, Zenon
  <2> QED BY <2>3, Zenon DEF Names, NamesReport, WholeTurns
<1> QED BY <1>1, Inductive, PTL

\* They are refused only where their latitudes have different numbers of zones.
THEOREM RefusedAtTransitionsHolds == Spec => []RefusedAtTransitions
<1>1. ASSUME IInv PROVE RefusedAtTransitions
  <2> SUFFICES ASSUME Answered, answer.error # NoValue
               PROVE  answer.error = "LatitudeZoneMismatch" /\ nl(sent[FALSE].lat) # nl(sent[TRUE].lat)
    BY Zenon DEF RefusedAtTransitions
  <2>1. receiver = Nothing
    BY <1>1, Zenon DEF IInv, AnswerOf, Answered
  <2>2. [error |-> "LatitudeZoneMismatch"].error = "LatitudeZoneMismatch"
    OBVIOUS
  <2>3. ~Names(answer, sent[recent])
    BY Zenon DEF Names
  <2> QED BY <1>1, <2>1, <2>2, <2>3, PairAnswer, Zenon
<1> QED BY <1>1, Inductive, PTL

------------------------------------------------------------------------------
(* One report and a receiver *)

\* How far a receiver is from a place, east or west: less than half a zone.
Within(d, zones) == -Grid < 2 * (zones * d) /\ 2 * (zones * d) < Grid

\* A receiver at r is less than half a zone from k, up to so many turns of the globe.
Reached(r, k, zones, turns) == \E d \in Int : r = k + d + Grid * turns /\ Within(d, zones)

LEMMA Distributes ==
  ASSUME NEW a \in Int, NEW b \in Int, NEW c \in Int, NEW g \in Int, NEW z \in Int
  PROVE  (a + b + g * c) * z = a * z + z * b + g * (z * c)
OBVIOUS

\* The zone whose point is nearest to a receiver, less than half a zone away up to turns of the globe, is the
\* one the report was made in, as many turns away.
LEMMA ReceiverZone ==
  ASSUME NEW zones \in Int, NEW k \in Int, NEW r \in Int, NEW t \in Int, Reached(r, k, zones, t),
         NEW n \in Int, Rounded(n, k, zones)
  PROVE  NearestZone(r, n % Frac, zones) = n \div Frac + zones * t
<1>d. PICK d \in Int : r = k + d + Grid * t /\ Within(d, zones)
  BY DEF Reached
<1>1. PICK g, f \in Int : g = Grid /\ f = Frac
  BY SMT DEF Grid, Frac
<1>a. g = 14400 /\ f = 131072
  BY SMT, <1>1 DEF Grid, Frac
<1>2. PICK x, y, e, u \in Int : x = k * zones /\ y = r * zones /\ e = zones * d /\ u = zones * t
  OBVIOUS
<1>3. y = x + e + g * u
  BY <1>d, <1>1, <1>2, Distributes
<1>4. PICK q \in Int : 0 <= q /\ q <= 449 /\ 450 * n = 4096 * x + 225 - q
  BY <1>2 DEF Rounded
<1>5. PICK B, b, N, h \in Int : B = y \div g /\ b = y % g /\ N = n \div f /\ h = n % f
  BY <1>a
<1>6. y = g * B + b /\ n = f * N + h
  BY <1>a, <1>5
<1>7. PICK C \in Int : C = 225 * 65536 + 2048 * b - 225 * h
  OBVIOUS
<1>8. PICK w \in Int : w = N + u - B
  OBVIOUS
<1>9. -14400 < 2 * e /\ 2 * e < 14400
  BY <1>d, <1>1, <1>a, <1>2 DEF Within
<1>10. 2 * (C - 29491200 * w) = 29491200 + 4096 * e - 225 + q
  BY <1>a, <1>3, <1>4, <1>6, <1>7, <1>8
<1>11. 0 <= C - 29491200 * w /\ C - 29491200 * w < 29491200
  BY <1>4, <1>9, <1>10
<1>12. C \div 29491200 = w
  BY <1>11
<1>13. 225 * f = 29491200
  BY <1>a
<1>14. NearestZone(r, h, zones) = B + C \div (225 * f)
  <2>0. y % Grid \in Int /\ Frac \in Int
    BY <1>1, <1>5
  <2>1. PICK X, Y \in Int : X = 225 * 65536 + 2048 * (y % Grid) - 225 * h /\ Y = 225 * Frac
    <3>1. 225 * 65536 + 2048 * (y % Grid) - 225 * h \in Int /\ 225 * Frac \in Int
      BY <2>0
    <3> QED BY <3>1
  <2>2. NearestZone(r, h, zones) = (y \div Grid) + X \div Y
    BY <1>2, <2>1, SMT DEF NearestZone
  <2>3. y \div Grid = B /\ X = C /\ Y = 225 * f
    BY <1>1, <1>5, <1>7, <2>1
  <2> QED BY <2>2, <2>3
<1>15. NearestZone(r, h, zones) = N + u
  BY <1>8, <1>12, <1>13, <1>14
<1> QED BY <1>1, <1>2, <1>5, <1>15

\* A reported latitude is less than three quarters of the globe from the equator.
LEMMA ReportedIsUnwrapped ==
  ASSUME NEW k \in Int, OnGlobe(k), NEW n \in Int, NEW odd \in BOOLEAN, NEW finer \in {1, 4},
         Rounded(n, k, finer * LatZones(odd))
  PROVE  wrap_lat(Step(odd, finer) * n) = Step(odd, finer) * n
<1>1. PICK z, s \in Int : z = finer * LatZones(odd) /\ s = Step(odd, finer)
      /\ <<z, s>> \in {<<60, 236>>, <<240, 59>>, <<59, 240>>, <<236, 60>>}
  BY DEF LatZones, NZ_AIRBORNE, Step
<1>2. PICK r \in Int : 0 <= r /\ r <= 449 /\ 450 * n = 4096 * (k * z) + 225 - r
  BY <1>1 DEF Rounded
<1>3. PICK c, q \in Int : c = Circle /\ q = Circle \div 4 /\ q = 463994880
  BY SMT DEF Frac, Circle
<1>4. s * n < 3 * q
  BY <1>1, <1>2, <1>3 DEF OnGlobe
<1>5. s * n \in Int
  BY <1>1
<1>6. wrap_lat(s * n) = s * n
  BY <1>3, <1>4, <1>5 DEF wrap_lat
<1> QED BY <1>1, <1>6

\* A longitude a number of turns away is the same up to turns, wrapped or not.
LEMMA TurnsAway ==
  ASSUME NEW n \in Int, NEW zones \in Nat \ {0}, NEW t \in Int
  PROVE  WholeTurns(wrap_lon(n + Frac * (zones * t), zones), n, zones)
<1>1. PICK y \in Nat \ {0} : y = Frac * zones
  BY Fractions
<1>2. PICK v \in Int : v = n + Frac * (zones * t)
  BY Fractions
<1>3. v - n = 0 + y * t /\ v - y - n = 0 + y * (t - 1)
  <2>1. Frac * (zones * t) = (Frac * zones) * t
    BY Fractions
  <2> QED BY <1>1, <1>2, <2>1
<1>4. (0 + y * t) % y = 0 /\ (0 + y * (t - 1)) % y = 0
  <2>1. 0 \in 0..y - 1 /\ t - 1 \in Int
    OBVIOUS
  <2> QED BY <2>1, RemainderOf
<1>5. wrap_lon(v, zones) = v \/ wrap_lon(v, zones) = v - y
  BY <1>1, <1>2 DEF wrap_lon
<1>6. (wrap_lon(v, zones) - n) % y = 0
  BY <1>3, <1>4, <1>5
<1> QED BY <1>1, <1>2, <1>6 DEF WholeTurns

LEMMA HalfZone ==
  ASSUME NEW d \in Int, NEW zones \in Nat, 2 * zones * Abs(d) < Grid
  PROVE  Within(d, zones)
<1>1. PICK g \in Int : g = Grid /\ g > 0
  BY SMT DEF Grid
<1>2. PICK e \in Int : e = zones * d
  OBVIOUS
<1>3. CASE d < 0
  <2>1. Abs(d) = -d
    BY <1>3 DEF Abs
  <2>2. 2 * zones * (-d) = -(2 * e)
    BY <1>2
  <2>3. -(2 * e) < g
    BY <1>1, <2>1, <2>2
  <2>4. -g < 2 * e /\ 2 * e < g
    BY <1>1, <1>2, <1>3, <2>3
  <2> QED BY <1>1, <1>2, <2>4, Zenon DEF Within
<1>4. CASE d >= 0
  <2>1. Abs(d) = d
    BY <1>4 DEF Abs
  <2>2. 2 * zones * d = 2 * e
    BY <1>2
  <2>3. 2 * e < g /\ e >= 0
    BY <1>1, <1>2, <1>4, <2>1, <2>2
  <2>4. -g < 2 * e /\ 2 * e < g
    BY <1>1, <2>3
  <2> QED BY <1>1, <1>2, <2>4, Zenon DEF Within
<1> QED BY <1>3, <1>4

\* One report and a receiver less than half a zone away give the point of the report: local_decode_with_dlat,
\* for every place.
THEOREM LocalDecodes ==
  ASSUME NEW odd \in BOOLEAN, NEW finer \in {1, 4}, NEW p, NEW r,
         p.lat \in Int, OnGlobe(p.lat), p.lon \in Int, r.lat \in Int, r.lon \in Int,
         2 * finer * LatZones(odd) * Abs(r.lat - p.lat) < Grid,
         2 * ReportedZones(odd, p, finer) * Abs(WrapGrid(r.lon - p.lon)) < Grid
  PROVE  LET s == Report(odd, p, finer)
         IN  Names(local_decode_with_dlat(s.msg, r, finer), s)
<1>1. PICK k, h, y, x \in Int : k = p.lat /\ h = p.lon /\ y = r.lat /\ x = r.lon
  OBVIOUS
<1>2. PICK z \in Nat, c \in Int : z = finer * LatZones(odd) /\ c = Step(odd, finer)
  <2>1. \A v \in Int : v \div 1 = v
    OBVIOUS
  <2>2. finer * LatZones(odd) \in {60, 240, 59, 236} /\ Step(odd, finer) \in {236, 59, 240, 60}
    BY <2>1 DEF LatZones, NZ_AIRBORNE, Step
  <2> QED BY <2>2
<1>3. PICK n \in Int : n = Nearest(k, z) /\ Rounded(n, k, z)
  <2>1. z \in Int
    OBVIOUS
  <2> QED BY <2>1, NearestIs, Zenon
<1>4. wrap_lat(c * n) = c * n
  BY <1>1, <1>2, <1>3, ReportedIsUnwrapped
<1>5. ReportedLat(odd, p, finer) = c * n
  BY <1>1, <1>2, <1>3, Zenon DEF ReportedLat
<1>6. PICK u \in Nat \ {0} : u = finer * LonZones(nl(c * n), odd)
  <2>1. nl(c * n) \in 1..59
    BY ZonesOfLongitude
  <2> QED BY <2>1 DEF LonZones
<1>7. ReportedZones(odd, p, finer) = u
  BY <1>5, <1>6, Zenon DEF ReportedZones
<1>8. PICK m \in Int : m = Nearest(h, u) /\ Rounded(m, h, u)
  <2>1. u \in Int
    OBVIOUS
  <2> QED BY <2>1, NearestIs, Zenon
<1>9. PICK s : s = [msg |-> [odd |-> odd, lat |-> n % Frac, lon |-> m % Frac], lat |-> c * n, lon |-> m, zones |-> u]
  OBVIOUS
<1>10. Report(odd, p, finer) = s
  BY <1>1, <1>2, <1>3, <1>5, <1>7, <1>8, <1>9, Zenon DEF Report
<1>11. s.msg.odd = odd /\ s.msg.lat = n % Frac /\ s.msg.lon = m % Frac /\ s.lat = c * n /\ s.lon = m /\ s.zones = u
  BY <1>9
<1>12. NearestZone(y, n % Frac, z) = n \div Frac
  <2>1. PICK d \in Int : d = y - k
    OBVIOUS
  <2>2. Within(d, z)
    <3>1. 2 * z * Abs(d) < Grid
      <4>1. 2 * finer * LatZones(odd) = 2 * z
        BY <1>2 DEF LatZones, NZ_AIRBORNE
      <4> QED BY <1>1, <2>1, <4>1
    <3> QED BY <3>1, HalfZone
  <2>3. PICK o \in Int : o = 0
    OBVIOUS
  <2>4. y = k + d + Grid * o /\ z * o = 0
    BY <2>1, <2>3 DEF Grid
  <2>5. NearestZone(y, n % Frac, z) = n \div Frac + z * o
    <3>1. Reached(y, k, z, o) /\ z \in Int
      BY <2>2, <2>4 DEF Reached
    <3> QED BY <1>3, <3>1, ReceiverZone
  <2>6. n \div Frac \in Int
    BY Fractions
  <2> QED BY <2>4, <2>5, <2>6
<1>13. PICK t \in Int : NearestZone(x, m % Frac, u) = m \div Frac + u * t
  <2>1. PICK w \in Int : WrapGrid(x - h) = (x - h) + Grid * w
    BY Wrapped
  <2>2. PICK d, g \in Int : d = WrapGrid(x - h) /\ g = Grid
    BY <2>1 DEF Grid
  <2>3. Within(d, u)
    <3>1. 2 * u * Abs(d) < Grid
      BY <1>1, <1>7, <2>2
    <3> QED BY <3>1, HalfZone
  <2>4. PICK t \in Int : t = -w
    OBVIOUS
  <2>5. x = h + d + Grid * t
    BY <2>1, <2>2, <2>4
  <2>6. NearestZone(x, m % Frac, u) = m \div Frac + u * t
    <3>1. Reached(x, h, u, t) /\ u \in Int
      BY <2>3, <2>5 DEF Reached
    <3> QED BY <1>8, <3>1, ReceiverZone
  <2> QED BY <2>6
<1>14. Frac * (n \div Frac) + (n % Frac) = n
  BY Fractions
<1>15. Frac * (m \div Frac + u * t) + (m % Frac) = m + Frac * (u * t)
  <2>1. PICK f, q, e, v \in Int : f = Frac /\ q = m \div f /\ e = m % f /\ v = u * t
    BY Fractions
  <2>2. f * (q + v) + e = m + f * v
    <3>1. m = f * q + e
      BY <2>1, SMT DEF Frac
    <3> QED BY <3>1
  <2> QED BY <2>1, <2>2, Zenon
<1>16. WholeTurns(wrap_lon(m + Frac * (u * t), u), m, u)
  BY TurnsAway
<1>17. local_decode_with_dlat(s.msg, r, finer) =
         [error |-> NoValue, lat |-> c * n, zones |-> u, lon |-> wrap_lon(m + Frac * (u * t), u)]
  <2>1. wrap_lat(Step(odd, finer) * (Frac * NearestZone(r.lat, s.msg.lat, finer * LatZones(odd)) + s.msg.lat)) = c * n
    BY <1>1, <1>2, <1>4, <1>11, <1>12, <1>14, Zenon
  <2>2. wrap_lon(Frac * NearestZone(r.lon, s.msg.lon, u) + s.msg.lon, u) = wrap_lon(m + Frac * (u * t), u)
    BY <1>1, <1>11, <1>13, <1>15, Zenon
  <2>3. finer * LonZones(nl(c * n), odd) = u /\ s.msg.odd = odd
    BY <1>6, <1>11
  <2> QED BY <2>1, <2>2, <2>3, Zenon DEF local_decode_with_dlat
<1>18. Names(local_decode_with_dlat(s.msg, r, finer), s)
  BY <1>11, <1>16, <1>17 DEF Names
<1> QED BY <1>10, <1>18, Zenon

\* An answer with a receiver's place is the decoder's, from the one report made, from where the aircraft still is.
LocatedOf ==
  answer # Unanswered /\ receiver # Nothing =>
    /\ sent[recent] = Report(recent, at, Finer)
    /\ receiver \in Place
    /\ answer = local_decode_with_dlat(sent[recent].msg, receiver, Finer)

LEMMA LocatedInductive == Spec => []LocatedOf
<1>1. Init => LocatedOf
  BY Zenon DEF Init, LocatedOf
<1>2. ASSUME IInv, LocatedOf, [Next]_vars PROVE LocatedOf'
  <2>1. ASSUME NEW odd \in BOOLEAN, Send(odd) PROVE LocatedOf'
    BY <2>1, Zenon DEF Send, LocatedOf
  <2>2. ASSUME NEW move \in Moves, Fly(move) PROVE LocatedOf'
    BY <2>2, Zenon DEF Fly, LocatedOf
  <2>3. CASE Pair
    <3>1. receiver' = receiver /\ answer = Unanswered
      BY <2>3, Zenon DEF Pair
    <3>2. receiver = Nothing
      BY <1>2, <3>1, Zenon DEF IInv, AnswerOf
    <3> QED BY <3>1, <3>2, Zenon DEF LocatedOf
  <2>4. ASSUME NEW offset \in Offsets, Locate(offset) PROVE LocatedOf'
    <3>1. /\ sent[recent] # Nothing /\ ~flown /\ receiver' \in Place
          /\ surface' = surface /\ at' = at /\ sent' = sent /\ recent' = recent
      BY <2>4, Zenon DEF Locate
    <3>2. sent[recent] = Report(recent, at, Finer)
      <4>1. PICK p, q \in Place : MadeFrom(p, q)
        BY <1>2, Zenon DEF IInv
      <4>2. CASE recent = TRUE
        BY <3>1, <4>1, <4>2, Zenon DEF MadeFrom, OddSent, OddFrom
      <4>3. CASE recent = FALSE
        BY <3>1, <4>1, <4>3, Zenon DEF MadeFrom, EvenSent, EvenFrom
      <4>4. recent = TRUE \/ recent = FALSE
        BY <1>2, Zenon DEF IInv
      <4> QED BY <4>2, <4>3, <4>4
    <3>3. answer' = local_decode_with_dlat(sent[recent].msg, receiver', Finer)
      BY <2>4, Zenon DEF Locate, local_decode, local_decode_surface, Finer
    <3>4. Finer' = Finer
      BY <3>1, Zenon DEF Finer
    <3> QED BY <3>1, <3>2, <3>3, <3>4, Zenon DEF LocatedOf
  <2>5. CASE UNCHANGED vars
    <3>1. Finer' = Finer
      BY <2>5, Zenon DEF vars, Finer
    <3> QED BY <1>2, <2>5, <3>1, Zenon DEF vars, LocatedOf
  <2> QED BY <1>2, <2>1, <2>2, <2>3, <2>4, <2>5, Zenon DEF Next
<1> QED BY <1>1, <1>2, Inductive, PTL DEF Spec

\* A position from one report and a receiver less than half a zone away, to the north and to the east, is the
\* exact point of the report, up to whole turns: in the air and on the ground, with any such receiver.
THEOREM LocalRightHolds == Spec => []LocalRight
<1>1. ASSUME IInv, LocatedOf PROVE LocalRight
  <2> SUFFICES ASSUME Position, receiver # Nothing,
                      2 * Finer * LatZones(recent) * North < Grid,
                      2 * ReportedZones(recent, at, Finer) * East < Grid
               PROVE  NamesReport
    BY Zenon DEF LocalRight
  <2>1. /\ sent[recent] = Report(recent, at, Finer) /\ receiver \in Place
        /\ answer = local_decode_with_dlat(sent[recent].msg, receiver, Finer)
    BY <1>1, Zenon DEF LocatedOf, Position, Answered
  <2>2. recent \in BOOLEAN /\ at \in Place
    BY <1>1, Zenon DEF IInv
  <2>3. PICK finer \in {1, 4} : finer = Finer
    BY Zenon DEF Finer
  <2>4. Names(answer, sent[recent])
    BY <2>1, <2>2, <2>3, PlaceParts, LocalDecodes, Zenon DEF North, East
  <2> QED BY <2>4, Zenon DEF Names, NamesReport, WholeTurns
<1> QED BY <1>1, Inductive, LocatedInductive, PTL

=============================================================================
