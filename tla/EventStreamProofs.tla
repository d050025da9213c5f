--------------------------- MODULE EventStreamProofs ---------------------------
(***************************************************************************)
(* Proofs about EventStream: for any clients, filters and sizes of ring,   *)
(* channel and queue, ids ascend at every client, and the feed implements  *)
(* ResumableLog.                                                           *)
(***************************************************************************)
EXTENDS EventStream, WellFoundedInduction, TLAPS

-----------------------------------------------------------------------------
(* The inductive invariant *)

TypeOK ==
  /\ life \in 1 .. MaxLives
  /\ place \in [Icao -> Place]
  /\ log \in Seq(Event) /\ Len(log) <= MaxEvents
  /\ ring \in Seq(Id)
  /\ sent \in Nat
  /\ step \in 1 .. 3
  /\ conn \in [Client -> Connection \cup {None}]
  /\ last \in [Client -> Mark \cup {None}]

(* The newest id in the ring: the decoder's second step is pushing it. *)
Newest == IF step = 2 THEN Len(log) - 1 ELSE Len(log)

(* The decoder's three steps: the ring is never behind the channel, and holds *)
(* the last ids up to its capacity.                                           *)
Publishing ==
  /\ sent = (IF step = 1 THEN Len(log) ELSE Len(log) - 1)
  /\ Len(ring) <= ReplayCapacity
  /\ Len(ring) < ReplayCapacity => Len(ring) = Newest
  /\ \A n \in 1 .. Len(ring) : ring[n] = Newest - Len(ring) + n
  /\ Len(ring) <= Newest

(* The rest is said of a handler's side k and a mark m of client c, where the *)
(* log is l, the channel has s ids and the life is v.                         *)
Known(m, v) == m # None /\ m.life = v

(* Ids ascend from the mark through the queue to what the filter saw last. *)
Ascends(k, m) ==
  /\ k.stage = "subscribed" => k.wire = <<>> /\ k.replay = <<>> /\ k.maxEmitted = 0
  /\ \A i, j \in 1 .. Len(k.wire) : i < j => k.wire[i] < k.wire[j]
  /\ \A i \in 1 .. Len(k.wire) : k.wire[i] <= k.maxEmitted
  /\ m # None =>
       /\ k.stage = "streaming" => m.id <= k.maxEmitted
       /\ \A i \in 1 .. Len(k.wire) : m.id < k.wire[i]

Wanted(c, id, l) == l[id].kind \in Filter[c].kinds /\ l[id].icao \in Filter[c].icaos

(* What a handler holds are ids of this life; only a mark of an earlier life *)
(* is ahead of the log.                                                      *)
InLog(c, k, m, l, s, v) ==
  /\ k.cursor \in 1 .. s + 1
  /\ \A i \in 1 .. Len(k.wire) : k.wire[i] <= Len(l) /\ Wanted(c, k.wire[i], l)
  /\ \A i \in 1 .. Len(k.replay) : k.replay[i] <= Len(l)
  /\ \A i, j \in 1 .. Len(k.replay) : i < j => k.replay[i] < k.replay[j]
  /\ k.maxEmitted <= Len(l) \/ (m # None /\ ~ Known(m, v) /\ k.wire = <<>>)
  /\ m = None => k.replay = <<>> /\ (k.wire = <<>> => k.maxEmitted < k.cursor)

(* The events that a client without an area may miss. *)
Skips(c, j, l) == ~ Wanted(c, j, l) \/ j <= Len(l) - Retained

Holds(s, j) == \E i \in 1 .. Len(s) : s[i] = j

(* Behind the mark or the head of the queue. *)
Behind(k, m, v, j) ==
  \/ Known(m, v) /\ m.id < j
  \/ \E i \in 1 .. Len(k.wire) : k.wire[i] < j

(* What the handler has been through is on its way, or may be missed. *)
PastAccounted(c, k, m, l, v) ==
  \A j \in 1 .. Len(l) :
     j <= k.maxEmitted /\ Behind(k, m, v, j) => Holds(k.wire, j) \/ Skips(c, j, l)

Engaged(k, m) == k.stage = "streaming" /\ (m # None \/ k.wire # <<>>)

(* What lies before the cursor or an entry of the replay. *)
Reached(k, j) == j < k.cursor \/ \E i \in 1 .. Len(k.replay) : j < k.replay[i]

(* What it has before it comes with the replay, unless it may be missed or *)
(* the channel still has it.                                               *)
FutureAccounted(c, k, l) ==
  \A j \in 1 .. Len(l) :
     j > k.maxEmitted /\ Reached(k, j) => Holds(k.replay, j) \/ Skips(c, j, l)

MarkGood(m, l, v) == m # None => m.life <= v /\ (Known(m, v) => m.id <= Len(l))

HandlerGood(c, k, m, l, s, v) ==
  /\ Ascends(k, m)
  /\ InLog(c, k, m, l, s, v)
  /\ ~ Filter[c].area =>
       /\ PastAccounted(c, k, m, l, v)
       /\ Engaged(k, m) => FutureAccounted(c, k, l)

Good(c, k, m, l, s, v) ==
  MarkGood(m, l, v) /\ (k # None => HandlerGood(c, k, m, l, s, v))

IInv ==
  /\ TypeOK
  /\ Publishing
  /\ \A c \in Client : Good(c, conn[c], last[c], log, sent, life)

-----------------------------------------------------------------------------
(* Filtering the ring *)

LEMMA LeastNatural ==
  ASSUME NEW T, T \subseteq Nat, T # {}
  PROVE  \E x \in T : \A y \in T : x <= y
<1> DEFINE R == {p \in Nat \X Nat : p[1] < p[2]}
<1>1. IsWellFoundedOn(R, Nat)
  BY NatLessThanWellFounded DEF OpToRel
<1> HIDE DEF R
<1>2. PICK x \in T : \A y \in T : ~ (<<y, x>> \in R)
  BY <1>1, WFMin
<1>3. \A y \in T : ~ (y < x)
  BY <1>2 DEF R
<1>. QED
  BY <1>3

(* Filtering a run of consecutive ids keeps its end. *)
LEMMA ReplayIs ==
  ASSUME TypeOK, Publishing, NEW id \in Nat
  PROVE  /\ ReplayAfter(id) \in Seq(Id)
         /\ \A i, j \in 1 .. Len(ReplayAfter(id)) : i < j => ReplayAfter(id)[i] < ReplayAfter(id)[j]
         /\ \A j : Holds(ReplayAfter(id), j) <=> Holds(ring, j) /\ j > id
<1> DEFINE L == Len(ring)
           b == Newest - L
           q == IF id <= b THEN 0 ELSE IF id - b >= L THEN L ELSE id - b
           size(n) == IF n <= q THEN 0 ELSE n - q
           g == [n \in 0 .. L |-> [i \in 1 .. size(n) |-> b + q + i]]
           turn(f, n) == IF n = 0 THEN <<>>
                         ELSE IF ring[n] > id THEN Append(f[n - 1], ring[n]) ELSE f[n - 1]
           kept == CHOOSE f : f = [n \in 0 .. L |-> turn(f, n)]
<1>1. L \in Nat /\ b \in Nat /\ q \in 0 .. L /\ \A n \in 1 .. L : ring[n] = b + n /\ b + n \in Id
  BY DEF TypeOK, Publishing, Newest
<1>2. \A n \in 1 .. L : ring[n] > id <=> n > q
  BY <1>1
<1> HIDE DEF b, q, L
<1>3. \A n \in 0 .. L : size(n) \in Nat /\ g[n] \in Seq(Int) /\ Len(g[n]) = size(n)
                       /\ \A i \in 1 .. size(n) : g[n][i] = b + q + i
  BY <1>1
<1>4. \A n \in 0 .. L : g[n] = turn(g, n)
  <2> TAKE n \in 0 .. L
  <2>1. CASE n <= q
    <3>1. g[n] = <<>> /\ (n # 0 => g[n - 1] = <<>>)
      BY <1>1, <1>3, <2>1
    <3>. QED
      BY <1>1, <1>2, <2>1, <3>1
  <2>2. CASE n > q
    <3>1. n - 1 \in 0 .. L /\ size(n) = size(n - 1) + 1 /\ ring[n] = b + q + size(n) /\ n # 0
      BY <1>1, <2>2
    <3> DEFINE s == g[n - 1]
               t == Append(s, ring[n])
    <3>2. s \in Seq(Int) /\ Len(s) = size(n - 1) /\ \A i \in 1 .. size(n - 1) : s[i] = b + q + i
      BY <1>3, <3>1
    <3>3. ring[n] \in Int /\ size(n - 1) \in Nat
      BY <1>1, <1>3, <3>1, <2>2
    <3>4. g[n] \in Seq(Int) /\ Len(g[n]) = size(n) /\ \A i \in 1 .. size(n) : g[n][i] = b + q + i
      BY <1>3
    <3> HIDE DEF s, g, size
    <3>5. t \in Seq(Int) /\ Len(t) = size(n) /\ \A i \in 1 .. size(n) : t[i] = b + q + i
      BY <3>1, <3>2, <3>3
    <3> HIDE DEF t
    <3>6. g[n] = t
      BY <3>4, <3>5
    <3>. QED
      BY <1>1, <1>2, <2>2, <3>1, <3>6 DEF t, s
  <2>3. n <= q \/ n > q
    BY <1>1
  <2> HIDE DEF g, turn
  <2>. QED
    BY <2>1, <2>2, <2>3
<1>5. g = [n \in 0 .. L |-> turn(g, n)]
  <2> DEFINE h == [n \in 0 .. L |-> turn(g, n)]
  <2>1. \A n \in 0 .. L : g[n] = h[n]
    BY <1>4
  <2>. QED
    BY <2>1
<1> HIDE DEF g
<1>6. kept = [n \in 0 .. L |-> turn(kept, n)]
  BY <1>5
<1> HIDE DEF kept
<1>7. \A n \in 0 .. L : kept[n] = turn(kept, n)
  BY <1>6
<1>8. \A n \in 0 .. L : kept[n] = g[n]
  <2> DEFINE wrong == {n \in 0 .. L : kept[n] # g[n]}
  <2>1. SUFFICES ASSUME wrong # {} PROVE FALSE
    OBVIOUS
  <2>2. wrong \subseteq Nat
    BY <1>1
  <2>3. PICK n \in wrong : \A m \in wrong : n <= m
    BY <2>1, <2>2, LeastNatural
  <2>4. n # 0 => n - 1 \in 0 .. L /\ kept[n - 1] = g[n - 1]
    BY <1>1, <2>3
  <2>5. turn(kept, n) = turn(g, n)
    BY <2>4
  <2>. QED
    BY <1>4, <1>7, <2>3, <2>5
<1>9. ReplayAfter(id) = g[L]
  <2>1. ReplayAfter(id) = kept[L]
    BY DEF ReplayAfter, kept, L
  <2>. QED
    BY <1>1, <1>8, <2>1
<1>10. size(L) = L - q
  BY <1>1
<1> HIDE DEF size
<1> DEFINE r == ReplayAfter(id)
<1>11. Len(r) = L - q /\ \A i \in 1 .. L - q : r[i] = b + q + i /\ q + i \in 1 .. L
  <2>1. L \in 0 .. L
    BY <1>1
  <2>2. Len(g[L]) = size(L)
    BY <1>3, <2>1
  <2>3. r = g[L] /\ Len(g[L]) = L - q
    BY <2>1, <2>2, <1>9, <1>10
  <2>4. \A i \in 1 .. L - q : g[L][i] = b + q + i
    BY <1>3, <1>10, <2>1
  <2>. QED
    BY <1>1, <2>3, <2>4
<1>12. r \in Seq(Int)
  BY <1>1, <1>3, <1>9
<1> HIDE DEF r
<1>13. \A i \in 1 .. L - q : r[i] \in Id
  BY <1>1, <1>11
<1>14. r \in Seq(Id)
  BY <1>11, <1>12, <1>13
<1>15. \A i, j \in 1 .. Len(r) : i < j => r[i] < r[j]
  BY <1>1, <1>11
<1>16. ASSUME NEW j, Holds(r, j) PROVE Holds(ring, j) /\ j > id
  <2>1. PICK i \in 1 .. L - q : r[i] = j
    BY <1>11, <1>16 DEF Holds
  <2>2. q + i \in 1 .. L /\ ring[q + i] = j /\ q + i > q
    BY <1>1, <1>11, <2>1
  <2>. QED
    BY <1>2, <2>2 DEF Holds, L
<1>17. ASSUME NEW j, Holds(ring, j), j > id PROVE Holds(r, j)
  <2>1. PICK n \in 1 .. L : ring[n] = j
    BY <1>17 DEF Holds, L
  <2>2. n > q /\ n - q \in 1 .. L - q /\ r[n - q] = j
    BY <1>1, <1>2, <1>11, <1>17, <2>1
  <2>. QED
    BY <1>11, <2>2 DEF Holds
<1>. QED
  BY <1>14, <1>15, <1>16, <1>17 DEF r

-----------------------------------------------------------------------------
(* The decoder's steps *)

LEMMA RetainedSize ==
  Retained \in Nat /\ Retained <= ReplayCapacity /\ Retained <= BroadcastCapacity
BY EventStreamAssumption DEF Retained

LEMMA IdsNat == Id \subseteq Nat \ {0}
BY EventStreamAssumption DEF Id

LEMMA ConnectionParts ==
  ASSUME NEW k \in Connection
  PROVE  /\ k.cursor \in Nat /\ k.maxEmitted \in Nat
         /\ k.stage \in {"subscribed", "streaming"}
         /\ k.wire \in Seq(Id) /\ Len(k.wire) \in Nat
         /\ \A i \in 1 .. Len(k.wire) : k.wire[i] \in Id /\ k.wire[i] \in Nat \ {0}
         /\ k.replay \in Seq(Id) /\ Len(k.replay) \in Nat
         /\ \A i \in 1 .. Len(k.replay) : k.replay[i] \in Id /\ k.replay[i] \in Nat \ {0}
         /\ k # None
<1>1. k # None
  BY EventStreamAssumption
<1>2. /\ k.cursor \in Nat /\ k.maxEmitted \in Nat /\ k.stage \in {"subscribed", "streaming"}
      /\ k.wire \in Seq(Id) /\ k.replay \in Seq(Id)
  BY DEF Connection
<1>3. \A s \in Seq(Id) : Len(s) \in Nat /\ \A i \in 1 .. Len(s) : s[i] \in Id
  OBVIOUS
<1>. QED
  BY <1>1, <1>2, <1>3, IdsNat

LEMMA MarkParts ==
  ASSUME NEW m \in Mark
  PROVE  m.id \in Nat \ {0} /\ m.life \in Nat /\ m # None
<1>1. m # None
  BY EventStreamAssumption
<1>2. m.id \in Id /\ m.life \in Nat
  BY EventStreamAssumption DEF Mark
<1>. QED
  BY <1>1, <1>2, IdsNat

LEMMA InitIInv == Init => IInv
<1> SUFFICES ASSUME Init PROVE IInv
  OBVIOUS
<1>1. TypeOK
  BY EventStreamAssumption DEF Init, TypeOK, Place
<1>2. Publishing
  BY EventStreamAssumption DEF Init, Publishing, Newest
<1>3. \A c \in Client : Good(c, conn[c], last[c], log, sent, life)
  BY DEF Init, Good, MarkGood
<1>. QED
  BY <1>1, <1>2, <1>3 DEF IInv

(* What may be missed may be missed when the log has grown. *)
LEMMA GoodGrows ==
  ASSUME NEW c \in Client, NEW k \in Connection \cup {None}, NEW m \in Mark \cup {None},
         NEW old \in Seq(Event), NEW t \in Nat, NEW v \in Nat, Good(c, k, m, old, t, v),
         t <= Len(old),
         NEW l \in Seq(Event), NEW s \in Nat,
         Len(old) <= Len(l), t <= s, \A i \in 1 .. Len(old) : l[i] = old[i]
  PROVE  Good(c, k, m, l, s, v)
<1>0. Len(old) \in Nat /\ Len(l) \in Nat
  OBVIOUS
<1>1. MarkGood(m, l, v)
  BY <1>0, MarkParts DEF Good, MarkGood
<1>2. ASSUME k # None PROVE HandlerGood(c, k, m, l, s, v)
  <2>0. k \in Connection /\ HandlerGood(c, k, m, old, t, v)
    BY <1>2 DEF Good
  <2>1. InLog(c, k, m, old, t, v)
    BY <2>0 DEF HandlerGood
  <2>2. \A i \in 1 .. Len(old) :
          (Wanted(c, i, l) <=> Wanted(c, i, old)) /\ (Skips(c, i, old) => Skips(c, i, l))
    BY <1>0, RetainedSize DEF Wanted, Skips
  <2>3. InLog(c, k, m, l, s, v)
    <3>1. \A i \in 1 .. Len(k.wire) : k.wire[i] \in 1 .. Len(old) /\ Wanted(c, k.wire[i], old)
      BY <1>0, <2>0, <2>1, ConnectionParts DEF InLog
    <3>2. \A i \in 1 .. Len(k.wire) : k.wire[i] <= Len(l) /\ Wanted(c, k.wire[i], l)
      BY <1>0, <2>2, <3>1
    <3>3. \A i \in 1 .. Len(k.replay) : k.replay[i] <= Len(l)
      BY <1>0, <2>0, <2>1, ConnectionParts DEF InLog
    <3>4. k.cursor \in 1 .. s + 1
      BY <2>1 DEF InLog
    <3>5. k.maxEmitted <= Len(l) \/ (m # None /\ ~ Known(m, v) /\ k.wire = <<>>)
      BY <1>0, <2>0, <2>1, ConnectionParts DEF InLog
    <3>. QED
      BY <2>1, <3>2, <3>3, <3>4, <3>5 DEF InLog
  <2>4. ASSUME ~ Filter[c].area PROVE PastAccounted(c, k, m, l, v)
    <3>1. SUFFICES ASSUME NEW j \in 1 .. Len(l), j <= k.maxEmitted, Behind(k, m, v, j)
                   PROVE  Holds(k.wire, j) \/ Skips(c, j, l)
      BY DEF PastAccounted
    <3>2. k.maxEmitted <= Len(old)
      BY <2>1, <3>1 DEF InLog, Behind
    <3>3. j \in 1 .. Len(old)
      BY <1>0, <2>0, <3>1, <3>2, ConnectionParts
    <3>. QED
      BY <2>0, <2>2, <2>4, <3>1, <3>3 DEF HandlerGood, PastAccounted
  <2>5. ASSUME ~ Filter[c].area, Engaged(k, m) PROVE FutureAccounted(c, k, l)
    <3>1. SUFFICES ASSUME NEW j \in 1 .. Len(l), j > k.maxEmitted, Reached(k, j)
                   PROVE  Holds(k.replay, j) \/ Skips(c, j, l)
      BY DEF FutureAccounted
    <3>2. \A i \in 1 .. Len(k.replay) : k.replay[i] \in Nat /\ k.replay[i] <= Len(old)
      BY <2>0, <2>1, ConnectionParts DEF InLog
    <3>3. k.cursor \in Nat /\ k.cursor <= Len(old) + 1
      BY <1>0, <2>1 DEF InLog
    <3>4. j \in 1 .. Len(old)
      BY <1>0, <3>1, <3>2, <3>3 DEF Reached
    <3>. QED
      BY <2>0, <2>2, <2>5, <3>1, <3>4 DEF HandlerGood, FutureAccounted
  <2>. QED
    BY <2>0, <2>3, <2>4, <2>5 DEF HandlerGood
<1>. QED
  BY <1>1, <1>2 DEF Good

LEMMA TurnIs ==
  ASSUME TypeOK, NEW s, Turn(s)
  PROVE  /\ s = "refresh" => step = 1 /\ step' = 2
         /\ s = "push" => step = 2 /\ step' = 3
         /\ s = "send" => step = 3 /\ step' = 1
BY DEF Turn, Steps, TypeOK

LEMMA DecodeIInv == ASSUME IInv, Decode PROVE IInv'
<1>0. TypeOK /\ Publishing /\ Len(log) \in Nat /\ Len(ring) \in Nat /\ sent <= Len(log) /\ sent \in Nat /\ life \in Nat
  BY DEF IInv, TypeOK, Publishing
<1>1. ASSUME UNCHANGED <<life, conn, last>>,
             NEW l \in Seq(Event), NEW s \in Nat, log' = l, sent' = s,
             Len(log) <= Len(l), sent <= s, \A i \in 1 .. Len(log) : l[i] = log[i]
      PROVE  \A c \in Client : Good(c, conn'[c], last'[c], log', sent', life')
  <2>1. ASSUME NEW c \in Client PROVE Good(c, conn[c], last[c], l, s, life)
    <3>1. conn[c] \in Connection \cup {None} /\ last[c] \in Mark \cup {None} /\ log \in Seq(Event)
      BY <1>0 DEF TypeOK
    <3>2. Good(c, conn[c], last[c], log, sent, life)
      BY DEF IInv
    <3>. QED
      BY <1>0, <1>1, <3>1, <3>2, GoodGrows
  <2>. QED
    BY <1>1, <2>1
<1>2. CASE Refresh
  <2>1. PICK e \in Event, p \in Place :
          place' = [place EXCEPT ![e.icao] = p] /\ log' = Append(log, e)
    BY <1>2 DEF Refresh
  <2> DEFINE l == Append(log, e)
  <2>2. l \in Seq(Event) /\ Len(l) = Len(log) + 1 /\ \A i \in 1 .. Len(log) : l[i] = log[i]
    BY <1>0 DEF TypeOK
  <2>3. step = 1 /\ step' = 2 /\ Len(log) < MaxEvents /\ UNCHANGED <<life, ring, sent, conn, last>>
    BY <1>0, <1>2, TurnIs DEF Refresh
  <2>4. log' = l
    BY <2>1
  <2> HIDE DEF l
  <2>5. TypeOK'
    <3>1. place' \in [Icao -> Place]
      BY <1>0, <2>1 DEF TypeOK
    <3>2. Len(l) <= MaxEvents
      BY <1>0, <2>2, <2>3, EventStreamAssumption
    <3>3. log' \in Seq(Event) /\ Len(log') <= MaxEvents
      BY <2>2, <2>4, <3>2
    <3>4. step' \in 1 .. 3
      BY <2>3
    <3>. QED
      BY <1>0, <2>3, <3>1, <3>3, <3>4 DEF TypeOK
  <2>6. Publishing'
    <3>1. Newest' = Newest
      BY <1>0, <2>2, <2>3, <2>4 DEF Newest
    <3>2. sent' = Len(l) - 1
      BY <1>0, <2>2, <2>3 DEF Publishing
    <3>. QED
      BY <1>0, <2>2, <2>3, <2>4, <3>1, <3>2 DEF Publishing
  <2>7. \A c \in Client : Good(c, conn'[c], last'[c], log', sent', life')
    BY <1>0, <1>1, <2>2, <2>3, <2>4
  <2>. QED
    BY <2>5, <2>6, <2>7 DEF IInv
<1>3. CASE Push
  <2> DEFINE r == Pushed(Len(log))
             k == IF Len(ring) >= ReplayCapacity THEN Tail(ring) ELSE ring
  <2>1. step = 2 /\ step' = 3 /\ ring' = r /\ UNCHANGED <<life, place, log, sent, conn, last>>
    BY <1>0, <1>3, TurnIs DEF Push
  <2>2. sent = Len(log) - 1 /\ Len(log) \in Id /\ Newest = Len(log) - 1 /\ ring \in Seq(Id)
    BY <1>0, <2>1 DEF Publishing, TypeOK, Newest, Id
  <2>3. /\ k \in Seq(Id) /\ Len(k) = (IF Len(ring) >= ReplayCapacity THEN Len(ring) - 1 ELSE Len(ring))
        /\ \A n \in 1 .. Len(k) : k[n] = Newest - Len(k) + n
    <3>1. CASE Len(ring) >= ReplayCapacity
      <4>1. k = Tail(ring) /\ ring # <<>>
        BY <3>1, EventStreamAssumption
      <4>2. Tail(ring) \in Seq(Id) /\ Len(Tail(ring)) = Len(ring) - 1
            /\ \A n \in 1 .. Len(Tail(ring)) : Tail(ring)[n] = ring[n + 1]
        BY <2>2, <4>1
      <4>. QED
        BY <1>0, <2>2, <3>1, <4>1, <4>2 DEF Publishing
    <3>2. CASE ~ (Len(ring) >= ReplayCapacity)
      BY <1>0, <2>2, <3>2 DEF Publishing
    <3>. QED
      BY <3>1, <3>2
  <2> HIDE DEF k
  <2>4. r = Append(k, Len(log))
    BY DEF k, Pushed
  <2>5. r \in Seq(Id) /\ Len(r) = Len(k) + 1 /\ \A n \in 1 .. Len(r) : r[n] = Len(log) - Len(r) + n
    <3>1. k \in Seq(Id) /\ Len(log) \in Id
      BY <2>2, <2>3
    <3>2. /\ Append(k, Len(log)) \in Seq(Id) /\ Len(Append(k, Len(log))) = Len(k) + 1
          /\ \A n \in 1 .. Len(k) + 1 :
               Append(k, Len(log))[n] = IF n <= Len(k) THEN k[n] ELSE Len(log)
      BY <3>1
    <3>3. \A n \in 1 .. Len(k) + 1 :
            (IF n <= Len(k) THEN k[n] ELSE Len(log)) = Len(log) - (Len(k) + 1) + n
      <4>1. Len(k) \in Nat
        BY <3>1
      <4>2. \A n \in 1 .. Len(k) : k[n] = Len(log) - 1 - Len(k) + n
        BY <2>2, <2>3
      <4> DEFINE z == Len(k)
                 d == Len(log)
      <4>3. z \in Nat /\ d \in Nat /\ \A n \in 1 .. z : k[n] = d - 1 - z + n
        BY <1>0, <4>1, <4>2
      <4> HIDE DEF z, d
      <4>4. \A n \in 1 .. z + 1 : (IF n <= z THEN k[n] ELSE d) = d - (z + 1) + n
        BY <4>3
      <4>. QED
        BY <4>4 DEF z, d
    <3>. QED
      BY <2>4, <3>1, <3>2, <3>3
  <2>6. /\ Len(r) <= ReplayCapacity /\ (Len(r) < ReplayCapacity => Len(r) = Len(log))
        /\ Len(r) <= Len(log)
    BY <1>0, <2>2, <2>3, <2>5, EventStreamAssumption DEF Publishing
  <2> HIDE DEF r
  <2>7. TypeOK'
    BY <1>0, <2>1, <2>5 DEF TypeOK
  <2>8. Newest' = Len(log)
    BY <2>1 DEF Newest
  <2>9. Publishing'
    BY <1>0, <2>1, <2>2, <2>5, <2>6, <2>8 DEF Publishing
  <2>10. \A c \in Client : Good(c, conn'[c], last'[c], log', sent', life')
    BY <2>1 DEF IInv
  <2>. QED
    BY <2>7, <2>9, <2>10 DEF IInv
<1>4. CASE Send
  <2>1. step = 3 /\ step' = 1 /\ sent' = Len(log) /\ UNCHANGED <<life, place, log, ring, conn, last>>
    BY <1>0, <1>4, TurnIs DEF Send
  <2>2. TypeOK'
    BY <1>0, <2>1 DEF TypeOK
  <2>3. Newest' = Newest
    BY <1>0, <2>1 DEF Newest
  <2>4. Publishing'
    BY <1>0, <2>1, <2>3 DEF Publishing
  <2>5. \A c \in Client : Good(c, conn'[c], last'[c], log', sent', life')
    BY <1>0, <1>1, <2>1 DEF TypeOK
  <2>. QED
    BY <2>2, <2>4, <2>5 DEF IInv
<1>. QED
  BY <1>2, <1>3, <1>4 DEF Decode

-----------------------------------------------------------------------------
(* The steps of one client *)

LEMMA ClientStep ==
  ASSUME IInv, UNCHANGED server, NEW c \in Client,
         NEW k \in Connection \cup {None}, NEW m \in Mark \cup {None},
         conn' = [conn EXCEPT ![c] = k], last' = [last EXCEPT ![c] = m],
         Good(c, k, m, log, sent, life)
  PROVE  IInv'
<1>1. TypeOK /\ Publishing
  BY DEF IInv
<1>2. TypeOK'
  BY <1>1 DEF TypeOK, server
<1>3. Newest' = Newest
  BY DEF Newest, server
<1>4. Publishing'
  BY <1>1, <1>3 DEF Publishing, server
<1>5. ASSUME NEW d \in Client PROVE Good(d, conn'[d], last'[d], log, sent, life)
  <2>1. CASE d = c
    BY <1>1, <2>1 DEF TypeOK
  <2>2. CASE d # c
    BY <1>1, <2>2 DEF TypeOK, IInv
  <2>. QED
    BY <2>1, <2>2
<1>6. \A d \in Client : Good(d, conn'[d], last'[d], log', sent', life')
  BY <1>5 DEF server
<1>. QED
  BY <1>2, <1>4, <1>6 DEF IInv

LEMMA ConnectIInv == ASSUME IInv, NEW c \in Client, Connect(c) PROVE IInv'
<1> DEFINE k == [stage |-> "subscribed", cursor |-> sent + 1, replay |-> <<>>,
                 maxEmitted |-> 0, wire |-> <<>>]
           m == last[c]
<1>1. TypeOK /\ Good(c, conn[c], m, log, sent, life)
  BY DEF IInv
<1>2. sent \in Nat /\ m \in Mark \cup {None} /\ Len(log) \in Nat
  BY <1>1 DEF TypeOK
<1>3. k \in Connection
  BY <1>2 DEF Connection
<1>4. conn' = [conn EXCEPT ![c] = k] /\ last' = [last EXCEPT ![c] = m] /\ UNCHANGED server
  BY <1>1 DEF Connect, TypeOK
<1>5. /\ k.stage = "subscribed" /\ k.cursor = sent + 1 /\ k.replay = <<>> /\ k.maxEmitted = 0
      /\ k.wire = <<>>
  OBVIOUS
<1> HIDE DEF k
<1>6. Ascends(k, m)
  BY <1>5 DEF Ascends
<1>7. InLog(c, k, m, log, sent, life)
  BY <1>2, <1>5 DEF InLog
<1>8. PastAccounted(c, k, m, log, life)
  BY <1>2, <1>5 DEF PastAccounted
<1>9. ~ Engaged(k, m)
  BY <1>5 DEF Engaged
<1>10. Good(c, k, m, log, sent, life)
  BY <1>1, <1>6, <1>7, <1>8, <1>9 DEF Good, HandlerGood
<1>. QED
  BY <1>2, <1>3, <1>4, <1>10, ClientStep

(* The copy of the ring, as a value of the connection. *)
LEMMA CopyRingIInv == ASSUME IInv, NEW c \in Client, CopyRing(c) PROVE IInv'
<1> DEFINE o == conn[c]
           m == last[c]
           r == IF m = None THEN <<>> ELSE ReplayAfter(m.id)
           e == IF m = None THEN 0 ELSE m.id
           k == [o EXCEPT !.stage = "streaming", !.replay = r, !.maxEmitted = e]
<1>1. TypeOK /\ Publishing /\ Good(c, o, m, log, sent, life) /\ o # None /\ o.stage = "subscribed"
  BY DEF IInv, CopyRing
<1>2. /\ sent \in Nat /\ m \in Mark \cup {None} /\ Len(log) \in Nat /\ o \in Connection
      /\ Len(ring) \in Nat /\ Newest \in Nat /\ Newest <= Len(log) /\ sent <= Newest
  BY <1>1 DEF TypeOK, Publishing, Newest
<1>3. /\ r \in Seq(Id) /\ e \in Nat
      /\ \A i, j \in 1 .. Len(r) : i < j => r[i] < r[j]
      /\ m # None => \A j : Holds(r, j) <=> Holds(ring, j) /\ j > e
  <2>1. CASE m = None
    BY <2>1
  <2>2. CASE m # None
    <3>1. m.id \in Nat
      BY <1>2, <2>2, MarkParts
    <3>. QED
      BY <1>1, <2>2, <3>1, ReplayIs
  <2>. QED
    BY <2>1, <2>2
<1>4. conn' = [conn EXCEPT ![c] = k] /\ last' = [last EXCEPT ![c] = m] /\ UNCHANGED server
  BY <1>1 DEF CopyRing, TypeOK
<1>5. m = None => r = <<>> /\ e = 0
  OBVIOUS
<1>6. m # None => e = m.id
  OBVIOUS
<1> HIDE DEF r, e
<1>7. /\ k \in Connection /\ k.stage = "streaming" /\ k.cursor = o.cursor /\ k.replay = r
      /\ k.maxEmitted = e /\ k.wire = o.wire
  BY <1>2, <1>3 DEF Connection
<1>8. o.wire = <<>> /\ o.cursor \in 1 .. sent + 1
  BY <1>1 DEF Good, HandlerGood, Ascends, InLog
<1> HIDE DEF k, o
<1>9. \A n \in 1 .. Len(ring) : ring[n] \in 1 .. Newest
  BY <1>1, <1>2 DEF Publishing
<1>10. \A i \in 1 .. Len(r) : r[i] \in 1 .. Newest
  BY <1>3, <1>5, <1>9 DEF Holds
<1>11. Ascends(k, m)
  BY <1>6, <1>7, <1>8, <1>2, MarkParts DEF Ascends
<1>12. InLog(c, k, m, log, sent, life)
  <2>1. \A i \in 1 .. Len(r) : r[i] <= Len(log)
    BY <1>2, <1>10
  <2>2. e <= Len(log) \/ (m # None /\ ~ Known(m, life))
    BY <1>1, <1>2, <1>5, <1>6 DEF Good, MarkGood
  <2>3. m = None => r = <<>> /\ e < o.cursor
    BY <1>2, <1>5, <1>8
  <2>. QED
    BY <1>3, <1>7, <1>8, <2>1, <2>2, <2>3 DEF InLog
<1>13. PastAccounted(c, k, m, log, life)
  <2>1. SUFFICES ASSUME NEW j \in 1 .. Len(log), j <= k.maxEmitted, Behind(k, m, life, j) PROVE FALSE
    BY DEF PastAccounted
  <2>2. m # None /\ m.id < j
    BY <1>7, <1>8, <2>1 DEF Behind, Known
  <2>. QED
    BY <1>2, <1>3, <1>6, <1>7, <2>1, <2>2, MarkParts
<1>14. ASSUME Engaged(k, m) PROVE FutureAccounted(c, k, log)
  <2>1. m # None
    BY <1>7, <1>8, <1>14 DEF Engaged
  <2>2. SUFFICES ASSUME NEW j \in 1 .. Len(log), j > k.maxEmitted, Reached(k, j), ~ Holds(k.replay, j)
                 PROVE  Skips(c, j, log)
    BY DEF FutureAccounted
  <2>3. j <= Newest
    <3>1. CASE j < k.cursor
      BY <1>2, <1>7, <1>8, <3>1
    <3>2. ASSUME NEW i \in 1 .. Len(r), j < r[i] PROVE j <= Newest
      BY <1>2, <1>10, <3>2
    <3>. QED
      BY <1>7, <2>2, <3>1, <3>2 DEF Reached
  <2>4. ~ Holds(ring, j)
    BY <1>3, <1>7, <2>1, <2>2
  <2>5. j <= Newest - Len(ring)
    <3>1. SUFFICES ASSUME j > Newest - Len(ring) PROVE FALSE
      BY <1>2
    <3>2. j - (Newest - Len(ring)) \in 1 .. Len(ring)
      BY <1>2, <2>3, <3>1
    <3>3. ring[j - (Newest - Len(ring))] = j
      BY <1>1, <1>2, <3>2 DEF Publishing
    <3>. QED
      BY <2>4, <3>2, <3>3 DEF Holds
  <2>6. Len(ring) = ReplayCapacity
    BY <1>1, <1>2, <2>5, EventStreamAssumption DEF Publishing
  <2>. QED
    BY <1>2, <2>5, <2>6, RetainedSize, EventStreamAssumption DEF Skips
<1>15. Good(c, k, m, log, sent, life)
  BY <1>1, <1>11, <1>12, <1>13, <1>14 DEF Good, HandlerGood
<1>. QED
  BY <1>2, <1>4, <1>7, <1>15, ClientStep

(* The connection o after its filter took id, the replay or the cursor having *)
(* moved to n first; ok says whether the filters let the event through.       *)
Filtered(o, n, id, ok) ==
  IF id <= o.maxEmitted THEN n
  ELSE IF ok THEN [n EXCEPT !.maxEmitted = id, !.wire = Append(@, id)]
       ELSE [n EXCEPT !.maxEmitted = id]

(* The move from o to n leaves id behind and nothing else. *)
Moved(o, n, id, m) ==
  /\ n.stage = o.stage /\ n.maxEmitted = o.maxEmitted /\ n.wire = o.wire
  /\ \A j \in Nat : j < id => Reached(o, j) /\ ~ Holds(o.replay, j)
  /\ \A j \in Nat : Reached(n, j) => Reached(o, j) \/ j <= id
  /\ \A j \in Nat : Holds(o.replay, j) => Holds(n.replay, j) \/ j = id
  /\ m = None => n.replay = <<>> /\ n.cursor = id + 1

LEMMA FilteredGood ==
  ASSUME NEW c \in Client, NEW o \in Connection, NEW n \in Connection, NEW m \in Mark \cup {None},
         NEW l \in Seq(Event), NEW s \in Nat, NEW v \in Nat,
         NEW id \in Id, id <= Len(l), NEW ok \in BOOLEAN,
         Good(c, o, m, l, s, v), o.stage = "streaming", Moved(o, n, id, m),
         InLog(c, n, m, l, s, v),
         ok => Wanted(c, id, l), ~ ok /\ ~ Filter[c].area => ~ Wanted(c, id, l)
  PROVE  Good(c, Filtered(o, n, id, ok), m, l, s, v)
<1>1. o # None /\ MarkGood(m, l, v) /\ HandlerGood(c, o, m, l, s, v)
  BY ConnectionParts DEF Good
<1>2. Ascends(o, m) /\ InLog(c, o, m, l, s, v)
  BY <1>1 DEF HandlerGood
<1>3. id \in Nat \ {0} /\ Len(l) \in Nat
  BY IdsNat
<1>4. n.stage = "streaming" /\ n.maxEmitted = o.maxEmitted /\ n.wire = o.wire
  BY DEF Moved
<1>5. Ascends(n, m)
  BY <1>2, <1>4 DEF Ascends
<1>6. \A j : Behind(n, m, v, j) <=> Behind(o, m, v, j)
  BY <1>4 DEF Behind
<1>7. Engaged(n, m) <=> Engaged(o, m)
  BY <1>4 DEF Engaged
(* Between what the filter saw last and id there is only what may be missed. *)
<1>8. ASSUME ~ Filter[c].area, Engaged(o, m), NEW j \in 1 .. Len(l), j > o.maxEmitted, j < id
      PROVE  Skips(c, j, l)
  BY <1>1, <1>8 DEF Moved, HandlerGood, FutureAccounted
<1>9. ASSUME ~ Filter[c].area, Engaged(o, m), NEW j \in 1 .. Len(l), j > o.maxEmitted, j > id,
             Reached(n, j)
      PROVE  Holds(n.replay, j) \/ Skips(c, j, l)
  <2>1. Reached(o, j)
    BY <1>3, <1>9 DEF Moved
  <2>2. Holds(o.replay, j) \/ Skips(c, j, l)
    BY <1>1, <1>9, <2>1 DEF HandlerGood, FutureAccounted
  <2>. QED
    BY <1>3, <1>9, <2>2 DEF Moved
<1>10. CASE id <= o.maxEmitted
  <2>1. Filtered(o, n, id, ok) = n
    BY <1>10 DEF Filtered
  <2>2. ~ Filter[c].area => PastAccounted(c, n, m, l, v)
    BY <1>1, <1>4, <1>6 DEF HandlerGood, PastAccounted
  <2>3. ASSUME ~ Filter[c].area, Engaged(n, m) PROVE FutureAccounted(c, n, l)
    <3>1. SUFFICES ASSUME NEW j \in 1 .. Len(l), j > n.maxEmitted, Reached(n, j)
                   PROVE  Holds(n.replay, j) \/ Skips(c, j, l)
      BY DEF FutureAccounted
    <3>2. j > o.maxEmitted /\ j > id
      BY <1>3, <1>4, <1>10, <3>1, ConnectionParts
    <3>. QED
      BY <1>7, <1>9, <2>3, <3>1, <3>2
  <2>4. HandlerGood(c, n, m, l, s, v)
    BY <1>5, <2>2, <2>3 DEF HandlerGood
  <2>. QED
    BY <1>1, <2>1, <2>4 DEF Good
<1>11. CASE id > o.maxEmitted
  <2> DEFINE k == Filtered(o, n, id, ok)
             w == IF ok THEN Append(n.wire, id) ELSE n.wire
  <2>1. w \in Seq(Id) /\ n.wire \in Seq(Id) /\ o.maxEmitted \in Nat /\ n.cursor \in Nat
    BY ConnectionParts
  <2>2. k = [n EXCEPT !.maxEmitted = id, !.wire = w]
    <3>1. ~ ok => [n EXCEPT !.maxEmitted = id, !.wire = w] = [n EXCEPT !.maxEmitted = id]
      BY DEF Connection
    <3>2. ~ (id <= o.maxEmitted)
      BY <1>3, <1>11, <2>1
    <3>3. CASE ok
      BY <3>2, <3>3 DEF Filtered
    <3>4. CASE ~ ok
      BY <3>1, <3>2, <3>4, Zenon DEF Filtered
    <3>. QED
      BY <3>3, <3>4
  <2>3. /\ k.maxEmitted = id /\ k.wire = w /\ k.stage = "streaming" /\ k.cursor = n.cursor
        /\ k.replay = n.replay
    BY <1>4, <2>2 DEF Connection
  <2>4. /\ Len(w) = (IF ok THEN Len(n.wire) + 1 ELSE Len(n.wire)) /\ Len(n.wire) \in Nat
        /\ \A i \in 1 .. Len(n.wire) : w[i] = n.wire[i] /\ n.wire[i] \in Nat
        /\ ok => w[Len(n.wire) + 1] = id
    BY <2>1, ConnectionParts
  <2> HIDE DEF k, w
  (* An entry of the new queue is one of the old queue, or id at its end. *)
  <2>5. \A i \in 1 .. Len(w) :
          \/ i \in 1 .. Len(n.wire) /\ w[i] = n.wire[i]
          \/ i = Len(n.wire) + 1 /\ w[i] = id /\ ok
    BY <2>4
  <2>6. \A i \in 1 .. Len(n.wire) : n.wire[i] < id
    BY <1>2, <1>3, <1>4, <1>11, <2>1, <2>4 DEF Ascends
  <2>7. Ascends(k, m)
    <3>1. \A i, j \in 1 .. Len(w) : i < j => w[i] < w[j]
      <4> SUFFICES ASSUME NEW i \in 1 .. Len(w), NEW j \in 1 .. Len(w), i < j PROVE w[i] < w[j]
        OBVIOUS
      <4>1. i \in 1 .. Len(n.wire) /\ w[i] = n.wire[i]
        BY <2>4, <2>5
      <4>2. CASE j \in 1 .. Len(n.wire) /\ w[j] = n.wire[j]
        BY <1>2, <1>4, <4>1, <4>2 DEF Ascends
      <4>3. CASE w[j] = id
        BY <2>6, <4>1, <4>3
      <4>. QED
        BY <2>5, <4>2, <4>3
    <3>2. \A i \in 1 .. Len(w) : w[i] <= id
      BY <1>3, <2>4, <2>5, <2>6
    <3>3. ASSUME m # None PROVE m.id < id
      BY <1>2, <1>3, <1>4, <1>11, <2>1, <3>3, MarkParts, IdsNat DEF Ascends
    <3>4. ASSUME m # None, NEW i \in 1 .. Len(w) PROVE m.id < w[i]
      BY <1>2, <1>4, <2>5, <3>3, <3>4 DEF Ascends
    <3>5. m # None => m.id <= id
      BY <1>3, <3>3, MarkParts
    <3>. QED
      BY <2>3, <3>1, <3>2, <3>4, <3>5 DEF Ascends
  <2>8. InLog(c, k, m, l, s, v)
    <3>1. \A i \in 1 .. Len(w) : w[i] <= Len(l) /\ Wanted(c, w[i], l)
      BY <1>2, <1>4, <2>5 DEF InLog
    <3>2. m = None => id < n.cursor
      BY <1>3, <2>1 DEF Moved
    <3>. QED
      BY <2>3, <3>1, <3>2 DEF InLog
  <2>9. ASSUME ~ Filter[c].area PROVE PastAccounted(c, k, m, l, v)
    <3>1. SUFFICES ASSUME NEW j \in 1 .. Len(l), j <= id, Behind(k, m, v, j)
                   PROVE  Holds(w, j) \/ Skips(c, j, l)
      BY <2>3 DEF PastAccounted
    <3>2. CASE j = id
      <4>1. CASE ok
        BY <2>4, <3>2, <4>1 DEF Holds
      <4>2. CASE ~ ok
        BY <2>9, <3>2, <4>2 DEF Skips
      <4>. QED
        BY <4>1, <4>2
    <3>3. CASE j < id
      <4>1. Behind(o, m, v, j)
        <5>1. CASE Known(m, v) /\ m.id < j
          BY <5>1 DEF Behind
        <5>2. ASSUME NEW i \in 1 .. Len(w), w[i] < j PROVE Behind(o, m, v, j)
          <6>1. i \in 1 .. Len(n.wire) /\ n.wire[i] < j
            BY <1>3, <2>5, <3>3, <5>2
          <6>. QED
            BY <1>4, <6>1 DEF Behind
        <5>. QED
          BY <2>3, <3>1, <5>1, <5>2 DEF Behind
      <4>2. CASE j <= o.maxEmitted
        <5>1. Holds(n.wire, j) \/ Skips(c, j, l)
          BY <1>1, <1>4, <2>9, <4>1, <4>2 DEF HandlerGood, PastAccounted
        <5>2. Holds(n.wire, j) => Holds(w, j)
          BY <2>4 DEF Holds
        <5>. QED
          BY <5>1, <5>2
      <4>3. CASE j > o.maxEmitted
        <5>1. Engaged(o, m)
          BY <4>1 DEF Engaged, Behind, Known
        <5>. QED
          BY <1>8, <2>9, <3>3, <4>3, <5>1
      <4>. QED
        BY <2>1, <4>2, <4>3
    <3>. QED
      BY <1>3, <3>1, <3>2, <3>3
  <2>10. ASSUME ~ Filter[c].area, Engaged(k, m) PROVE FutureAccounted(c, k, l)
    <3>1. SUFFICES ASSUME NEW j \in 1 .. Len(l), j > id, Reached(n, j)
                   PROVE  Holds(n.replay, j) \/ Skips(c, j, l)
      BY <2>3 DEF FutureAccounted, Reached
    <3>2. CASE Engaged(o, m)
      BY <1>3, <1>9, <1>11, <2>1, <2>10, <3>1, <3>2
    <3>3. CASE ~ Engaged(o, m)
      <4>1. m = None
        BY <3>3 DEF Engaged
      <4>2. n.replay = <<>> /\ n.cursor = id + 1
        BY <4>1 DEF Moved
      <4>. QED
        BY <1>3, <3>1, <4>2 DEF Reached
    <3>. QED
      BY <3>2, <3>3
  <2>11. HandlerGood(c, k, m, l, s, v)
    BY <2>7, <2>8, <2>9, <2>10 DEF HandlerGood
  <2>. QED
    BY <1>1, <2>11 DEF Good, k
<1>. QED
  BY <1>3, <1>10, <1>11, ConnectionParts

LEMMA FilteredTyped ==
  ASSUME NEW o \in Connection, NEW n \in Connection, NEW id \in Id, NEW ok
  PROVE  Filtered(o, n, id, ok) \in Connection
<1>1. id \in Nat /\ Append(n.wire, id) \in Seq(Id)
  BY IdsNat, ConnectionParts
<1>2. [n EXCEPT !.maxEmitted = id] \in Connection
  BY <1>1 DEF Connection
<1>3. [n EXCEPT !.maxEmitted = id, !.wire = Append(n.wire, id)] \in Connection
  BY <1>1 DEF Connection
<1>. QED
  BY <1>2, <1>3, Zenon DEF Filtered

LEMMA TakenIs ==
  ASSUME NEW c, NEW n, NEW id
  PROVE  Taken(c, n, id) = Filtered(conn[c], n, id, Passes(c, log[id]))
BY DEF Taken, Filtered, Seen

LEMMA PassesIs ==
  ASSUME NEW c \in Client, NEW id
  PROVE  /\ Passes(c, log[id]) \in BOOLEAN
         /\ Passes(c, log[id]) => Wanted(c, id, log)
         /\ ~ Passes(c, log[id]) /\ ~ Filter[c].area => ~ Wanted(c, id, log)
BY DEF Passes, Wanted

(* The step of a handler whose filter took id. *)
LEMMA TakeIInv ==
  ASSUME IInv, UNCHANGED <<server, last>>, NEW c \in Client, Ready(c),
         NEW n \in Connection, NEW id \in Id, id <= Len(log),
         Moved(conn[c], n, id, last[c]), InLog(c, n, last[c], log, sent, life),
         conn' = [conn EXCEPT ![c] = Taken(c, n, id)]
  PROVE  IInv'
<1> DEFINE o == conn[c]
           m == last[c]
           ok == Passes(c, log[id])
           k == Filtered(o, n, id, ok)
<1>1. /\ o \in Connection /\ o.stage = "streaming" /\ m \in Mark \cup {None} /\ log \in Seq(Event)
      /\ sent \in Nat /\ life \in Nat /\ last' = [last EXCEPT ![c] = m] /\ UNCHANGED server
  BY DEF IInv, TypeOK, Ready
<1>2. Good(c, o, m, log, sent, life)
  BY DEF IInv
<1>3. k \in Connection
  BY <1>1, FilteredTyped
<1>4. conn' = [conn EXCEPT ![c] = k]
  BY TakenIs
<1>5. Good(c, k, m, log, sent, life)
  BY <1>1, <1>2, PassesIs, FilteredGood
<1> HIDE DEF k, m
<1>. QED
  BY <1>1, <1>3, <1>4, <1>5, ClientStep

(* What the head of the replay is, and the connection without it. *)
LEMMA ReplayMoves ==
  ASSUME IInv, NEW c \in Client, ForwardReplay(c)
  PROVE  LET n == [conn[c] EXCEPT !.replay = Tail(@)]
             id == Head(conn[c].replay)
         IN  /\ n \in Connection /\ id \in Id /\ id <= Len(log)
             /\ Moved(conn[c], n, id, last[c]) /\ InLog(c, n, last[c], log, sent, life)
<1> DEFINE o == conn[c]
           m == last[c]
           id == Head(o.replay)
           t == Tail(o.replay)
           n == [o EXCEPT !.replay = t]
<1>1. o \in Connection /\ o # None /\ o.replay # <<>>
  BY DEF IInv, TypeOK, ForwardReplay, Ready
<1>2. HandlerGood(c, o, m, log, sent, life)
  BY <1>1 DEF IInv, Good
<1>3. InLog(c, o, m, log, sent, life)
  BY <1>2 DEF HandlerGood
<1> HIDE DEF o, m
<1>4. /\ t \in Seq(Id) /\ Len(t) = Len(o.replay) - 1 /\ \A i \in 1 .. Len(t) : t[i] = o.replay[i + 1]
      /\ id = o.replay[1] /\ Len(o.replay) \in Nat \ {0} /\ 1 \in 1 .. Len(o.replay)
  BY <1>1, ConnectionParts
<1> HIDE DEF t, id
<1>5. id \in Id /\ id \in Nat /\ id <= Len(log)
  BY <1>1, <1>3, <1>4, ConnectionParts DEF InLog
<1>6. /\ n \in Connection /\ n.replay = t /\ n.stage = o.stage /\ n.cursor = o.cursor
      /\ n.wire = o.wire /\ n.maxEmitted = o.maxEmitted
  BY <1>1, <1>4 DEF Connection
<1> HIDE DEF n
<1>7. m # None
  BY <1>1, <1>3 DEF InLog
<1>8. Moved(o, n, id, m)
  <2>1. ASSUME NEW j \in Nat, j < id PROVE Reached(o, j) /\ ~ Holds(o.replay, j)
    <3>1. Reached(o, j)
      BY <1>4, <2>1 DEF Reached
    <3>2. ASSUME NEW i \in 1 .. Len(o.replay), o.replay[i] = j PROVE FALSE
      <4>1. CASE i = 1
        BY <1>4, <1>5, <2>1, <3>2, <4>1
      <4>2. CASE 1 < i
        <5>1. o.replay[1] < o.replay[i]
          BY <1>3, <1>4, <4>2 DEF InLog
        <5>. QED
          BY <1>4, <1>5, <2>1, <3>2, <5>1
      <4>. QED
        BY <1>4, <4>1, <4>2
    <3>. QED
      BY <3>1, <3>2 DEF Holds
  <2>2. ASSUME NEW j \in Nat, Reached(n, j) PROVE Reached(o, j)
    BY <1>4, <1>6, <2>2 DEF Reached
  <2>3. ASSUME NEW j \in Nat, Holds(o.replay, j), j # id PROVE Holds(n.replay, j)
    <3>1. PICK i \in 1 .. Len(o.replay) : o.replay[i] = j
      BY <2>3 DEF Holds
    <3>2. i - 1 \in 1 .. Len(t) /\ t[i - 1] = j
      BY <1>4, <2>3, <3>1
    <3>. QED
      BY <1>6, <3>2 DEF Holds
  <2>. QED
    BY <1>6, <1>7, <2>1, <2>2, <2>3 DEF Moved
<1>9. InLog(c, n, m, log, sent, life)
  <2>1. \A i \in 1 .. Len(t) : t[i] <= Len(log)
    BY <1>3, <1>4 DEF InLog
  <2>2. \A i, j \in 1 .. Len(t) : i < j => t[i] < t[j]
    BY <1>3, <1>4 DEF InLog
  <2>. QED
    BY <1>3, <1>6, <1>7, <2>1, <2>2 DEF InLog
<1>. QED
  BY <1>5, <1>6, <1>8, <1>9 DEF o, m, id, n, t

LEMMA ForwardReplayIInv == ASSUME IInv, NEW c \in Client, ForwardReplay(c) PROVE IInv'
<1> DEFINE n == [conn[c] EXCEPT !.replay = Tail(@)]
           id == Head(conn[c].replay)
<1>1. /\ n \in Connection /\ id \in Id /\ id <= Len(log)
      /\ Moved(conn[c], n, id, last[c]) /\ InLog(c, n, last[c], log, sent, life)
  BY ReplayMoves
<1>2. Ready(c) /\ conn' = [conn EXCEPT ![c] = Taken(c, n, id)] /\ UNCHANGED <<server, last>>
  BY DEF ForwardReplay
<1> HIDE DEF n, id
<1>. QED
  BY <1>1, <1>2, TakeIInv

LEMMA LiveMoves ==
  ASSUME IInv, NEW c \in Client, ForwardLive(c)
  PROVE  LET n == [conn[c] EXCEPT !.cursor = @ + 1]
             id == conn[c].cursor
         IN  /\ n \in Connection /\ id \in Id /\ id <= Len(log)
             /\ Moved(conn[c], n, id, last[c]) /\ InLog(c, n, last[c], log, sent, life)
<1> DEFINE o == conn[c]
           m == last[c]
           id == o.cursor
           n == [o EXCEPT !.cursor = id + 1]
<1>1. o \in Connection /\ o # None /\ o.replay = <<>> /\ id \in Oldest .. sent
  BY DEF IInv, TypeOK, ForwardLive, Ready
<1>2. HandlerGood(c, o, m, log, sent, life)
  BY <1>1 DEF IInv, Good
<1>3. InLog(c, o, m, log, sent, life)
  BY <1>2 DEF HandlerGood
<1>4. sent \in Nat /\ sent <= Len(log) /\ Len(log) \in Nat /\ Len(log) <= MaxEvents
  BY DEF IInv, TypeOK, Publishing
<1> HIDE DEF o, m
<1>5. id \in Nat \ {0} /\ id <= sent
  BY <1>1, <1>3, <1>4 DEF InLog, Oldest
<1> HIDE DEF id
<1>6. id \in Id /\ id <= Len(log)
  BY <1>4, <1>5, EventStreamAssumption DEF Id
<1>7. /\ n \in Connection /\ n.replay = o.replay /\ n.stage = o.stage /\ n.cursor = id + 1
      /\ n.wire = o.wire /\ n.maxEmitted = o.maxEmitted
  BY <1>1, <1>5 DEF Connection
<1> HIDE DEF n
<1>8. Moved(o, n, id, m)
  BY <1>1, <1>5, <1>7 DEF Moved, Reached, Holds, id
<1>9. InLog(c, n, m, log, sent, life)
  <2>1. id + 1 \in 1 .. sent + 1
    BY <1>4, <1>5
  <2>2. m = None => n.replay = <<>> /\ (n.wire = <<>> => n.maxEmitted < n.cursor)
    BY <1>1, <1>3, <1>5, <1>7, ConnectionParts DEF InLog, id
  <2>. QED
    BY <1>3, <1>7, <2>1, <2>2 DEF InLog
<1>. QED
  BY <1>6, <1>7, <1>8, <1>9 DEF o, m, id, n

LEMMA ForwardLiveIInv == ASSUME IInv, NEW c \in Client, ForwardLive(c) PROVE IInv'
<1> DEFINE n == [conn[c] EXCEPT !.cursor = @ + 1]
           id == conn[c].cursor
<1>1. /\ n \in Connection /\ id \in Id /\ id <= Len(log)
      /\ Moved(conn[c], n, id, last[c]) /\ InLog(c, n, last[c], log, sent, life)
  BY LiveMoves
<1>2. Ready(c) /\ conn' = [conn EXCEPT ![c] = Taken(c, n, id)] /\ UNCHANGED <<server, last>>
  BY DEF ForwardLive
<1> HIDE DEF n, id
<1>. QED
  BY <1>1, <1>2, TakeIInv

(* What a receiver that was overtaken passes over is out of the window. *)
LEMMA LagPassesOld ==
  ASSUME IInv, NEW c \in Client, Lag(c)
  PROVE  /\ Oldest \in 1 .. sent + 1
         /\ \A j \in Nat : j < Oldest => j <= Len(log) - Retained
<1>1. TypeOK /\ Publishing /\ Len(log) \in Nat /\ sent \in Nat /\ sent <= Len(log)
  BY DEF IInv, TypeOK, Publishing
<1>2. conn[c].cursor \in Nat /\ conn[c].cursor < Oldest /\ conn[c].cursor # 0
  <2>1. conn[c] \in Connection /\ InLog(c, conn[c], last[c], log, sent, life)
    BY <1>1 DEF IInv, TypeOK, Good, HandlerGood, Lag, Ready
  <2>. QED
    BY <1>1, <2>1, ConnectionParts DEF Lag, InLog
<1>3. Oldest = sent - BroadcastCapacity + 1 /\ sent > BroadcastCapacity
  BY <1>2 DEF Oldest
<1>. QED
  BY <1>1, <1>3, RetainedSize, EventStreamAssumption

LEMMA LagIInv == ASSUME IInv, NEW c \in Client, Lag(c) PROVE IInv'
<1> DEFINE o == conn[c]
           m == last[c]
           k == [o EXCEPT !.cursor = Oldest]
<1>1. TypeOK /\ Good(c, o, m, log, sent, life) /\ o # None /\ o \in Connection /\ o.cursor < Oldest
  BY DEF IInv, TypeOK, Lag, Ready
<1>2. m \in Mark \cup {None} /\ sent \in Nat /\ Len(log) \in Nat
  BY <1>1 DEF TypeOK
<1>3. Oldest \in 1 .. sent + 1 /\ \A j \in Nat : j < Oldest => j <= Len(log) - Retained
  BY LagPassesOld
<1>4. conn' = [conn EXCEPT ![c] = k] /\ last' = [last EXCEPT ![c] = m] /\ UNCHANGED server
  BY <1>1 DEF Lag, TypeOK
<1> HIDE DEF o, m
<1>5. Oldest \in Nat
  BY <1>2, <1>3
<1>6. /\ k \in Connection /\ k.replay = o.replay /\ k.stage = o.stage /\ k.cursor = Oldest
      /\ k.wire = o.wire /\ k.maxEmitted = o.maxEmitted
  BY <1>1, <1>5 DEF Connection
<1> HIDE DEF k
<1>7. HandlerGood(c, o, m, log, sent, life)
  BY <1>1 DEF Good
<1>8. Ascends(k, m)
  BY <1>6, <1>7 DEF HandlerGood, Ascends
<1>9. InLog(c, k, m, log, sent, life)
  <2>1. m = None => k.replay = <<>> /\ (k.wire = <<>> => k.maxEmitted < Oldest)
    BY <1>1, <1>5, <1>6, <1>7, ConnectionParts DEF HandlerGood, InLog
  <2>. QED
    BY <1>3, <1>6, <1>7, <2>1 DEF HandlerGood, InLog
<1>10. ~ Filter[c].area => PastAccounted(c, k, m, log, life)
  BY <1>6, <1>7 DEF HandlerGood, PastAccounted, Behind
<1>11. ASSUME ~ Filter[c].area, Engaged(k, m) PROVE FutureAccounted(c, k, log)
  <2>1. FutureAccounted(c, o, log)
    BY <1>6, <1>7, <1>11 DEF HandlerGood, Engaged
  <2>2. SUFFICES ASSUME NEW j \in 1 .. Len(log), j > k.maxEmitted, Reached(k, j)
                 PROVE  Holds(k.replay, j) \/ Skips(c, j, log)
    BY DEF FutureAccounted
  <2>3. CASE j < Oldest
    BY <1>3, <2>3 DEF Skips
  <2>4. CASE ~ (j < Oldest)
    BY <1>6, <2>1, <2>2, <2>4 DEF FutureAccounted, Reached
  <2>. QED
    BY <2>3, <2>4
<1>12. Good(c, k, m, log, sent, life)
  BY <1>1, <1>8, <1>9, <1>10, <1>11 DEF Good, HandlerGood
<1>. QED
  BY <1>2, <1>4, <1>6, <1>12, ClientStep

(* The client's mark moves to the head of the queue. *)
LEMMA ReceiveIInv == ASSUME IInv, NEW c \in Client, Receive(c) PROVE IInv'
<1> DEFINE o == conn[c]
           p == last[c]
           h == Head(o.wire)
           t == Tail(o.wire)
           m == [life |-> life, id |-> h]
           k == [o EXCEPT !.wire = t]
<1>1. TypeOK /\ Good(c, o, p, log, sent, life) /\ o # None /\ o \in Connection /\ o.wire # <<>>
  BY DEF IInv, TypeOK, Receive
<1>2. p \in Mark \cup {None} /\ sent \in Nat /\ Len(log) \in Nat /\ life \in 1 .. MaxLives /\ life \in Nat
  BY <1>1 DEF TypeOK
<1>3. conn' = [conn EXCEPT ![c] = k] /\ last' = [last EXCEPT ![c] = m] /\ UNCHANGED server
  BY <1>1 DEF Receive, TypeOK
<1> HIDE DEF o, p
<1>4. /\ t \in Seq(Id) /\ Len(t) = Len(o.wire) - 1 /\ \A i \in 1 .. Len(t) : t[i] = o.wire[i + 1]
      /\ h = o.wire[1] /\ Len(o.wire) \in Nat \ {0} /\ 1 \in 1 .. Len(o.wire)
  BY <1>1, ConnectionParts
<1> HIDE DEF t, h
<1>5. h \in Id /\ h \in Nat \ {0}
  BY <1>1, <1>4, ConnectionParts
<1>6. m \in Mark /\ m.life = life /\ m.id = h
  BY <1>2, <1>5 DEF Mark
<1>7. m # None
  BY <1>6, MarkParts
<1>8. /\ k \in Connection /\ k.replay = o.replay /\ k.stage = o.stage /\ k.cursor = o.cursor
      /\ k.wire = t /\ k.maxEmitted = o.maxEmitted
  BY <1>1, <1>4 DEF Connection
<1> HIDE DEF m, k
<1>9. Ascends(o, p) /\ InLog(c, o, p, log, sent, life) /\ o.stage = "streaming"
  BY <1>1, ConnectionParts DEF Good, HandlerGood, Ascends
<1>10. \A i \in 1 .. Len(t) : i + 1 \in 1 .. Len(o.wire) /\ h < t[i] /\ t[i] = o.wire[i + 1]
  BY <1>4, <1>9 DEF Ascends
<1>11. Ascends(k, m)
  <2>1. \A i, j \in 1 .. Len(t) : i < j => t[i] < t[j]
    BY <1>4, <1>9 DEF Ascends
  <2>2. \A i \in 1 .. Len(t) : t[i] <= o.maxEmitted
    BY <1>9, <1>10 DEF Ascends
  <2>3. h <= o.maxEmitted
    BY <1>4, <1>9 DEF Ascends
  <2>. QED
    BY <1>6, <1>8, <1>9, <1>10, <2>1, <2>2, <2>3 DEF Ascends
<1>12. InLog(c, k, m, log, sent, life)
  <2>1. \A i \in 1 .. Len(t) : t[i] <= Len(log) /\ Wanted(c, t[i], log)
    BY <1>9, <1>10 DEF InLog
  <2>. QED
    BY <1>1, <1>7, <1>8, <1>9, <2>1 DEF InLog
<1>13. MarkGood(m, log, life)
  BY <1>2, <1>4, <1>6, <1>9 DEF MarkGood, InLog
<1>14. ASSUME ~ Filter[c].area PROVE PastAccounted(c, k, m, log, life)
  <2>1. SUFFICES ASSUME NEW j \in 1 .. Len(log), j <= o.maxEmitted, Behind(k, m, life, j)
                 PROVE  Holds(t, j) \/ Skips(c, j, log)
    BY <1>8 DEF PastAccounted
  <2>2. h < j
    <3>1. CASE m.id < j
      BY <1>6, <3>1
    <3>2. ASSUME NEW i \in 1 .. Len(t), t[i] < j PROVE h < j
      <4>1. t[i] \in Nat
        BY <1>1, <1>10, <3>2, ConnectionParts
      <4>. QED
        BY <1>5, <1>10, <3>2, <4>1
    <3>. QED
      BY <1>8, <2>1, <3>1, <3>2 DEF Behind
  <2>3. Behind(o, p, life, j)
    BY <1>4, <2>2 DEF Behind
  <2>4. Holds(o.wire, j) \/ Skips(c, j, log)
    BY <1>1, <1>14, <2>1, <2>3 DEF Good, HandlerGood, PastAccounted
  <2>5. ASSUME NEW i \in 1 .. Len(o.wire), o.wire[i] = j PROVE Holds(t, j)
    <3>1. i # 1
      BY <1>4, <1>5, <2>2, <2>5
    <3>2. i - 1 \in 1 .. Len(t) /\ t[i - 1] = j
      BY <1>4, <2>5, <3>1
    <3>. QED
      BY <3>2 DEF Holds
  <2>. QED
    BY <2>4, <2>5 DEF Holds
<1>15. ~ Filter[c].area => FutureAccounted(c, k, log)
  BY <1>1, <1>8, <1>9 DEF Good, HandlerGood, FutureAccounted, Reached, Engaged
<1>16. Good(c, k, m, log, sent, life)
  BY <1>11, <1>12, <1>13, <1>14, <1>15 DEF Good, HandlerGood
<1>. QED
  BY <1>3, <1>6, <1>8, <1>16, ClientStep

LEMMA DisconnectIInv == ASSUME IInv, NEW c \in Client, Disconnect(c) PROVE IInv'
<1> DEFINE m == last[c]
<1>1. TypeOK /\ Good(c, conn[c], m, log, sent, life)
  BY DEF IInv
<1>2. m \in Mark \cup {None} /\ Good(c, None, m, log, sent, life)
  BY <1>1 DEF TypeOK, Good
<1>3. conn' = [conn EXCEPT ![c] = None] /\ last' = [last EXCEPT ![c] = m] /\ UNCHANGED server
  BY <1>1 DEF Disconnect, TypeOK
<1> HIDE DEF m
<1>. QED
  BY <1>2, <1>3, ClientStep

(* No mark is of the life that begins. *)
LEMMA RestartIInv == ASSUME IInv, Restart PROVE IInv'
<1>1. TypeOK /\ life \in Nat
  BY DEF IInv, TypeOK
<1>2. life + 1 \in 1 .. MaxLives /\ life' = life + 1
  BY <1>1, EventStreamAssumption DEF Restart, TypeOK
<1>3. TypeOK'
  BY <1>1, <1>2, EventStreamAssumption DEF TypeOK, Restart, Place
<1>4. Publishing'
  BY EventStreamAssumption DEF Publishing, Newest, Restart
<1>5. ASSUME NEW c \in Client PROVE Good(c, None, last[c], <<>>, 0, life + 1)
  <2>1. last[c] \in Mark \cup {None} /\ MarkGood(last[c], log, life)
    BY <1>1 DEF IInv, Good, TypeOK
  <2>2. MarkGood(last[c], <<>>, life + 1)
    BY <1>1, <2>1, MarkParts DEF MarkGood, Known
  <2>. QED
    BY <2>2 DEF Good
<1>6. \A c \in Client : Good(c, conn'[c], last'[c], log', sent', life')
  BY <1>5 DEF Restart
<1>. QED
  BY <1>3, <1>4, <1>6 DEF IInv

LEMMA StepIInv == IInv /\ [Next]_vars => IInv'
<1> SUFFICES ASSUME IInv, [Next]_vars PROVE IInv'
  OBVIOUS
<1>1. CASE Decode
  BY <1>1, DecodeIInv
<1>2. CASE Restart
  BY <1>2, RestartIInv
<1>3. ASSUME NEW c \in Client, Handle(c) \/ Receive(c) \/ Disconnect(c) PROVE IInv'
  BY <1>3, ConnectIInv, CopyRingIInv, ForwardReplayIInv, ForwardLiveIInv, LagIInv, ReceiveIInv,
     DisconnectIInv DEF Handle
<1>4. CASE UNCHANGED vars
  <2>1. TypeOK' /\ Publishing'
    BY <1>4 DEF IInv, TypeOK, Publishing, Newest, vars
  <2>. QED
    BY <1>4, <2>1 DEF IInv, vars
<1>. QED
  BY <1>1, <1>2, <1>3, <1>4 DEF Next

LEMMA Invariant == Spec => []IInv
<1>1. Init => IInv
  BY InitIInv
<1>2. IInv /\ [Next]_vars => IInv'
  BY StepIInv
<1>. QED
  BY <1>1, <1>2, PTL DEF Spec

(* Whatever the sizes of ring, channel and queue, and however connections     *)
(* come and go, what a client has got and what is under way to it ascend.     *)
THEOREM InOrderHolds == Spec => []InOrder
<1>1. IInv => InOrder
  <2> SUFFICES ASSUME IInv, NEW c \in Client, conn[c] # None
               PROVE  LET w == conn[c].wire IN
                      /\ \A i, j \in 1 .. Len(w) : i < j => w[i] < w[j]
                      /\ (last[c] # None /\ w # <<>>) => last[c].id < w[1]
    BY DEF InOrder
  <2>1. conn[c] \in Connection /\ Ascends(conn[c], last[c])
    BY DEF IInv, TypeOK, Good, HandlerGood
  <2>2. conn[c].wire # <<>> => 1 \in 1 .. Len(conn[c].wire)
    BY <2>1, ConnectionParts
  <2>. QED
    BY <2>1, <2>2 DEF Ascends
<1>. QED
  BY <1>1, Invariant, PTL

-----------------------------------------------------------------------------
(* The feed implements ResumableLog *)

(* What a client is owed, from its connection and its mark. *)
DueOf(k, m, v) ==
  IF m # None
  THEN IF m.life = v THEN m.id + 1 ELSE 0
  ELSE IF k = None THEN 0
       ELSE IF k.wire # <<>> THEN Head(k.wire) ELSE k.cursor

Dues == [c \in Follower |-> Due(c)]

Marks == [c \in Follower |-> last[c]]

LEMMA DueIs == ASSUME NEW c PROVE Due(c) = DueOf(conn[c], last[c], life)
BY DEF Due, DueOf

LEMMA FollowersAre == Follower \subseteq Client /\ \A c \in Follower : ~ Filter[c].area
BY DEF Follower

(* The step of a client changes what is owed to nobody else. *)
LEMMA DuesAfter ==
  ASSUME IInv, UNCHANGED server, NEW c \in Client, NEW k, NEW m,
         conn' = [conn EXCEPT ![c] = k], last' = [last EXCEPT ![c] = m]
  PROVE  /\ Dues' = [Dues EXCEPT ![c] = DueOf(k, m, life)]
         /\ Marks' = [Marks EXCEPT ![c] = m]
<1>1. life' = life /\ conn \in [Client -> Connection \cup {None}] /\ last \in [Client -> Mark \cup {None}]
  BY DEF server, IInv, TypeOK
<1>2. \A d \in Client : conn'[d] = (IF d = c THEN k ELSE conn[d]) /\ last'[d] = (IF d = c THEN m ELSE last[d])
  BY <1>1
<1>3. ASSUME NEW d \in Follower
      PROVE  Due(d)' = (IF d = c THEN DueOf(k, m, life) ELSE Due(d))
  <2>1. d \in Client
    BY FollowersAre
  <2>2. Due(d)' = DueOf(conn'[d], last'[d], life')
    BY DEF Due, DueOf
  <2>. QED
    BY <1>1, <1>2, <2>1, <2>2, DueIs
<1>4. Dues' = [d \in Follower |-> Due(d)']
  BY DEF Dues
<1>5. Dues' = [Dues EXCEPT ![c] = DueOf(k, m, life)]
  BY <1>3, <1>4 DEF Dues
<1>6. Marks' = [Marks EXCEPT ![c] = m]
  BY <1>1, FollowersAre DEF Marks
<1>. QED
  BY <1>5, <1>6

Stutters == UNCHANGED <<life, log, Dues, Marks>>

LEMMA StutterRefines == Stutters => [Promise!Next]_(Promise!vars)
BY DEF Stutters, Dues, Marks, Promise!vars

LEMMA SkipsAre ==
  ASSUME NEW c \in Follower, log \in Seq(Event), NEW j \in 1 .. Len(log)
  PROVE  /\ Wanted(c, j, log) <=> log[j] \in WantedBy[c]
         /\ Skips(c, j, log) => Promise!Skippable(c, j)
BY DEF Wanted, WantedBy, Skips, Promise!Skippable

(* A step of client c after which it is owed the same. *)
LEMMA ClientStutters ==
  ASSUME IInv, UNCHANGED server, NEW c \in Client, NEW k, NEW m,
         conn' = [conn EXCEPT ![c] = k], last' = [last EXCEPT ![c] = m],
         c \notin Follower \/ (m = last[c] /\ DueOf(k, m, life) = Due(c))
  PROVE  Stutters
<1>1. Dues' = [Dues EXCEPT ![c] = DueOf(k, m, life)] /\ Marks' = [Marks EXCEPT ![c] = m]
  BY DuesAfter
<1>2. Dues' = Dues /\ Marks' = Marks
  BY <1>1 DEF Dues, Marks
<1>. QED
  BY <1>2 DEF Stutters, server

LEMMA ConnectRefines ==
  ASSUME IInv, NEW c \in Client, Connect(c) PROVE [Promise!Next]_(Promise!vars)
<1> DEFINE k == [stage |-> "subscribed", cursor |-> sent + 1, replay |-> <<>>,
                 maxEmitted |-> 0, wire |-> <<>>]
           m == last[c]
<1>1. conn' = [conn EXCEPT ![c] = k] /\ last' = [last EXCEPT ![c] = m] /\ UNCHANGED server /\ conn[c] = None
  BY DEF Connect, IInv, TypeOK
<1>2. k # None /\ k.wire = <<>> /\ k.cursor = sent + 1
  <2>1. k \in Connection
    BY DEF IInv, TypeOK, Connection
  <2>. QED
    BY <2>1, ConnectionParts
<1> HIDE DEF k
<1>3. CASE c \in Follower /\ m = None
  <2>1. DueOf(k, m, life) = sent + 1 /\ Due(c) = 0
    BY <1>1, <1>2, <1>3 DEF DueOf, Due
  <2>2. sent + 1 \in {Len(log), Len(log) + 1} \ {0}
    BY DEF IInv, TypeOK, Publishing
  <2>3. Dues' = [Dues EXCEPT ![c] = sent + 1] /\ Marks' = [Marks EXCEPT ![c] = m]
    <3>1. Dues' = [Dues EXCEPT ![c] = DueOf(k, m, life)] /\ Marks' = [Marks EXCEPT ![c] = m]
      BY <1>1, DuesAfter, Zenon
    <3>. QED
      BY <2>1, <3>1, Zenon
  <2>4. Marks' = Marks
    BY <2>3 DEF Marks
  <2>5. Promise!Follow(c)
    BY <1>1, <1>3, <2>1, <2>2, <2>3, <2>4 DEF Promise!Follow, Dues, Marks, server
  <2>. QED
    BY <1>3, <2>5 DEF Promise!Next
<1>4. CASE c \in Follower /\ m # None
  <2>1. DueOf(k, m, life) = Due(c)
    BY <1>4 DEF DueOf, Due
  <2>. QED
    BY <1>1, <2>1, ClientStutters, StutterRefines
<1>5. CASE c \notin Follower
  BY <1>1, <1>5, ClientStutters, StutterRefines
<1>. QED
  BY <1>3, <1>4, <1>5

LEMMA CopyRingRefines ==
  ASSUME IInv, NEW c \in Client, CopyRing(c) PROVE Stutters
<1> DEFINE m == last[c]
           r == IF m = None THEN <<>> ELSE ReplayAfter(m.id)
           e == IF m = None THEN 0 ELSE m.id
           o == conn[c]
           k == [o EXCEPT !.stage = "streaming", !.replay = r, !.maxEmitted = e]
<1>1. conn' = [conn EXCEPT ![c] = k] /\ last' = [last EXCEPT ![c] = m] /\ UNCHANGED server
      /\ o \in Connection
  BY DEF CopyRing, IInv, TypeOK
<1>2. k # None
  <2>1. m = None => r = <<>> /\ e = 0
    OBVIOUS
  <2>2. m # None => r \in Seq(Id) /\ e \in Nat
    BY MarkParts, ReplayIs DEF IInv, TypeOK
  <2>3. r \in Seq(Id) /\ e \in Nat
    BY <2>1, <2>2
  <2> HIDE DEF r, e
  <2>4. k \in Connection
    BY <1>1, <2>3 DEF Connection
  <2>. QED
    BY <2>4, ConnectionParts
<1>3. k.wire = o.wire /\ k.cursor = o.cursor
  BY <1>1 DEF Connection
<1>4. DueOf(k, m, life) = Due(c)
  BY <1>1, <1>2, <1>3, ConnectionParts DEF DueOf, Due
<1>. QED
  BY <1>1, <1>4, ClientStutters

LEMMA ForwardReplayRefines ==
  ASSUME IInv, NEW c \in Client, ForwardReplay(c) PROVE Stutters
<1> DEFINE o == conn[c]
           m == last[c]
           n == [o EXCEPT !.replay = Tail(@)]
           k == Taken(c, n, Head(o.replay))
<1>1. conn' = [conn EXCEPT ![c] = k] /\ last' = [last EXCEPT ![c] = m] /\ UNCHANGED server
  BY DEF ForwardReplay, IInv, TypeOK
<1>2. m # None
  BY DEF IInv, Good, HandlerGood, InLog, ForwardReplay, Ready
<1>3. DueOf(k, m, life) = Due(c)
  BY <1>2 DEF DueOf, Due
<1> HIDE DEF k, m
<1>. QED
  BY <1>1, <1>3, ClientStutters DEF m

(* Before its mark, a client skips what its filters exclude. *)
LEMMA SkipRefines ==
  ASSUME IInv, UNCHANGED <<life, log>>, NEW c \in Follower, last[c] = None, NEW i \in Nat,
         Due(c) \in Nat \ {0}, Due(c) < i, i <= Len(log) + 1,
         \A j \in Due(c) .. i - 1 : Skips(c, j, log),
         Dues' = [Dues EXCEPT ![c] = i], UNCHANGED Marks
  PROVE  [Promise!Next]_(Promise!vars)
<1>1. log \in Seq(Event) /\ Len(log) \in Nat
  BY DEF IInv, TypeOK
<1>2. \A j \in Due(c) .. i - 1 : Promise!Skippable(c, j)
  <2>1. \A j \in Due(c) .. i - 1 : j \in 1 .. Len(log)
    BY <1>1
  <2>. QED
    BY <1>1, <2>1, SkipsAre
<1>3. Dues[c] = Due(c)
  BY DEF Dues
<1>4. Promise!Skip(c)
  <2>1. i \in Dues[c] + 1 .. Len(log) + 1
    BY <1>1, <1>3
  <2>2. \A j \in Dues[c] .. i - 1 : Promise!Skippable(c, j)
    BY <1>2, <1>3
  <2>3. Dues[c] # 0
    BY <1>3
  <2>. QED
    BY <2>1, <2>2, <2>3 DEF Promise!Skip, Dues, Marks
<1>. QED
  BY <1>4 DEF Promise!Next

LEMMA ForwardLiveRefines ==
  ASSUME IInv, NEW c \in Client, ForwardLive(c) PROVE [Promise!Next]_(Promise!vars)
<1> DEFINE o == conn[c]
           m == last[c]
           id == o.cursor
           n == [o EXCEPT !.cursor = @ + 1]
           ok == Passes(c, log[id])
           k == Filtered(o, n, id, ok)
<1>1. conn' = [conn EXCEPT ![c] = k] /\ last' = [last EXCEPT ![c] = m] /\ UNCHANGED <<server, last>>
  BY TakenIs DEF ForwardLive, IInv, TypeOK
<1>2. n \in Connection /\ id \in Id /\ id <= Len(log)
  BY LiveMoves
<1>3. o \in Connection /\ InLog(c, o, m, log, sent, life) /\ o # None /\ Len(log) \in Nat
  BY DEF IInv, TypeOK, Good, HandlerGood, ForwardLive, Ready
<1>4. k \in Connection /\ k # None
  BY <1>2, <1>3, FilteredTyped, ConnectionParts
<1>5. n.wire = o.wire /\ n.cursor = id + 1 /\ id \in Nat \ {0}
  BY <1>2, <1>3, IdsNat DEF Connection
<1>6. k.cursor = id + 1
  BY <1>2, <1>5 DEF Filtered, Connection
<1>7. k.wire = n.wire \/ (ok /\ ~ (id <= o.maxEmitted) /\ k.wire = Append(n.wire, id))
  BY <1>2 DEF Filtered, Connection
<1>8. k.wire = n.wire => (id <= o.maxEmitted) \/ ~ ok
  <2>1. ASSUME ~ (id <= o.maxEmitted), ok PROVE k.wire = Append(n.wire, id)
    BY <1>2, <2>1 DEF Filtered, Connection
  <2>2. Append(n.wire, id) # n.wire
    BY <1>2, ConnectionParts
  <2>. QED
    BY <2>1, <2>2
<1> HIDE DEF k, n
<1>9. CASE c \notin Follower \/ m # None
  <2>1. m # None => DueOf(k, m, life) = Due(c)
    BY DEF DueOf, Due
  <2> HIDE DEF m
  <2>2. Stutters
    BY <1>1, <1>9, <2>1, ClientStutters DEF m
  <2>. QED
    BY <2>2, StutterRefines
<1>10. CASE c \in Follower /\ m = None /\ (o.wire # <<>> \/ k.wire # <<>>)
  <2>1. DueOf(k, m, life) = Due(c)
    <3>1. CASE o.wire # <<>>
      <4>1. Head(k.wire) = Head(o.wire) /\ k.wire # <<>>
        <5> DEFINE w == o.wire
        <5>1. w \in Seq(Id) /\ w # <<>>
          BY <1>3, <3>1, ConnectionParts
        <5>2. k.wire = w \/ k.wire = Append(w, id)
          BY <1>5, <1>7
        <5> HIDE DEF w
        <5>3. Append(w, id) # <<>> /\ Head(Append(w, id)) = Head(w)
          BY <1>2, <5>1
        <5>. QED
          BY <5>1, <5>2, <5>3 DEF w
      <4>. QED
        BY <1>3, <1>4, <1>10, <3>1, <4>1 DEF DueOf, Due
    <3>2. CASE o.wire = <<>>
      <4>1. k.wire = Append(<<>>, id) /\ k.wire # <<>>
        BY <1>5, <1>7, <1>10, <3>2
      <4>2. Head(k.wire) = id
        BY <4>1
      <4>. QED
        BY <1>3, <1>4, <1>10, <3>2, <4>1, <4>2 DEF DueOf, Due
    <3>. QED
      BY <3>1, <3>2
  <2> HIDE DEF m
  <2>2. Stutters
    BY <1>1, <2>1, ClientStutters DEF m
  <2>. QED
    BY <2>2, StutterRefines
<1>11. CASE c \in Follower /\ m = None /\ o.wire = <<>> /\ k.wire = <<>>
  <2>1. ~ ok
    BY <1>3, <1>5, <1>8, <1>11, ConnectionParts DEF InLog
  <2>2. Due(c) = id /\ DueOf(k, None, life) = id + 1
    BY <1>3, <1>4, <1>6, <1>11 DEF DueOf, Due
  <2>3. ~ Wanted(c, id, log)
    BY <1>11, <2>1, FollowersAre, PassesIs
  <2>4. \A j \in Due(c) .. (id + 1) - 1 : Skips(c, j, log)
    BY <1>5, <2>2, <2>3 DEF Skips
  <2>5. /\ Due(c) \in Nat \ {0} /\ id + 1 \in Nat /\ Due(c) < id + 1 /\ id + 1 <= Len(log) + 1
    BY <1>2, <1>3, <1>5, <2>2
  <2>6. Dues' = [Dues EXCEPT ![c] = DueOf(k, m, life)] /\ Marks' = [Marks EXCEPT ![c] = m]
    BY <1>1, DuesAfter, Zenon
  <2>7. Dues' = [Dues EXCEPT ![c] = id + 1] /\ Marks' = Marks
    BY <1>11, <2>2, <2>6 DEF Marks
  <2>8. UNCHANGED <<life, log>>
    BY <1>1 DEF server
  <2> HIDE DEF id
  <2>. QED
    BY <1>11, <2>4, <2>5, <2>7, <2>8, SkipRefines
<1>. QED
  BY <1>9, <1>10, <1>11

LEMMA LagRefines ==
  ASSUME IInv, NEW c \in Client, Lag(c) PROVE [Promise!Next]_(Promise!vars)
<1> DEFINE o == conn[c]
           m == last[c]
           k == [o EXCEPT !.cursor = Oldest]
<1>1. conn' = [conn EXCEPT ![c] = k] /\ last' = [last EXCEPT ![c] = m] /\ UNCHANGED <<server, last>>
  BY DEF Lag, IInv, TypeOK
<1>2. /\ o \in Connection /\ InLog(c, o, m, log, sent, life) /\ o # None /\ Len(log) \in Nat
      /\ o.cursor < Oldest /\ sent \in Nat /\ sent <= Len(log)
  BY DEF IInv, TypeOK, Publishing, Good, HandlerGood, Lag, Ready
<1>3. Oldest \in 1 .. sent + 1 /\ \A j \in Nat : j < Oldest => j <= Len(log) - Retained
  BY LagPassesOld
<1>4. k \in Connection /\ k.wire = o.wire /\ k.cursor = Oldest
  BY <1>2, <1>3 DEF Connection
<1>5. k # None
  BY <1>4, ConnectionParts
<1> HIDE DEF k
<1>6. CASE c \notin Follower \/ m # None \/ o.wire # <<>>
  <2>1. m # None \/ o.wire # <<>> => DueOf(k, m, life) = Due(c)
    BY <1>2, <1>4, <1>5 DEF DueOf, Due
  <2> HIDE DEF m
  <2>2. Stutters
    BY <1>1, <1>6, <2>1, ClientStutters DEF m
  <2>. QED
    BY <2>2, StutterRefines
<1>7. CASE c \in Follower /\ m = None /\ o.wire = <<>>
  <2>1. Due(c) = o.cursor /\ DueOf(k, None, life) = Oldest
    BY <1>2, <1>4, <1>5, <1>7 DEF DueOf, Due
  <2>2. o.cursor \in Nat \ {0}
    BY <1>2 DEF InLog
  <2>3. \A j \in Due(c) .. Oldest - 1 : Skips(c, j, log)
    BY <1>2, <1>3, <2>1, <2>2 DEF Skips
  <2>4. Oldest \in Nat /\ Oldest <= Len(log) + 1
    BY <1>2, <1>3
  <2>5. Dues' = [Dues EXCEPT ![c] = DueOf(k, m, life)] /\ Marks' = [Marks EXCEPT ![c] = m]
    BY <1>1, DuesAfter, Zenon
  <2>6. Dues' = [Dues EXCEPT ![c] = Oldest] /\ Marks' = Marks
    BY <1>7, <2>1, <2>5 DEF Marks
  <2>7. UNCHANGED <<life, log>>
    BY <1>1 DEF server
  <2>. QED
    BY <1>2, <1>7, <2>1, <2>2, <2>3, <2>4, <2>6, <2>7, SkipRefines
<1>. QED
  BY <1>6, <1>7

(* What a client receives is the next it is owed but for what it may miss; if *)
(* its mark is from an earlier life, it finds its way back.                   *)
LEMMA ReceiveRefines ==
  ASSUME IInv, NEW c \in Client, Receive(c) PROVE [Promise!Next]_(Promise!vars)
<1> DEFINE o == conn[c]
           p == last[c]
           h == Head(o.wire)
           m == [life |-> life, id |-> h]
           k == [o EXCEPT !.wire = Tail(@)]
<1>1. /\ conn' = [conn EXCEPT ![c] = k] /\ last' = [last EXCEPT ![c] = m] /\ UNCHANGED server
      /\ UNCHANGED <<life, log>>
  BY DEF Receive, IInv, TypeOK, server
<1>2. /\ o \in Connection /\ o # None /\ o.wire # <<>> /\ HandlerGood(c, o, p, log, sent, life)
      /\ p \in Mark \cup {None} /\ Len(log) \in Nat /\ log \in Seq(Event) /\ life \in 1 .. MaxLives
  BY DEF IInv, TypeOK, Good, Receive
<1> HIDE DEF o, p
<1>3. h = o.wire[1] /\ 1 \in 1 .. Len(o.wire) /\ h \in Id /\ h \in Nat \ {0}
  BY <1>2, ConnectionParts
<1>4. h <= Len(log) /\ Wanted(c, h, log) /\ h <= o.maxEmitted /\ o.maxEmitted \in Nat
  BY <1>2, <1>3, ConnectionParts DEF HandlerGood, InLog, Ascends
<1>5. m \in Mark /\ m.life = life /\ m.id = h
  BY <1>2, <1>3 DEF Mark
<1>6. m # None
  BY <1>5, MarkParts
<1> HIDE DEF h
<1>7. DueOf(k, m, life) = h + 1
  BY <1>5, <1>6 DEF DueOf
<1> HIDE DEF k, m
<1>8. Dues' = [Dues EXCEPT ![c] = DueOf(k, m, life)] /\ Marks' = [Marks EXCEPT ![c] = m]
  BY <1>1, DuesAfter, Zenon
<1>9. Dues' = [Dues EXCEPT ![c] = h + 1] /\ Marks' = [Marks EXCEPT ![c] = [life |-> life, id |-> h]]
  BY <1>7, <1>8 DEF m
<1>10. CASE c \notin Follower
  <2>1. Dues' = Dues /\ Marks' = Marks
    BY <1>9, <1>10 DEF Dues, Marks
  <2>2. Stutters
    BY <1>1, <2>1 DEF Stutters
  <2>. QED
    BY <2>2, StutterRefines
<1>11. CASE c \in Follower
  <2>1. Dues[c] = Due(c) /\ Marks[c] = p
    BY <1>11 DEF Dues, Marks, p
  <2>2. log[h] \in WantedBy[c]
    BY <1>2, <1>3, <1>4, <1>11, SkipsAre
  <2>3. Promise!Hand(c, h)
    BY <1>1, <1>9, <2>2 DEF Promise!Hand, Dues, Marks
  <2>4. CASE p # None /\ p.life # life
    <3>1. Dues[c] = 0
      BY <2>1, <2>4 DEF Due, p
    <3>2. h \in 1 .. Len(log)
      BY <1>2, <1>3, <1>4
    <3>3. Marks[c] # None /\ \E i \in 1 .. Len(log) : Promise!Hand(c, i)
      BY <2>1, <2>3, <2>4, <3>2 DEF Promise!Hand
    <3>4. Promise!Resume(c)
      BY <3>1, <3>3 DEF Promise!Resume, Dues, Marks
    <3>. QED
      BY <1>11, <3>4 DEF Promise!Next
  <2>5. CASE p = None \/ p.life = life
    <3>1. /\ Due(c) \in Nat \ {0} /\ Due(c) <= h
          /\ \A j \in Due(c) .. h - 1 : j \in 1 .. Len(log) /\ Skips(c, j, log)
      <4>1. CASE p = None
        <5>1. Due(c) = h
          BY <1>2, <4>1 DEF Due, o, p, h
        <5>. QED
          BY <1>3, <5>1
      <4>2. CASE p # None /\ p.life = life
        <5>1. Due(c) = p.id + 1 /\ p.id \in Nat \ {0}
          BY <1>2, <4>2, MarkParts DEF Due, p
        <5>2. p.id < h
          BY <1>2, <1>3, <4>2 DEF HandlerGood, Ascends
        <5>3. ASSUME NEW j \in Nat, p.id < j, j < h PROVE j \in 1 .. Len(log) /\ Skips(c, j, log)
          <6>1. j \in 1 .. Len(log) /\ j <= o.maxEmitted
            BY <1>2, <1>3, <1>4, <5>1, <5>3
          <6>2. Holds(o.wire, j) \/ Skips(c, j, log)
            BY <1>2, <1>11, <4>2, <5>3, <6>1, FollowersAre DEF HandlerGood, PastAccounted, Behind, Known
          <6>3. ASSUME NEW i \in 1 .. Len(o.wire), o.wire[i] = j PROVE FALSE
            <7>1. i = 1 \/ o.wire[1] < o.wire[i]
              BY <1>2, <1>3, <6>3 DEF HandlerGood, Ascends
            <7>. QED
              BY <1>3, <5>3, <6>3, <7>1
          <6>. QED
            BY <6>1, <6>2, <6>3 DEF Holds
        <5>. QED
          BY <1>3, <5>1, <5>2, <5>3
      <4>. QED
        BY <2>5, <4>1, <4>2
    <3>2. \A j \in Due(c) .. h - 1 : Promise!Skippable(c, j)
      BY <1>2, <1>11, <3>1, SkipsAre
    <3>3. h \in Dues[c] .. Len(log) /\ Dues[c] # 0
      BY <1>2, <1>3, <1>4, <2>1, <3>1
    <3>4. \A j \in Dues[c] .. h - 1 : Promise!Skippable(c, j)
      BY <2>1, <3>2
    <3>5. \E i \in Dues[c] .. Len(log) :
             (\A j \in Dues[c] .. i - 1 : Promise!Skippable(c, j)) /\ Promise!Hand(c, i)
      BY <2>3, <3>3, <3>4 DEF Promise!Hand
    <3>6. Promise!Deliver(c)
      BY <3>3, <3>5 DEF Promise!Deliver, Dues, Marks
    <3>. QED
      BY <1>11, <3>6 DEF Promise!Next
  <2>. QED
    BY <2>4, <2>5
<1>. QED
  BY <1>10, <1>11

LEMMA DisconnectRefines ==
  ASSUME IInv, NEW c \in Client, Disconnect(c) PROVE [Promise!Next]_(Promise!vars)
<1> DEFINE m == last[c]
           k == None
<1>1. conn' = [conn EXCEPT ![c] = k] /\ last' = [last EXCEPT ![c] = m] /\ UNCHANGED server
      /\ UNCHANGED <<life, log>>
  BY DEF Disconnect, IInv, TypeOK, server
<1>2. CASE c \in Follower /\ m = None
  <2>1. DueOf(k, m, life) = 0
    BY <1>2 DEF DueOf
  <2> HIDE DEF k
  <2>2. Dues' = [Dues EXCEPT ![c] = DueOf(k, m, life)] /\ Marks' = [Marks EXCEPT ![c] = m]
    BY <1>1, DuesAfter, Zenon
  <2>3. Dues' = [Dues EXCEPT ![c] = 0] /\ Marks' = Marks /\ Marks[c] = None
    BY <1>2, <2>1, <2>2 DEF Marks
  <2>4. Promise!Leave(c)
    BY <1>1, <2>3 DEF Promise!Leave, Dues, Marks
  <2>. QED
    BY <1>2, <2>4 DEF Promise!Next
<1>3. CASE c \notin Follower \/ m # None
  <2>1. m # None => DueOf(k, m, life) = Due(c)
    BY DEF DueOf, Due
  <2> HIDE DEF m, k
  <2>2. Stutters
    BY <1>1, <1>3, <2>1, ClientStutters DEF m
  <2>. QED
    BY <2>2, StutterRefines
<1>. QED
  BY <1>2, <1>3

LEMMA RestartRefines ==
  ASSUME IInv, Restart PROVE [Promise!Next]_(Promise!vars)
<1>1. ASSUME NEW c \in Follower PROVE Due(c)' = 0
  <2>1. c \in Client /\ conn'[c] = None /\ last'[c] = last[c] /\ life' = life + 1
    BY FollowersAre DEF Restart
  <2>2. life \in Nat /\ last[c] \in Mark \cup {None} /\ MarkGood(last[c], log, life)
    BY <2>1 DEF IInv, TypeOK, Good
  <2>3. last[c] # None => last[c].life # life + 1
    BY <2>2, MarkParts DEF MarkGood
  <2>. QED
    BY <2>1, <2>3 DEF Due
<1>2. Dues' = [c \in Follower |-> 0]
  BY <1>1 DEF Dues
<1>3. Marks' = Marks
  BY DEF Marks, Restart
<1>4. Promise!Restart
  BY <1>2, <1>3 DEF Promise!Restart, Restart, Dues, Marks
<1>. QED
  BY <1>4 DEF Promise!Next

LEMMA DecodeRefines == ASSUME IInv, Decode PROVE [Promise!Next]_(Promise!vars)
<1>1. UNCHANGED <<life, conn, last>>
  BY DEF Decode, Refresh, Push, Send
<1>2. Dues' = Dues /\ Marks' = Marks
  BY <1>1 DEF Dues, Due, Marks
<1>3. CASE Refresh
  <2>1. Promise!Publish
    BY <1>1, <1>2, <1>3 DEF Refresh, Promise!Publish, Dues, Marks
  <2>. QED
    BY <2>1 DEF Promise!Next
<1>4. CASE Push \/ Send
  <2>1. Stutters
    BY <1>1, <1>2, <1>4 DEF Push, Send, Stutters
  <2>. QED
    BY <2>1, StutterRefines
<1>. QED
  BY <1>3, <1>4 DEF Decode

LEMMA StepRefines ==
  IInv /\ [Next]_vars => [Promise!Next]_(Promise!vars)
<1> SUFFICES ASSUME IInv, [Next]_vars PROVE [Promise!Next]_(Promise!vars)
  OBVIOUS
<1>1. CASE Decode
  BY <1>1, DecodeRefines
<1>2. CASE Restart
  BY <1>2, RestartRefines
<1>3. ASSUME NEW c \in Client, Handle(c) \/ Receive(c) \/ Disconnect(c)
      PROVE  [Promise!Next]_(Promise!vars)
  <2>1. CASE Connect(c)
    BY <2>1, ConnectRefines
  <2>2. CASE CopyRing(c) \/ ForwardReplay(c)
    BY <2>2, CopyRingRefines, ForwardReplayRefines, StutterRefines
  <2>3. CASE ForwardLive(c)
    BY <2>3, ForwardLiveRefines
  <2>4. CASE Lag(c)
    BY <2>4, LagRefines
  <2>5. CASE Receive(c)
    BY <2>5, ReceiveRefines
  <2>6. CASE Disconnect(c)
    BY <2>6, DisconnectRefines
  <2>. QED
    BY <1>3, <2>1, <2>2, <2>3, <2>4, <2>5, <2>6 DEF Handle
<1>4. CASE UNCHANGED vars
  <2>1. Stutters
    BY <1>4 DEF Stutters, Dues, Due, Marks, vars
  <2>. QED
    BY <2>1, StutterRefines
<1>. QED
  BY <1>1, <1>2, <1>3, <1>4 DEF Next

(* "Together those guarantee no event is missed" (server.rs): for any number  *)
(* of clients without an area, any filters and any sizes, the feed is a       *)
(* resumable log whose window is the smaller of ring and channel.             *)
THEOREM FeedDeliversLog == Spec => DeliversLog
<1>1. Init => Promise!Init
  <2> SUFFICES ASSUME Init PROVE Promise!Init
    OBVIOUS
  <2>1. \A c \in Follower : Due(c) = 0 /\ last[c] = None
    BY FollowersAre DEF Init, Due
  <2>. QED
    BY <2>1 DEF Init, Promise!Init
<1>2. IInv /\ [Next]_vars => [Promise!Next]_(Promise!vars)
  BY StepRefines
<1>. QED
  BY <1>1, <1>2, Invariant, PTL DEF Spec, DeliversLog, Promise!Spec

===============================================================================
