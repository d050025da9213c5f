---------------------------- MODULE OutputProofs ----------------------------
(***************************************************************************)
(* Proofs about the optional outputs (Outputs.tla) for any clients,        *)
(* frames, aircraft and capacities.                                        *)
(*                                                                         *)
(* A feed of frames: what is on the wire and what is still to be written   *)
(* are together the messages of the frames owed, one after another, so     *)
(* that the reader, fed with it, is at a message's end when the task       *)
(* takes its next frame (FeedInv).  The formats are read back byte by      *)
(* byte: a least byte at which reading goes wrong would be a wrong step    *)
(* of the reader (LeastNatural), and a message is a chain of such steps.   *)
(*                                                                         *)
(* GDL90 and Bluetooth: what of the snapshot is still to be told is in     *)
(* `rest' (GdlInv), or untold, unread or passed over (BleInv); and what    *)
(* pack_nearest writes is read back as what it was told.                   *)
(*                                                                         *)
(* A datagram: the table is division bit by bit, the stuffing is undone    *)
(* byte by byte, and what was placed in a report is found in its body.     *)
(***************************************************************************)
EXTENDS Outputs, SequenceTheorems, WellFoundedInduction, FiniteSetTheorems, TLAPS

LEMMA LeastNatural ==
  ASSUME NEW T, T \subseteq Nat, T # {}
  PROVE  \E x \in T : \A y \in T : x <= y
<1> DEFINE R == {p \in Nat \X Nat : p[1] < p[2]}
<1>1. IsWellFoundedOn(R, Nat)
  BY NatLessThanWellFounded DEF OpToRel
<1> HIDE DEF R
<1>2. PICK x \in T : \A y \in T : ~ (<<y, x>> \in R)
  BY <1>1, WFMin
<1>3. \A y \in T : ~ (y < x)
  BY <1>2 DEF R
<1> QED BY <1>3

-----------------------------------------------------------------------------
(*                           What a client reads                           *)

Reader == [messages : Seq(Seq(Int)), open : Seq(Int), escaped : BOOLEAN]

(* A run of the client's machine: the state after each of the bytes. *)
Trace(c, r, s, g) ==
  /\ g \in [0..Len(s) -> Reader]
  /\ g[0] = r
  /\ \A i \in 1..Len(s) : g[i] = Take(c, g[i - 1], s[i])

Leads(c, r, s, q) == \E g : Trace(c, r, s, g) /\ q = g[Len(s)]

LEMMA TakeReader ==
  ASSUME NEW c, NEW r \in Reader, NEW b \in 0..255
  PROVE  /\ Take(c, r, b) \in Reader
         /\ Take(c, r, b).messages = r.messages \/ \E m \in Seq(Int) : Take(c, r, b).messages = Append(r.messages, m)
<1> DEFINE grown == Append(r.open, b)
<1>1. /\ r.messages \in Seq(Seq(Int)) /\ r.open \in Seq(Int) /\ r.escaped \in BOOLEAN
      /\ r = [messages |-> r.messages, open |-> r.open, escaped |-> r.escaped]
  BY DEF Reader
<1>2. grown \in Seq(Int) /\ <<b>> \in Seq(Int) /\ <<>> \in Seq(Int)
  <2>1. b \in Int
    OBVIOUS
  <2> QED BY <1>1, <2>1
<1>3. \A m \in Seq(Int) : Append(r.messages, m) \in Seq(Seq(Int))
  BY <1>1
<1>4. CASE c \in Beast
  <2> DEFINE q == BeastByte(r, b)
  <2>1. Take(c, r, b) = q
    BY <1>4 DEF Take
  <2> HIDE DEF grown
  <2>2. \/ q = [r EXCEPT !.open = <<b>>, !.escaped = FALSE]
        \/ q = [r EXCEPT !.escaped = TRUE]
        \/ q = [messages |-> Append(r.messages, grown), open |-> <<>>, escaped |-> FALSE]
        \/ q = [r EXCEPT !.open = grown, !.escaped = FALSE]
    BY DEF BeastByte, grown
  <2>3. CASE q = [r EXCEPT !.open = <<b>>, !.escaped = FALSE]
    BY <1>2, <2>1, <2>3 DEF Reader
  <2>4. CASE q = [r EXCEPT !.escaped = TRUE]
    BY <2>1, <2>4 DEF Reader
  <2>5. CASE q = [messages |-> Append(r.messages, grown), open |-> <<>>, escaped |-> FALSE]
    BY <1>2, <1>3, <2>1, <2>5 DEF Reader
  <2>6. CASE q = [r EXCEPT !.open = grown, !.escaped = FALSE]
    BY <1>2, <2>1, <2>6 DEF Reader
  <2> QED BY <2>2, <2>3, <2>4, <2>5, <2>6
<1>5. CASE c \notin Beast
  <2> DEFINE q == AvrByte(r, b)
             d == IF b < 58 THEN b - 48 ELSE b - 55
  <2>1. Take(c, r, b) = q
    BY <1>5 DEF Take
  <2>2. d \in Int
    OBVIOUS
  <2> HIDE DEF d
  <2>3. \/ q = [r EXCEPT !.open = <<>>]
        \/ q = [r EXCEPT !.messages = Append(@, r.open)]
        \/ q = r
        \/ q = [r EXCEPT !.open = Append(@, d)]
    BY DEF AvrByte, d
  <2>4. CASE q = [r EXCEPT !.open = <<>>]
    BY <1>2, <2>1, <2>4 DEF Reader
  <2>5. CASE q = [r EXCEPT !.messages = Append(@, r.open)]
    BY <1>1, <1>3, <2>1, <2>5 DEF Reader
  <2>6. CASE q = r
    BY <2>1, <2>6
  <2>7. CASE q = [r EXCEPT !.open = Append(@, d)]
    <3>1. Append(r.open, d) \in Seq(Int)
      BY <1>1, <2>2
    <3> QED BY <2>1, <2>7, <3>1 DEF Reader
  <2> QED BY <2>3, <2>4, <2>5, <2>6, <2>7
<1> QED BY <1>4, <1>5

(* A run can be extended by a byte. *)
LEMMA TraceGrows ==
  ASSUME NEW c, NEW r, NEW s \in Seq(0..255), NEW g, Trace(c, r, s, g), NEW b \in 0..255
  PROVE  Trace(c, r, Append(s, b), [i \in 0..Len(s) + 1 |-> IF i = Len(s) + 1 THEN Take(c, g[Len(s)], b) ELSE g[i]])
<1> DEFINE L == Len(s)
           t == Append(s, b)
           q == Take(c, g[L], b)
           h == [i \in 0..L + 1 |-> IF i = L + 1 THEN q ELSE g[i]]
<1>1. L \in Nat /\ Len(t) = L + 1 /\ t[L + 1] = b /\ \A i \in 1..L : t[i] = s[i]
  OBVIOUS
<1>2. g \in [0..L -> Reader] /\ g[0] = r /\ \A i \in 1..L : g[i] = Take(c, g[i - 1], s[i])
  BY DEF Trace
<1>3. q \in Reader
  <2>1. g[L] \in Reader
    BY <1>1, <1>2
  <2> QED BY <2>1, TakeReader
<1> HIDE DEF q
<1>4. h \in [0..L + 1 -> Reader] /\ h[0] = r
  BY <1>1, <1>2, <1>3
<1>5. ASSUME NEW i \in 1..L + 1 PROVE h[i] = Take(c, h[i - 1], t[i])
  <2>1. CASE i = L + 1
    <3>1. h[L + 1] = q /\ h[L] = g[L] /\ i - 1 = L
      BY <1>1, <2>1
    <3> QED BY <1>1, <2>1, <3>1 DEF q
  <2>2. CASE i # L + 1
    <3>1. i \in 1..L /\ h[i] = g[i] /\ h[i - 1] = g[i - 1]
      BY <1>1, <2>2
    <3> QED BY <1>1, <1>2, <3>1
  <2> QED BY <2>1, <2>2
<1> HIDE DEF h, t
<1>6. Trace(c, r, t, h)
  BY <1>1, <1>4, <1>5 DEF Trace
<1> QED BY <1>6 DEF t, h, q

LEMMA LeadsNowhere == ASSUME NEW c, NEW r \in Reader PROVE Leads(c, r, <<>>, r)
<1> DEFINE g == [i \in {0} |-> r]
<1>1. Len(<<>>) = 0 /\ 0..0 = {0} /\ 1..0 = {}
  OBVIOUS
<1>2. g \in [0..0 -> Reader] /\ g[0] = r
  BY <1>1
<1> HIDE DEF g
<1> QED BY <1>1, <1>2 DEF Leads, Trace

LEMMA LeadsFurther ==
  ASSUME NEW c, NEW r, NEW q, NEW s \in Seq(0..255), Leads(c, r, s, q), NEW b \in 0..255
  PROVE  Leads(c, r, Append(s, b), Take(c, q, b))
<1>1. PICK g : Trace(c, r, s, g) /\ q = g[Len(s)]
  BY DEF Leads
<1> DEFINE h == [i \in 0..Len(s) + 1 |-> IF i = Len(s) + 1 THEN Take(c, g[Len(s)], b) ELSE g[i]]
<1>2. Trace(c, r, Append(s, b), h)
  BY <1>1, TraceGrows, ZenonT(30)
<1>3. Len(s) \in Nat /\ Len(Append(s, b)) = Len(s) + 1 /\ h[Len(s) + 1] = Take(c, q, b)
  BY <1>1
<1> HIDE DEF h
<1> QED BY <1>2, <1>3 DEF Leads

LEMMA LeadsReader ==
  ASSUME NEW c, NEW r, NEW q, NEW s \in Seq(0..255), Leads(c, r, s, q)
  PROVE  r \in Reader /\ q \in Reader
<1>1. PICK g : Trace(c, r, s, g) /\ q = g[Len(s)]
  BY DEF Leads
<1> QED BY <1>1 DEF Trace

LEMMA LeadsOne ==
  ASSUME NEW c, NEW r \in Reader, NEW b \in 0..255
  PROVE  Leads(c, r, <<b>>, Take(c, r, b))
<1>1. <<>> \in Seq(0..255) /\ Append(<<>>, b) = <<b>>
  OBVIOUS
<1>2. Leads(c, r, <<>>, r)
  BY LeadsNowhere
<1>3. Leads(c, r, Append(<<>>, b), Take(c, r, b))
  BY <1>1, <1>2, LeadsFurther
<1> QED BY <1>1, <1>3

(* Where the bytes are cut makes no difference. *)
LEMMA LeadsOn ==
  ASSUME NEW c, NEW r, NEW q, NEW p, NEW s \in Seq(0..255), NEW t \in Seq(0..255),
         Leads(c, r, s, q), Leads(c, q, t, p)
  PROVE  Leads(c, r, s \o t, p)
<1>1. PICK g : Trace(c, r, s, g) /\ q = g[Len(s)]
  BY DEF Leads
<1>2. PICK h : Trace(c, q, t, h) /\ p = h[Len(t)]
  BY DEF Leads
<1> DEFINE L == Len(s)
           M == Len(t)
           f == [i \in 0..L + M |-> IF i <= L THEN g[i] ELSE h[i - L]]
<1>3. /\ L \in Nat /\ M \in Nat /\ Len(s \o t) = L + M
      /\ \A i \in 1..L : (s \o t)[i] = s[i]
      /\ \A i \in 1..M : (s \o t)[L + i] = t[i]
  OBVIOUS
<1>4. /\ g \in [0..L -> Reader] /\ g[0] = r /\ \A i \in 1..L : g[i] = Take(c, g[i - 1], s[i])
      /\ h \in [0..M -> Reader] /\ h[0] = q /\ \A i \in 1..M : h[i] = Take(c, h[i - 1], t[i])
      /\ q = g[L] /\ p = h[M]
  BY <1>1, <1>2 DEF Trace
<1>a. /\ \A i \in 0..L : f[i] = g[i]
      /\ \A j \in 1..M : f[L + j] = h[j] /\ (L + j) - 1 = L + (j - 1)
      /\ f[L] = h[0]
      /\ f = [i \in 0..L + M |-> f[i]]
      /\ \A i \in 0..L + M : i \in 0..L \/ \E j \in 1..M : i = L + j
  <2>1. /\ \A i \in 0..L : i \in 0..L + M /\ i <= L
        /\ \A j \in 1..M : L + j \in 0..L + M /\ ~ (L + j <= L) /\ (L + j) - L = j /\ (L + j) - 1 = L + (j - 1)
    BY <1>3
  <2>2. ASSUME NEW i \in 0..L + M PROVE i \in 0..L \/ \E j \in 1..M : i = L + j
    <3> DEFINE k == i - L
    <3>1. i \in 0..L \/ (k \in 1..M /\ i = L + k)
      BY <1>3
    <3> HIDE DEF k
    <3> QED BY <3>1
  <2> QED BY <1>4, <2>1, <2>2
<1> HIDE DEF f
<1>5. f \in [0..L + M -> Reader]
  <2>1. ASSUME NEW i \in 0..L + M PROVE f[i] \in Reader
    <3>1. CASE i \in 0..L
      BY <1>4, <1>a, <3>1
    <3>2. ASSUME NEW j \in 1..M, i = L + j PROVE f[i] \in Reader
      <4>1. j \in 0..M
        BY <1>3
      <4> QED BY <1>4, <1>a, <3>2, <4>1
    <3> QED BY <1>a, <3>1, <3>2
  <2> QED BY <1>a, <2>1
<1>6. f[0] = r /\ f[L + M] = p
  <2>1. 0 \in 0..L /\ L \in 0..L /\ (M = 0 \/ M \in 1..M) /\ L + 0 = L
    BY <1>3
  <2> QED BY <1>4, <1>a, <2>1
<1>7. ASSUME NEW i \in 1..L + M PROVE f[i] = Take(c, f[i - 1], (s \o t)[i])
  <2>1. CASE i \in 0..L
    <3>1. i \in 1..L /\ i - 1 \in 0..L
      BY <1>3, <2>1
    <3> QED BY <1>3, <1>4, <1>a, <2>1, <3>1
  <2>2. ASSUME NEW j \in 1..M, i = L + j PROVE f[i] = Take(c, f[i - 1], (s \o t)[i])
    <3>1. f[i] = h[j] /\ h[j] = Take(c, h[j - 1], t[j]) /\ (s \o t)[i] = t[j]
      BY <1>3, <1>4, <1>a, <2>2
    <3>2. i - 1 = L + (j - 1) /\ (j = 1 \/ j - 1 \in 1..M)
      BY <1>3, <2>2
    <3>3. f[i - 1] = h[j - 1]
      <4>1. CASE j = 1
        <5>1. i - 1 = L /\ j - 1 = 0
          BY <1>3, <2>2, <4>1
        <5> QED BY <1>a, <5>1
      <4>2. CASE j - 1 \in 1..M
        BY <1>a, <3>2, <4>2
      <4> QED BY <3>2, <4>1, <4>2
    <3> QED BY <3>1, <3>3
  <2>3. i \in 0..L + M
    BY <1>3
  <2> QED BY <1>a, <2>1, <2>2, <2>3
<1>8. Trace(c, r, s \o t, f)
  BY <1>3, <1>5, <1>6, <1>7 DEF Trace
<1> QED BY <1>3, <1>6, <1>8 DEF Leads

(* Two runs over the same bytes are the same. *)
LEMMA TraceIsOne ==
  ASSUME NEW c, NEW r, NEW s \in Seq(0..255), NEW t \in Seq(0..255),
         NEW g, NEW h, Trace(c, r, s, g), Trace(c, r, s \o t, h)
  PROVE  \A i \in 0..Len(s) : g[i] = h[i]
<1> DEFINE T == {i \in 0..Len(s) : g[i] # h[i]}
<1> SUFFICES ASSUME T # {} PROVE FALSE
  OBVIOUS
<1>1. PICK x \in T : \A y \in T : x <= y
  <2>1. T \subseteq Nat
    OBVIOUS
  <2> HIDE DEF T
  <2> QED BY <2>1, LeastNatural
<1>2. /\ g[0] = r /\ h[0] = r /\ \A i \in 1..Len(s) : g[i] = Take(c, g[i - 1], s[i])
      /\ \A i \in 1..Len(s \o t) : h[i] = Take(c, h[i - 1], (s \o t)[i])
  BY DEF Trace
<1>3. /\ Len(s) \in Nat /\ Len(t) \in Nat /\ Len(s \o t) = Len(s) + Len(t)
      /\ \A i \in 1..Len(s) : (s \o t)[i] = s[i]
  OBVIOUS
<1>4. x \in 1..Len(s) /\ x - 1 \notin T /\ x - 1 \in 0..Len(s) /\ x \in 1..Len(s \o t)
  BY <1>1, <1>2, <1>3
<1>5. g[x - 1] = h[x - 1]
  BY <1>4
<1> QED BY <1>1, <1>2, <1>3, <1>4, <1>5

(* Reading on only adds messages. *)
LEMMA MessagesGrow ==
  ASSUME NEW c, NEW r, NEW q, NEW s \in Seq(0..255), Leads(c, r, s, q)
  PROVE  /\ Len(r.messages) <= Len(q.messages)
         /\ \A k \in 1..Len(r.messages) : q.messages[k] = r.messages[k]
<1>1. PICK g : Trace(c, r, s, g) /\ q = g[Len(s)]
  BY DEF Leads
<1> DEFINE Grown(p) == /\ Len(r.messages) <= Len(p.messages)
                       /\ \A k \in 1..Len(r.messages) : p.messages[k] = r.messages[k]
           T == {i \in 0..Len(s) : ~ Grown(g[i])}
<1>2. g \in [0..Len(s) -> Reader] /\ g[0] = r /\ (\A i \in 1..Len(s) : g[i] = Take(c, g[i - 1], s[i])) /\ r \in Reader
  BY <1>1 DEF Trace
<1>3. CASE T = {}
  <2>1. Grown(g[Len(s)])
    BY <1>3
  <2> QED BY <1>1, <2>1
<1>4. CASE T # {}
  <2> HIDE DEF Grown
  <2>1. PICK x \in T : \A y \in T : x <= y
    <3>1. T \subseteq Nat
      OBVIOUS
    <3> HIDE DEF T
    <3> QED BY <1>4, <3>1, LeastNatural
  <2>2. Grown(g[0])
    BY <1>2 DEF Grown, Reader
  <2>3. x \in 1..Len(s) /\ x - 1 \notin T /\ x - 1 \in 0..Len(s)
    BY <2>1, <2>2
  <2>4. Grown(g[x - 1]) /\ g[x - 1] \in Reader /\ s[x] \in 0..255
    BY <1>2, <2>3, ElementOfSeq
  <2>b. g[x] = Take(c, g[x - 1], s[x])
    BY <1>2, <2>3
  <2>c. ~ Grown(g[x])
    BY <2>1
  <2> HIDE DEF T
  <2> DEFINE a == g[x - 1]
             b == g[x]
  <2>5. b = Take(c, a, s[x])
    BY <2>b
  <2>7. a.messages \in Seq(Seq(Int)) /\ r.messages \in Seq(Seq(Int)) /\ a \in Reader
    BY <1>2, <2>4 DEF Reader
  <2> HIDE DEF a, b
  <2>6. b.messages = a.messages \/ \E m \in Seq(Int) : b.messages = Append(a.messages, m)
    <3>1. s[x] \in 0..255 /\ a \in Reader
      BY <2>4, <2>7
    <3>2. \A e \in 0..255 : \/ Take(c, a, e).messages = a.messages
                            \/ \E m \in Seq(Int) : Take(c, a, e).messages = Append(a.messages, m)
      BY <3>1, TakeReader
    <3> QED BY <2>5, <3>1, <3>2
  <2>8. Grown(a)
    BY <2>4 DEF a
  <2>9. Grown(b)
    <3>1. CASE b.messages = a.messages
      BY <2>8, <3>1 DEF Grown
    <3>2. ASSUME NEW m \in Seq(Int), b.messages = Append(a.messages, m) PROVE Grown(b)
      <4>1. /\ Len(b.messages) = Len(a.messages) + 1 /\ Len(a.messages) \in Nat /\ Len(r.messages) \in Nat
            /\ \A k \in 1..Len(a.messages) : b.messages[k] = a.messages[k]
        BY <2>7, <3>2
      <4>2. Len(r.messages) <= Len(a.messages) /\ \A k \in 1..Len(r.messages) : a.messages[k] = r.messages[k]
        BY <2>8 DEF Grown
      <4>3. Len(r.messages) <= Len(b.messages)
        BY ONLY <4>1, <4>2
      <4>4. ASSUME NEW k \in 1..Len(r.messages) PROVE b.messages[k] = r.messages[k]
        <5>1. k \in 1..Len(a.messages)
          BY ONLY <4>1, <4>2, k \in 1..Len(r.messages)
        <5> QED BY ONLY <4>1, <4>2, <5>1, k \in 1..Len(r.messages)
      <4> QED BY ONLY <4>3, <4>4 DEF Grown
    <3> QED BY <2>6, <3>1, <3>2
  <2> QED BY <2>c, <2>9 DEF b
<1> QED BY <1>3, <1>4

(* What Messages computes is where the run over the wire leads. *)
LEMMA RunExists ==
  ASSUME NEW c, NEW r \in Reader, NEW s \in Seq(0..255)
  PROVE  \E g : Trace(c, r, s, g)
<1> DEFINE P(n) == \E g : Trace(c, r, SubSeq(s, 1, n), g)
           T == {n \in 0..Len(s) : ~ P(n)}
<1>1. Len(s) \in Nat /\ SubSeq(s, 1, Len(s)) = s
  BY SubSeqFull
<1>2. CASE T = {}
  <2>1. P(Len(s))
    BY <1>1, <1>2
  <2> QED BY <1>1, <2>1
<1>3. CASE T # {}
  <2> HIDE DEF P
  <2>1. PICK x \in T : \A y \in T : x <= y
    <3>1. T \subseteq Nat
      OBVIOUS
    <3> HIDE DEF T
    <3> QED BY <1>3, <3>1, LeastNatural
  <2>2. P(0)
    <3>1. SubSeq(s, 1, 0) = <<>>
      BY SubSeqEmpty
    <3> QED BY <3>1, LeadsNowhere DEF P, Leads
  <2>3. x \in 1..Len(s) /\ x - 1 \in 0..Len(s) /\ P(x - 1)
    BY <1>1, <2>1, <2>2
  <2>4. PICK g : Trace(c, r, SubSeq(s, 1, x - 1), g)
    BY <2>3 DEF P
  <2>5. SubSeq(s, 1, x) = Append(SubSeq(s, 1, x - 1), s[x]) /\ SubSeq(s, 1, x - 1) \in Seq(0..255) /\ s[x] \in 0..255
    <3> HIDE DEF T
    <3>0. x \in 1..Len(s) /\ \A i \in 1..x - 1 : i \in 1..Len(s)
      BY <1>1, <2>3
    <3>1. s[x] \in 0..255 /\ \A i \in 1..x - 1 : s[i] \in 0..255
      BY <3>0, ElementOfSeq
    <3>2. SubSeq(s, 1, x - 1) \in Seq(0..255)
      <4>1. x - 1 \in Int
        BY <1>1, <3>0
      <4> QED BY <3>1, <4>1, SubSeqProperties
    <3>3. SubSeq(s, 1, x) = SubSeq(s, 1, x - 1) \o <<s[x]>>
      BY <2>3, SubSeqRecursiveSecond
    <3> DEFINE u == SubSeq(s, 1, x - 1)
               e == s[x]
    <3> HIDE DEF u, e
    <3>4. u \in Seq(0..255) /\ e \in 0..255 => u \o <<e>> = Append(u, e)
      OBVIOUS
    <3> QED BY <3>1, <3>2, <3>3, <3>4 DEF u, e
  <2>6. P(x)
    <3> DEFINE u == SubSeq(s, 1, x - 1)
               e == s[x]
    <3> HIDE DEF T
    <3>1. Trace(c, r, u, g) /\ u \in Seq(0..255) /\ e \in 0..255
      BY <2>4, <2>5
    <3> HIDE DEF u, e
    <3>2. \E h : Trace(c, r, Append(u, e), h)
      BY <3>1, TraceGrows
    <3> QED BY <2>5, <3>2 DEF P, u, e
  <2> QED BY <2>1, <2>6
<1> QED BY <1>2, <1>3

LEMMA MessagesAre ==
  ASSUME NEW c, wire[c] \in Seq(0..255)
  PROVE  \E q : Leads(c, Fresh, wire[c], q) /\ Messages(c) = q.messages
<1> DEFINE s == wire[c]
           read[i \in 0..Len(s)] == IF i = 0 THEN Fresh ELSE Take(c, read[i - 1], s[i])
<1>1. Fresh \in Reader
  BY DEF Fresh, Reader
<1>2. PICK g : Trace(c, Fresh, s, g)
  BY <1>1, RunExists
<1>3. g \in [0..Len(s) -> Reader] /\ g[0] = Fresh /\ (\A i \in 1..Len(s) : g[i] = Take(c, g[i - 1], s[i])) /\ Len(s) \in Nat
  BY <1>2 DEF Trace
<1> DEFINE step(f) == [i \in 0..Len(s) |-> IF i = 0 THEN Fresh ELSE Take(c, f[i - 1], s[i])]
<1>4. g = step(g)
  <2>1. ASSUME NEW i \in 0..Len(s) PROVE g[i] = step(g)[i]
    BY <1>3
  <2>2. DOMAIN g = 0..Len(s) /\ DOMAIN step(g) = 0..Len(s) /\ g = [i \in 0..Len(s) |-> g[i]]
    BY <1>3
  <2> QED BY <2>1, <2>2
<1>5. read = step(read)
  <2> DEFINE F == CHOOSE f : f = step(f)
  <2>1. F = step(F)
    BY <1>4
  <2>2. read = F
    OBVIOUS
  <2> QED BY <2>1, <2>2
<1>6. \A i \in 0..Len(s) : read[i] = g[i]
  <2> DEFINE T == {i \in 0..Len(s) : read[i] # g[i]}
  <2> SUFFICES ASSUME T # {} PROVE FALSE
    OBVIOUS
  <2>0. ASSUME NEW f, f = step(f)
        PROVE  f[0] = Fresh /\ \A i \in 1..Len(s) : f[i] = Take(c, f[i - 1], s[i])
    BY <1>3, <2>0, SMTT(30)
  <2> HIDE DEF read
  <2>1. PICK x \in T : \A y \in T : x <= y
    <3>1. T \subseteq Nat
      OBVIOUS
    <3> HIDE DEF T
    <3> QED BY <3>1, LeastNatural
  <2>2. read[0] = Fresh /\ \A i \in 1..Len(s) : read[i] = Take(c, read[i - 1], s[i])
    BY <1>5, <2>0
  <2>3. x \in 1..Len(s) /\ x - 1 \notin T /\ x - 1 \in 0..Len(s)
    BY <1>3, <2>1, <2>2
  <2>4. read[x - 1] = g[x - 1]
    BY <2>3
  <2> QED BY <1>3, <2>1, <2>2, <2>3, <2>4
<1>7. Messages(c) = read[Len(s)].messages
  BY DEF Messages
<1> HIDE DEF read
<1>8. read[Len(s)] = g[Len(s)]
  BY <1>3, <1>6
<1> QED BY <1>2, <1>7, <1>8 DEF Leads

(* The flattening of the library is concatenation, one sequence after another. *)
LEMMA FlattenIs ==
  ASSUME NEW S, NEW ss \in Seq(Seq(S)), Len(ss) > 0
  PROVE  \E f : /\ f \in [1..Len(ss) -> Seq(S)] /\ f[1] = ss[1]
                /\ \A i \in 2..Len(ss) : f[i] = f[i - 1] \o ss[i]
                /\ FlattenSeq(ss) = f[Len(ss)]
<1> DEFINE L == Len(ss)
           step(f, n) == [i \in 1..n |-> IF i = 1 THEN ss[1] ELSE f[i - 1] \o ss[i]]
           Ok(f, n) == /\ f \in [1..n -> Seq(S)] /\ f[1] = ss[1]
                       /\ \A i \in 2..n : f[i] = f[i - 1] \o ss[i]
           T == {n \in 1..L : ~ \E f : Ok(f, n)}
<1>1. L \in Nat /\ L > 0 /\ \A i \in 1..L : ss[i] \in Seq(S)
  BY ElementOfSeq
<1>2. \E f : Ok(f, L)
  <2>1. CASE T = {}
    <3> HIDE DEF Ok, T
    <3>1. L \in 1..L /\ L \notin T
      BY <1>1, <2>1
    <3> QED BY <3>1 DEF T
  <2>2. CASE T # {}
    <3> HIDE DEF Ok
    <3>1. PICK x \in T : \A y \in T : x <= y
      <4>1. T \subseteq Nat
        OBVIOUS
      <4> HIDE DEF T
      <4> QED BY <2>2, <4>1, LeastNatural
    <3>2. x \in 1..L /\ (~ \E f : Ok(f, x)) /\ x - 1 \notin T
      <4>1. x \in 1..L /\ ~ \E f : Ok(f, x)
        BY <3>1
      <4>2. ~ (x <= x - 1)
        BY <4>1
      <4> QED BY <3>1, <4>1, <4>2
    <3>3. CASE x = 1
      <4> DEFINE f == [i \in {1} |-> ss[1]]
      <4>1. 1..1 = {1} /\ 2..1 = {} /\ ss[1] \in Seq(S)
        BY <1>1
      <4>2. Ok(f, 1)
        BY <4>1 DEF Ok
      <4> QED BY <3>2, <3>3, <4>2
    <3>4. CASE x # 1
      <4>1. x - 1 \in 1..L
        BY <1>1, <3>2, <3>4
      <4>2. PICK f : Ok(f, x - 1)
        BY <3>2, <4>1
      <4> DEFINE y == f[x - 1] \o ss[x]
                 h == [i \in 1..x |-> IF i = x THEN y ELSE f[i]]
      <4>3. f[x - 1] \in Seq(S) /\ ss[x] \in Seq(S)
        BY <1>1, <3>2, <4>1, <4>2 DEF Ok
      <4>4. y \in Seq(S)
        BY <4>3
      <4> HIDE DEF y, T
      <4>5. h \in [1..x -> Seq(S)]
        <5>1. ASSUME NEW i \in 1..x PROVE h[i] \in Seq(S)
          <6>1. i = x \/ i \in 1..x - 1
            BY <3>2
          <6> QED BY <4>2, <4>4, <6>1 DEF Ok
        <5> QED BY <5>1
      <4>6. h[1] = ss[1]
        BY <3>2, <3>4, <4>2 DEF Ok
      <4>7. ASSUME NEW i \in 2..x PROVE h[i] = h[i - 1] \o ss[i]
        <5>1. CASE i = x
          <6>1. h[x] = y /\ h[x - 1] = f[x - 1]
            BY <3>2, <3>4, <4>1
          <6> QED BY <5>1, <6>1 DEF y
        <5>2. CASE i # x
          <6>1. i \in 2..x - 1 /\ h[i] = f[i] /\ h[i - 1] = f[i - 1]
            BY <3>2, <5>2
          <6> QED BY <4>2, <6>1 DEF Ok
        <5> QED BY <5>1, <5>2
      <4>8. Ok(h, x)
        BY <4>5, <4>6, <4>7 DEF Ok
      <4> QED BY <3>2, <4>8
    <3> QED BY <3>3, <3>4
  <2> QED BY <2>1, <2>2
<1>3. PICK g : Ok(g, L)
  BY <1>2
<1>4. g = step(g, L)
  <2>1. ASSUME NEW i \in 1..L PROVE g[i] = step(g, L)[i]
    <3>1. CASE i = 1
      BY <1>1, <1>3, <3>1
    <3>2. CASE i # 1
      <4>1. i \in 2..L
        BY <1>1, <3>2
      <4> QED BY <1>3, <3>2, <4>1
    <3> QED BY <3>1, <3>2
  <2>2. g = [i \in 1..L |-> g[i]]
    BY <1>3
  <2> QED BY <2>1, <2>2
<1> DEFINE F == CHOOSE f : f = step(f, L)
<1>5. F = step(F, L)
  BY <1>4
<1>6. FlattenSeq(ss) = F[L]
  <2> DEFINE flatten[i \in 1..L] == IF i = 1 THEN ss[i] ELSE flatten[i - 1] \o ss[i]
  <2>1. FlattenSeq(ss) = flatten[L]
    BY <1>1 DEF FlattenSeq
  <2>2. flatten = CHOOSE f : f = [i \in 1..L |-> IF i = 1 THEN ss[i] ELSE f[i - 1] \o ss[i]]
    OBVIOUS
  <2>3. \A f : [i \in 1..L |-> IF i = 1 THEN ss[i] ELSE f[i - 1] \o ss[i]] = step(f, L)
    OBVIOUS
  <2> HIDE DEF flatten
  <2>4. flatten = F
    BY <2>2, <2>3
  <2> QED BY <2>1, <2>4
<1> HIDE DEF F
<1>7. F[1] = ss[1] /\ \A i \in 2..L : F[i] = F[i - 1] \o ss[i]
  <2>1. ASSUME NEW f, f = step(f, L) PROVE f[1] = ss[1] /\ \A i \in 2..L : f[i] = f[i - 1] \o ss[i]
    <3>1. f[1] = ss[1]
      BY <1>1, <2>1
    <3>2. ASSUME NEW i \in 2..L PROVE f[i] = f[i - 1] \o ss[i]
      <4>1. i \in 1..L /\ i # 1
        BY <1>1
      <4> QED BY <2>1, <4>1
    <3> QED BY <3>1, <3>2
  <2> QED BY <1>5, <2>1
<1>8. F = [i \in 1..L |-> F[i]]
  <2>1. ASSUME NEW f, f = step(f, L) PROVE f = [i \in 1..L |-> f[i]]
    BY <2>1
  <2> QED BY <1>5, <2>1
<1>9. \A i \in 1..L : F[i] = g[i]
  <2> DEFINE D == {i \in 1..L : F[i] # g[i]}
  <2> SUFFICES ASSUME D # {} PROVE FALSE
    OBVIOUS
  <2>1. PICK x \in D : \A y \in D : x <= y
    <3>1. D \subseteq Nat
      OBVIOUS
    <3> HIDE DEF D
    <3> QED BY <3>1, LeastNatural
  <2>2. x \in 2..L /\ x - 1 \notin D /\ x - 1 \in 1..L
    BY <1>1, <1>3, <1>7, <2>1
  <2>3. F[x - 1] = g[x - 1]
    BY <2>2
  <2> QED BY <1>3, <1>7, <2>1, <2>2, <2>3
<1>10. Ok(F, L)
  <2>1. F \in [1..L -> Seq(S)]
    BY <1>3, <1>8, <1>9
  <2> QED BY <1>7, <2>1
<1> QED BY <1>6, <1>10

LEMMA FlattenBytes ==
  ASSUME NEW S, NEW ss \in Seq(Seq(S)), Len(ss) > 0
  PROVE  FlattenSeq(ss) \in Seq(S)
<1>1. PICK f : f \in [1..Len(ss) -> Seq(S)] /\ FlattenSeq(ss) = f[Len(ss)]
  BY FlattenIs
<1>2. Len(ss) \in 1..Len(ss)
  OBVIOUS
<1> QED BY <1>1, <1>2

(* A run over a flattened sequence is a run over each of its parts. *)
LEMMA FlattenLeads ==
  ASSUME NEW c, NEW ss \in Seq(Seq(0..255)), Len(ss) > 0, NEW g,
         \A i \in 1..Len(ss) : Leads(c, g[i - 1], ss[i], g[i])
  PROVE  Leads(c, g[0], FlattenSeq(ss), g[Len(ss)])
<1> DEFINE L == Len(ss)
<1>1. PICK f : /\ f \in [1..L -> Seq(0..255)] /\ f[1] = ss[1]
               /\ \A i \in 2..L : f[i] = f[i - 1] \o ss[i]
               /\ FlattenSeq(ss) = f[L]
  BY FlattenIs
<1>2. L \in Nat /\ L > 0 /\ \A i \in 1..L : ss[i] \in Seq(0..255)
  BY ElementOfSeq
<1> DEFINE T == {i \in 1..L : ~ Leads(c, g[0], f[i], g[i])}
<1> HIDE DEF L
<1>3. CASE T = {}
  <2>1. Leads(c, g[0], f[L], g[L])
    <3>1. L \in 1..L /\ L \notin T
      BY <1>2, <1>3
    <3> QED BY <3>1
  <2> QED BY <1>1, <2>1 DEF L
<1>4. CASE T # {}
  <2>1. PICK x \in T : \A y \in T : x <= y
    <3>1. T \subseteq Nat
      BY <1>2
    <3> HIDE DEF T
    <3> QED BY <1>4, <3>1, LeastNatural
  <2>2. x \in 1..L /\ ~ Leads(c, g[0], f[x], g[x]) /\ x - 1 \notin T
    BY <1>2, <2>1
  <2>3. Leads(c, g[x - 1], ss[x], g[x])
    BY <2>2 DEF L
  <2>4. CASE x = 1
    <3>1. x - 1 = 0
      BY <2>4
    <3> QED BY <1>1, <2>2, <2>3, <2>4, <3>1
  <2>5. CASE x # 1
    <3>1. x \in 2..L /\ x - 1 \in 1..L
      BY <1>2, <2>2, <2>5
    <3>2. Leads(c, g[0], f[x - 1], g[x - 1])
      BY <2>2, <3>1
    <3>3. f[x] = f[x - 1] \o ss[x] /\ f[x - 1] \in Seq(0..255) /\ ss[x] \in Seq(0..255)
      BY <1>1, <1>2, <3>1
    <3> HIDE DEF T
    <3>4. Leads(c, g[0], f[x - 1] \o ss[x], g[x])
      BY <2>3, <3>2, <3>3, LeadsOn
    <3> QED BY <2>2, <3>3, <3>4
  <2> QED BY <2>4, <2>5
<1> QED BY <1>3, <1>4

LEMMA SubSeqGrows ==
  ASSUME NEW S, NEW s \in Seq(S), NEW i \in 1..Len(s)
  PROVE  /\ SubSeq(s, 1, i - 1) \in Seq(S) /\ Len(SubSeq(s, 1, i - 1)) = i - 1 /\ s[i] \in S
         /\ SubSeq(s, 1, i) = Append(SubSeq(s, 1, i - 1), s[i])
<1> DEFINE u == SubSeq(s, 1, i - 1)
           e == s[i]
<1>1. i \in Int /\ i - 1 \in Nat /\ Len(s) \in Nat /\ e \in S /\ \A j \in 1..i - 1 : s[j] \in S
  BY ElementOfSeq
<1>2. u \in Seq(S) /\ Len(u) = i - 1
  BY <1>1, SubSeqProperties
<1>3. 1 \in 1..Len(s) /\ i \in 1..Len(s)
  OBVIOUS
<1>4. SubSeq(s, 1, i) = u \o <<e>>
  BY <1>3, SubSeqRecursiveSecond
<1> HIDE DEF u, e
<1>5. u \o <<e>> = Append(u, e)
  BY <1>1, <1>2
<1> QED BY <1>1, <1>2, <1>4, <1>5 DEF u, e

-----------------------------------------------------------------------------
(*                             The Beast format                            *)

(* Within a message, with o read of it; a message starts after an escape byte. *)
Within(ms, o) == [messages |-> ms, open |-> o, escaped |-> o = <<>>]
Between(ms) == [messages |-> ms, open |-> <<>>, escaped |-> FALSE]
Pushed(b) == IF b = Esc THEN <<Esc, Esc>> ELSE <<b>>
Whole(m) == IF m[1] = 50 THEN 15 ELSE 22

(* A state of the machine is known by its fields. *)
IsState(q, ms, o, e) == q \in Reader /\ q.messages = ms /\ q.open = o /\ q.escaped = e

LEMMA SameState ==
  ASSUME NEW ms, NEW o, NEW e, NEW r, NEW q, IsState(r, ms, o, e), IsState(q, ms, o, e)
  PROVE  r = q
  BY DEF IsState, Reader

LEMMA WithinIs ==
  ASSUME NEW ms \in Seq(Seq(Int)), NEW o \in Seq(Int)
  PROVE  /\ IsState(Within(ms, o), ms, o, o = <<>>)
         /\ o # <<>> => IsState(Within(ms, o), ms, o, FALSE)
  BY DEF IsState, Within, Reader

LEMMA BetweenIs ==
  ASSUME NEW ms \in Seq(Seq(Int))
  PROVE  IsState(Between(ms), ms, <<>>, FALSE)
<1>1. <<>> \in Seq(Int)
  OBVIOUS
<1> QED BY <1>1 DEF IsState, Between, Reader

LEMMA PushedByte ==
  ASSUME NEW c \in Beast, NEW ms \in Seq(Seq(Int)), NEW o \in Seq(0..255), NEW b \in 0..255,
         o = <<>> => b # Esc
  PROVE  /\ o = <<>> \/ Len(o) + 1 # Whole(Append(o, b)) => Leads(c, Within(ms, o), Pushed(b), Within(ms, Append(o, b)))
         /\ o # <<>> /\ Len(o) + 1 = Whole(Append(o, b)) => Leads(c, Within(ms, o), Pushed(b), Between(Append(ms, Append(o, b))))
<1> DEFINE grown == Append(o, b)
           r == Within(ms, o)
<1>1. /\ grown \in Seq(Int) /\ grown # <<>> /\ Len(grown) = Len(o) + 1 /\ o \in Seq(Int) /\ <<b>> \in Seq(Int)
      /\ <<b>> \in Seq(0..255) /\ <<b, b>> = Append(<<b>>, b)
      /\ Append(ms, grown) \in Seq(Seq(Int)) /\ (o = <<>> => grown = <<b>>)
  <2>1. o \in Seq(Int) /\ b \in Int
    <3>1. 0..255 \subseteq Int
      OBVIOUS
    <3>2. o \in Seq(Int)
      BY <3>1, SeqMonotonic
    <3> QED BY <3>2
  <2>2. grown \in Seq(Int) /\ Len(grown) = Len(o) + 1 /\ grown # <<>>
    <3>1. grown \in Seq(Int) /\ Len(grown) = Len(o) + 1 /\ Len(o) \in Nat
      BY <2>1
    <3> QED BY <3>1
  <2>3. <<b>> \in Seq(0..255) /\ <<b, b>> = Append(<<b>>, b) /\ (o = <<>> => grown = <<b>>)
    <3>1. <<b>> \in Seq(0..255)
      OBVIOUS
    <3>2. <<b, b>> = Append(<<b>>, b)
      OBVIOUS
    <3>3. o = <<>> => grown = <<b>>
      OBVIOUS
    <3> QED BY <3>1, <3>2, <3>3
  <2>4. <<b>> \in Seq(Int)
    BY <2>1
  <2>5. Append(ms, grown) \in Seq(Seq(Int))
    BY <2>2
  <2> QED BY <2>1, <2>2, <2>3, <2>4, <2>5
<1> HIDE DEF grown
<1>2. IsState(r, ms, o, o = <<>>) /\ (o # <<>> => IsState(r, ms, o, FALSE)) /\ r \in Reader
  BY <1>1, WithinIs, ZenonT(30) DEF IsState
<1>3. IsState(Within(ms, grown), ms, grown, FALSE) /\ IsState(Between(Append(ms, grown)), Append(ms, grown), <<>>, FALSE)
  BY <1>1, WithinIs, BetweenIs
<1> HIDE DEF r
<1>4. \A s, e : Take(c, s, e) = BeastByte(s, e)
  BY DEF Take
<1>5. CASE o = <<>>
  <2>1. IsState(r, ms, o, TRUE) /\ b # Esc
    BY <1>2, <1>5
  <2>2. BeastByte(r, b) = [r EXCEPT !.open = <<b>>, !.escaped = FALSE]
    BY <2>1 DEF BeastByte, IsState
  <2>3. IsState([r EXCEPT !.open = <<b>>, !.escaped = FALSE], ms, grown, FALSE)
    BY <1>1, <1>5, <2>1 DEF IsState, Reader
  <2>4. Take(c, r, b) = Within(ms, grown)
    BY <1>3, <1>4, <2>2, <2>3, SameState
  <2>5. Leads(c, r, <<b>>, Take(c, r, b))
    BY <1>2, LeadsOne
  <2>6. Pushed(b) = <<b>>
    BY <2>1 DEF Pushed
  <2> QED BY <1>5, <2>4, <2>5, <2>6 DEF r, grown
<1>6. CASE o # <<>>
  <2> DEFINE q == IF Len(o) + 1 = Whole(grown) THEN Between(Append(ms, grown)) ELSE Within(ms, grown)
             esc == [r EXCEPT !.escaped = TRUE]
  <2>1. ASSUME NEW s, NEW e, IsState(s, ms, o, e), e <=> b = Esc, e \in BOOLEAN
        PROVE  Take(c, s, b) = q
    <3>1. ~ (s.escaped /\ b # Esc) /\ ~ (~ s.escaped /\ b = Esc) /\ Append(s.open, b) = grown /\ s.messages = ms
      BY <2>1 DEF IsState, grown
    <3>2. BeastByte(s, b) = IF Len(grown) = Whole(grown)
                            THEN [messages |-> Append(ms, grown), open |-> <<>>, escaped |-> FALSE]
                            ELSE [s EXCEPT !.open = grown, !.escaped = FALSE]
      BY <3>1 DEF BeastByte, Whole
    <3>3. IsState([s EXCEPT !.open = grown, !.escaped = FALSE], ms, grown, FALSE)
      BY <1>1, <2>1 DEF IsState, Reader
    <3>4. [s EXCEPT !.open = grown, !.escaped = FALSE] = Within(ms, grown)
      BY <1>3, <3>3, SameState
    <3> QED BY <1>1, <1>4, <3>2, <3>4 DEF Between
  <2> HIDE DEF q
  <2>2. CASE b # Esc
    <3>1. Take(c, r, b) = q
      BY <1>2, <1>6, <2>1, <2>2
    <3>2. Leads(c, r, <<b>>, q)
      BY <1>2, <3>1, LeadsOne
    <3>3. Pushed(b) = <<b>>
      BY <2>2 DEF Pushed
    <3> QED BY <1>6, <3>2, <3>3 DEF q, grown, r
  <2>3. CASE b = Esc
    <3>1. IsState(r, ms, o, FALSE)
      BY <1>2, <1>6
    <3>2. BeastByte(r, b) = esc
      BY <2>3, <3>1 DEF BeastByte, IsState
    <3>3. IsState(esc, ms, o, TRUE)
      BY <3>1 DEF IsState, Reader
    <3> HIDE DEF esc
    <3>4. Take(c, esc, b) = q
      BY <2>1, <2>3, <3>3
    <3>5. Leads(c, r, <<b>>, esc)
      BY <1>2, <1>4, <3>2, LeadsOne
    <3>6. Leads(c, r, Append(<<b>>, b), q)
      BY <1>1, <3>4, <3>5, LeadsFurther
    <3>7. Pushed(b) = Append(<<b>>, b)
      BY <1>1, <2>3 DEF Pushed
    <3> QED BY <1>6, <3>6, <3>7 DEF q, grown, r
  <2> QED BY <2>2, <2>3
<1> QED BY <1>5, <1>6

LEMMA PushedIs ==
  ASSUME NEW bytes \in Seq(0..255), Len(bytes) > 0
  PROVE  /\ [i \in 1..Len(bytes) |-> Pushed(bytes[i])] \in Seq(Seq(0..255))
         /\ Len([i \in 1..Len(bytes) |-> Pushed(bytes[i])]) = Len(bytes)
         /\ push_escaped(bytes) = FlattenSeq([i \in 1..Len(bytes) |-> Pushed(bytes[i])])
         /\ push_escaped(bytes) \in Seq(0..255)
<1> DEFINE ss == [i \in 1..Len(bytes) |-> Pushed(bytes[i])]
<1>1. Len(bytes) \in Nat /\ DOMAIN bytes = 1..Len(bytes)
  OBVIOUS
<1>2. \A i \in 1..Len(bytes) : Pushed(bytes[i]) \in Seq(0..255)
  <2> SUFFICES ASSUME NEW i \in 1..Len(bytes) PROVE Pushed(bytes[i]) \in Seq(0..255)
    OBVIOUS
  <2> DEFINE b == bytes[i]
  <2>1. b \in 0..255
    BY ElementOfSeq
  <2> HIDE DEF b
  <2>2. <<b>> \in Seq(0..255) /\ <<26, 26>> \in Seq(0..255)
    BY <2>1
  <2> QED BY <2>2 DEF b, Pushed, Esc
<1>3. ss \in Seq(Seq(0..255)) /\ Len(ss) = Len(bytes)
  BY <1>1, <1>2
<1>4. push_escaped(bytes) = FlattenSeq(ss)
  BY <1>1 DEF push_escaped, Pushed
<1> HIDE DEF ss
<1>5. FlattenSeq(ss) \in Seq(0..255)
  BY <1>3, FlattenBytes
<1> QED BY <1>3, <1>4, <1>5 DEF ss

(* The first bytes of a message, fewer than all. *)
LEMMA HeaderLeads ==
  ASSUME NEW c \in Beast, NEW ms \in Seq(Seq(Int)), NEW h \in Seq(0..255), Len(h) = 8, h[1] \in {50, 51}
  PROVE  Leads(c, Within(ms, <<>>), push_escaped(h), Within(ms, h))
<1> DEFINE ss == [i \in 1..Len(h) |-> Pushed(h[i])]
           g == [i \in 0..8 |-> Within(ms, SubSeq(h, 1, i))]
<1>1. ss \in Seq(Seq(0..255)) /\ Len(ss) = 8 /\ push_escaped(h) = FlattenSeq(ss) /\ Len(ss) > 0
  <2>1. ss \in Seq(Seq(0..255)) /\ Len(ss) = Len(h) /\ push_escaped(h) = FlattenSeq(ss)
    <3>1. Len(h) > 0
      OBVIOUS
    <3> QED BY <3>1, PushedIs, Zenon
  <2> HIDE DEF ss
  <2> QED BY <2>1
<1>2. ASSUME NEW i \in 1..8 PROVE Leads(c, g[i - 1], ss[i], g[i])
  <2> DEFINE o == SubSeq(h, 1, i - 1)
  <2>1. i \in 1..Len(h) /\ i - 1 \in 0..8 /\ i \in 0..8
    OBVIOUS
  <2>2. o \in Seq(0..255) /\ Len(o) = i - 1 /\ h[i] \in 0..255 /\ SubSeq(h, 1, i) = Append(o, h[i])
    BY <2>1, SubSeqGrows, ZenonT(30)
  <2>3. g[i - 1] = Within(ms, o) /\ g[i] = Within(ms, Append(o, h[i])) /\ ss[i] = Pushed(h[i])
    BY <2>1, <2>2
  <2> DEFINE b == h[i]
  <2> HIDE DEF o, ss, g
  <2>4. o = <<>> => b # Esc
    BY <2>2 DEF Esc
  <2>5. Len(o) + 1 # Whole(Append(o, b))
    BY <2>2 DEF Whole
  <2>6. b \in 0..255
    BY <2>2
  <2> HIDE DEF b
  <2>7. Leads(c, Within(ms, o), Pushed(b), Within(ms, Append(o, b)))
    BY <2>2, <2>4, <2>5, <2>6, PushedByte
  <2> QED BY <2>3, <2>7 DEF b
<1>3. g[0] = Within(ms, <<>>) /\ g[8] = Within(ms, h)
  <2>1. SubSeq(h, 1, 0) = <<>>
    BY SubSeqEmpty
  <2>2. SubSeq(h, 1, 8) = h
    BY SubSeqFull
  <2>3. g[0] = Within(ms, SubSeq(h, 1, 0)) /\ g[8] = Within(ms, SubSeq(h, 1, 8))
    OBVIOUS
  <2> HIDE DEF g
  <2> QED BY <2>1, <2>2, <2>3
<1> HIDE DEF ss, g
<1>4. \A i \in 1..Len(ss) : Leads(c, g[i - 1], ss[i], g[i])
  BY <1>1, <1>2
<1>5. Leads(c, g[0], FlattenSeq(ss), g[Len(ss)])
  BY <1>1, <1>4, FlattenLeads
<1> QED BY <1>1, <1>3, <1>5

(* The rest of a message. *)
LEMMA BytesLead ==
  ASSUME NEW c \in Beast, NEW ms \in Seq(Seq(Int)), NEW h \in Seq(0..255), Len(h) = 8,
         NEW bytes \in Seq(0..255), NEW n \in {7, 14}, Len(bytes) = n, h[1] = IF n = 7 THEN 50 ELSE 51
  PROVE  Leads(c, Within(ms, h), push_escaped(bytes), Between(Append(ms, h \o bytes)))
<1>0. n \in Nat /\ n > 0 /\ Len(bytes) > 0
  OBVIOUS
<1> DEFINE ss == [i \in 1..Len(bytes) |-> Pushed(bytes[i])]
           g == [i \in 0..n |-> IF i = n THEN Between(Append(ms, h \o bytes)) ELSE Within(ms, h \o SubSeq(bytes, 1, i))]
<1>1. ss \in Seq(Seq(0..255)) /\ Len(ss) = n /\ push_escaped(bytes) = FlattenSeq(ss) /\ n \in {7, 14} /\ Len(ss) > 0
  <2>1. ss \in Seq(Seq(0..255)) /\ Len(ss) = n /\ push_escaped(bytes) = FlattenSeq(ss)
    BY <1>0, PushedIs, Zenon
  <2> HIDE DEF ss
  <2> QED BY <1>0, <2>1
<1>2. ASSUME NEW i \in 1..n PROVE Leads(c, g[i - 1], ss[i], g[i])
  <2> DEFINE u == SubSeq(bytes, 1, i - 1)
             o == h \o u
             b == bytes[i]
  <2>1. i - 1 \in 0..n /\ i \in 0..n /\ i - 1 # n
    OBVIOUS
  <2>2. u \in Seq(0..255) /\ Len(u) = i - 1 /\ b \in 0..255 /\ SubSeq(bytes, 1, i) = Append(u, b)
    BY SubSeqGrows, ZenonT(30)
  <2>3. o \in Seq(0..255) /\ Len(o) = 8 + (i - 1) /\ o # <<>> /\ o[1] = h[1] /\ h \o Append(u, b) = Append(o, b)
        /\ Append(o, b)[1] = h[1]
    <3> HIDE DEF u, b
    <3>1. o \in Seq(0..255) /\ Len(o) = 8 + (i - 1)
      <4> HIDE DEF u
      <4>1. Len(h \o u) = Len(h) + Len(u) /\ h \o u \in Seq(0..255)
        BY <2>2, ConcatProperties, ZenonT(30)
      <4> QED BY <2>2, <4>1
    <3>2. o # <<>> /\ o[1] = h[1]
      BY <2>2, <3>1
    <3>3. Append(o, b)[1] = o[1]
      <4> HIDE DEF o
      <4> QED BY <2>2, <3>1
    <3>4. h \o Append(u, b) = Append(o, b)
      BY <2>2
    <3> QED BY <3>1, <3>2, <3>3, <3>4
  <2>4. g[i - 1] = Within(ms, o) /\ ss[i] = Pushed(b)
    BY <2>1
  <2>5. i = n => g[i] = Between(Append(ms, Append(o, b)))
    <3>1. i = n => Append(u, b) = bytes
      BY <2>2, SubSeqFull
    <3> QED BY <2>1, <2>3, <3>1
  <2>6. i # n => g[i] = Within(ms, Append(o, b))
    BY <2>1, <2>2, <2>3
  <2>7. i = n <=> Len(o) + 1 = Whole(Append(o, b))
    <3> HIDE DEF o, b
    <3>1. Whole(Append(o, b)) = 8 + n
      <4>1. Whole(Append(o, b)) = IF h[1] = 50 THEN 15 ELSE 22
        BY <2>3 DEF Whole
      <4>2. n \in {7, 14} /\ (h[1] = 50 <=> n = 7)
        OBVIOUS
      <4> QED BY <4>1, <4>2
    <3> QED BY <1>1, <2>3, <3>1
  <2> HIDE DEF o, b, g, ss, u
  <2>8. CASE i = n
    <3>1. Leads(c, Within(ms, o), Pushed(b), Between(Append(ms, Append(o, b))))
      BY <2>2, <2>3, <2>7, <2>8, PushedByte
    <3> QED BY <2>4, <2>5, <2>8, <3>1
  <2>9. CASE i # n
    <3>1. Leads(c, Within(ms, o), Pushed(b), Within(ms, Append(o, b)))
      BY <2>2, <2>3, <2>7, <2>9, PushedByte
    <3> QED BY <2>4, <2>6, <2>9, <3>1
  <2> QED BY <2>8, <2>9
<1>3. g[0] = Within(ms, h) /\ g[n] = Between(Append(ms, h \o bytes))
  <2>1. SubSeq(bytes, 1, 0) = <<>>
    BY SubSeqEmpty
  <2>2. h \o <<>> = h
    BY ConcatEmptySeq
  <2>3. g[0] = Within(ms, h \o SubSeq(bytes, 1, 0)) /\ g[n] = Between(Append(ms, h \o bytes))
    <3>1. n \in {7, 14}
      OBVIOUS
    <3> QED BY <3>1
  <2> HIDE DEF g
  <2> QED BY <2>1, <2>2, <2>3
<1> HIDE DEF ss, g
<1>4. \A i \in 1..Len(ss) : Leads(c, g[i - 1], ss[i], g[i])
  BY <1>1, <1>2
<1>5. Leads(c, g[0], FlattenSeq(ss), g[Len(ss)])
  BY <1>1, <1>4, FlattenLeads
<1> QED BY <1>1, <1>3, <1>5

LEMMA ConcatIs ==
  ASSUME NEW S, NEW s \in Seq(S), NEW t \in Seq(S)
  PROVE  /\ s \o t \in Seq(S) /\ Len(s \o t) = Len(s) + Len(t)
         /\ \A i \in 1..Len(s) : (s \o t)[i] = s[i]
         /\ \A i \in 1..Len(t) : (s \o t)[Len(s) + i] = t[i]
  OBVIOUS

(* The stamp is the time at which the frame was written. *)
LEMMA StampIs ==
  ASSUME NEW m, NEW t \in 0..MaxTime, m[2] = 0, m[3] = 0,
         m[4] = (t \div 256^3) % 256, m[5] = (t \div 256^2) % 256, m[6] = (t \div 256^1) % 256, m[7] = (t \div 256^0) % 256
  PROVE  Stamp(m) = t
<1> DEFINE step(f) == [i \in 1..7 |-> IF i = 1 THEN 0 ELSE 256 * f[i - 1] + m[i]]
           F == CHOOSE f : f = step(f)
           a == t \div 256
           b == a \div 256
           d == b \div 256
<1>1. t \in Nat /\ MaxTime \in Nat /\ t <= MaxTime
  BY FeedsAssumption
<1>2. a \in Nat /\ b \in Nat /\ d \in Nat /\ t = 256 * a + (t % 256) /\ a = 256 * b + (a % 256) /\ b = 256 * d + (b % 256)
  BY <1>1
<1>3. 256^3 = 256 * 256 * 256 /\ 256^2 = 256 * 256 /\ 256^1 = 256 /\ 256^0 = 1
  OBVIOUS
<1>4. m[4] = d /\ m[5] = b % 256 /\ m[6] = a % 256 /\ m[7] = t % 256
  <2>1. t \div (256 * 256 * 256) = d /\ t \div (256 * 256) = b /\ t \div 1 = t
    BY <1>1
  <2>2. d < 256
    <3>1. MaxTime \div (256 * 256 * 256) < 256
      BY <1>3, FeedsAssumption
    <3> QED BY <1>1, <2>1, <3>1
  <2> QED BY <1>2, <1>3, <2>1, <2>2
<1> HIDE DEF a, b, d
<1> DEFINE g == [i \in 1..7 |-> IF i < 4 THEN 0 ELSE IF i = 4 THEN d ELSE IF i = 5 THEN b ELSE IF i = 6 THEN a ELSE t]
<1>5. g = step(g)
  <2>1. ASSUME NEW i \in 1..7 PROVE g[i] = step(g)[i]
    <3>1. CASE i \in {1, 2, 3}
      BY <1>2, <1>4, <3>1
    <3>2. CASE i = 4
      BY <1>2, <1>4, <3>2
    <3>3. CASE i = 5
      BY <1>2, <1>4, <3>3
    <3>4. CASE i = 6
      BY <1>2, <1>4, <3>4
    <3>5. CASE i = 7
      BY <1>1, <1>2, <1>4, <3>5, SMTT(30)
    <3> QED BY <3>1, <3>2, <3>3, <3>4, <3>5
  <2> QED BY <2>1
<1> HIDE DEF g
<1>6. F = step(F)
  BY <1>5
<1>7. Stamp(m) = F[7]
  BY DEF Stamp
<1> HIDE DEF F
<1>8. F[1] = 0 /\ F[2] = 256 * F[1] + m[2] /\ F[3] = 256 * F[2] + m[3] /\ F[4] = 256 * F[3] + m[4]
      /\ F[5] = 256 * F[4] + m[5] /\ F[6] = 256 * F[5] + m[6] /\ F[7] = 256 * F[6] + m[7]
  <2>1. ASSUME NEW f, f = step(f)
        PROVE  f[1] = 0 /\ f[2] = 256 * f[1] + m[2] /\ f[3] = 256 * f[2] + m[3] /\ f[4] = 256 * f[3] + m[4]
               /\ f[5] = 256 * f[4] + m[5] /\ f[6] = 256 * f[5] + m[6] /\ f[7] = 256 * f[6] + m[7]
    BY <2>1
  <2> QED BY <1>6, <2>1
<1>9. F[4] = d /\ F[5] = b /\ F[6] = a /\ F[7] = t
  BY <1>2, <1>4, <1>8
<1> QED BY <1>7, <1>9

LEMMA BeastMessage ==
  ASSUME NEW c \in Beast, NEW ms \in Seq(Seq(Int)), NEW f \in Frames, time \in 0..MaxTime
  PROVE  /\ encode_beast_frame(f) \in Seq(0..255)
         /\ \E m \in Seq(Int) : /\ Leads(c, Between(ms), encode_beast_frame(f), Between(Append(ms, m)))
                                /\ Payload(c, m) = f.bytes /\ Stamp(m) = time
<1> DEFINE mode == IF Len(f.bytes) = 7 THEN 50 ELSE 51
           n == Len(f.bytes)
           bytes == f.bytes
           ts == mlat_timestamp(time)
           h == <<mode>> \o ts \o <<f.confidence>>
           m == h \o bytes
<1>1. bytes \in Seq(0..255) /\ n \in {7, 14} /\ f.confidence \in 0..255 /\ mode \in {50, 51} /\ n > 0 /\ n \in Nat
  <2>1. bytes \in Seq(0..255) /\ n \in {7, 14} /\ f.confidence \in 0..255
    BY FeedsAssumption
  <2>2. mode \in {50, 51}
    OBVIOUS
  <2> HIDE DEF n
  <2>3. n > 0 /\ n \in Nat
    BY <2>1
  <2> QED BY <2>1, <2>2, <2>3
<1>2. ts \in Seq(0..255) /\ Len(ts) = 6 /\ ts[1] = 0 /\ ts[2] = 0
      /\ ts[3] = (time \div 256^3) % 256 /\ ts[4] = (time \div 256^2) % 256
      /\ ts[5] = (time \div 256^1) % 256 /\ ts[6] = (time \div 256^0) % 256
  <2>1. time \in Nat /\ 256^3 = 256 * 256 * 256 /\ 256^2 = 256 * 256 /\ 256^1 = 256 /\ 256^0 = 1
    BY FeedsAssumption
  <2>2. ts[1] = 0 /\ ts[2] = 0
        /\ ts[3] = (time \div 256^3) % 256 /\ ts[4] = (time \div 256^2) % 256
        /\ ts[5] = (time \div 256^1) % 256 /\ ts[6] = (time \div 256^0) % 256
    BY DEF mlat_timestamp
  <2>3. ts[1] \in 0..255 /\ ts[2] \in 0..255 /\ ts[3] \in 0..255 /\ ts[4] \in 0..255 /\ ts[5] \in 0..255 /\ ts[6] \in 0..255
    BY <2>1, <2>2
  <2>4. ASSUME NEW i \in 1..6 PROVE ts[i] \in 0..255
    <3>1. i = 1 \/ i = 2 \/ i = 3 \/ i = 4 \/ i = 5 \/ i = 6
      OBVIOUS
    <3> QED BY <2>3, <3>1
  <2>5. ts = [i \in 1..6 |-> ts[i]]
    BY DEF mlat_timestamp
  <2> HIDE DEF ts
  <2>6. [i \in 1..6 |-> ts[i]] \in Seq(0..255) /\ Len([i \in 1..6 |-> ts[i]]) = 6
    BY <2>4
  <2>7. ts \in Seq(0..255) /\ Len(ts) = 6
    BY <2>5, <2>6
  <2> QED BY <2>2, <2>7
<1> HIDE DEF ts, mode, n, bytes
<1>3. h \in Seq(0..255) /\ Len(h) = 8 /\ h[1] = mode /\ \A i \in 1..6 : h[i + 1] = ts[i]
  <2> DEFINE p == <<mode>>
             q == <<f.confidence>>
             v == p \o ts
  <2>1. p \in Seq(0..255) /\ q \in Seq(0..255) /\ ts \in Seq(0..255)
    <3>1. mode \in 0..255
      BY <1>1
    <3> QED BY <1>1, <1>2, <3>1
  <2>2. Len(p) = 1 /\ p[1] = mode /\ Len(q) = 1 /\ Len(ts) = 6
    BY <1>2
  <2>3. h = v \o q
    OBVIOUS
  <2> HIDE DEF p, q
  <2>4. /\ v \in Seq(0..255) /\ Len(v) = Len(p) + Len(ts)
        /\ (\A i \in 1..Len(p) : v[i] = p[i]) /\ \A i \in 1..Len(ts) : v[Len(p) + i] = ts[i]
    BY ONLY <2>1, ConcatIs
  <2> HIDE DEF v, h
  <2>5. /\ v \o q \in Seq(0..255) /\ Len(v \o q) = Len(v) + Len(q)
        /\ \A i \in 1..Len(v) : (v \o q)[i] = v[i]
    <3>1. v \in Seq(0..255) /\ q \in Seq(0..255)
      BY ONLY <2>1, <2>4
    <3> QED BY ONLY <3>1, ConcatIs
  <2>6. Len(v) = 7 /\ v[1] = mode /\ \A i \in 1..6 : v[i + 1] = ts[i]
    <3>1. Len(v) = 7
      BY ONLY <2>2, <2>4
    <3>2. 1 \in 1..Len(p)
      BY ONLY <2>2
    <3>3. v[1] = mode
      BY ONLY <2>2, <2>4, <3>2
    <3>4. ASSUME NEW i \in 1..6 PROVE v[i + 1] = ts[i]
      <4>1. i \in 1..Len(ts) /\ Len(p) + i = i + 1
        BY <2>2
      <4> QED BY ONLY <2>4, <4>1
    <3> QED BY ONLY <3>1, <3>3, <3>4
  <2> QED BY ONLY <2>2, <2>3, <2>5, <2>6
<1> HIDE DEF h
<1>4. m \in Seq(0..255) /\ Len(m) = 8 + n /\ (\A i \in 1..8 : m[i] = h[i]) /\ \A i \in 1..n : m[8 + i] = bytes[i]
  <2>1. Len(bytes) = n
    BY DEF n, bytes
  <2>2. h \in Seq(0..255) /\ bytes \in Seq(0..255)
    BY <1>1, <1>3
  <2>3. /\ m \in Seq(0..255) /\ Len(m) = Len(h) + Len(bytes)
        /\ \A i \in 1..Len(h) : m[i] = h[i]
        /\ \A i \in 1..Len(bytes) : m[Len(h) + i] = bytes[i]
    BY ONLY <2>2, ConcatIs
  <2>4. Len(h) = 8
    BY <1>3
  <2> QED BY ONLY <2>1, <2>3, <2>4
<1> HIDE DEF m
<1>5. m \in Seq(Int)
  <2>1. 0..255 \subseteq Int
    OBVIOUS
  <2> QED BY <1>4, <2>1, SeqMonotonic
<1>6. Payload(c, m) = bytes
  <2> DEFINE p == SubSeq(m, 9, Len(m))
  <2>1. Payload(c, m) = p
    BY DEF Payload
  <2>2. p \in Seq(0..255) /\ Len(p) = n /\ \A i \in 1..n : p[i] = m[8 + i]
    <3>1. \A i \in 9..8 + n : i \in 1..Len(m) /\ m[i] \in 0..255
      <4>1. \A i \in 9..8 + n : i \in 1..Len(m)
        BY <1>1, <1>4
      <4> QED BY <1>4, <4>1, ElementOfSeq, ZenonT(30)
    <3>2. 9 \in Int /\ 8 + n \in Int
      BY <1>1
    <3>3. p \in Seq(0..255)
      BY <1>4, <3>1, <3>2, SubSeqProperties
    <3>4. Len(p) = n /\ \A i \in 1..n : p[i] = m[8 + i]
      BY <1>1, <1>4
    <3> QED BY <3>3, <3>4
  <2> HIDE DEF p
  <2>a. Len(bytes) = n
    BY DEF n, bytes
  <2>b. \A i \in 1..n : p[i] = bytes[i]
    BY ONLY <1>4, <2>2
  <2>c. bytes \in Seq(0..255)
    BY <1>1
  <2>3. p = bytes
    <3> DEFINE S == 0..255
    <3>1. p \in Seq(S) /\ bytes \in Seq(S) /\ Len(p) = Len(bytes) /\ \A i \in 1..Len(p) : p[i] = bytes[i]
      BY ONLY <2>2, <2>a, <2>b, <2>c
    <3> HIDE DEF S
    <3> QED BY ONLY <3>1, SeqEqual
  <2> QED BY <2>1, <2>3
<1>7. Stamp(m) = time
  <2>1. m[2] = ts[1] /\ m[3] = ts[2] /\ m[4] = ts[3] /\ m[5] = ts[4] /\ m[6] = ts[5] /\ m[7] = ts[6]
    BY <1>3, <1>4
  <2>2. m[2] = 0 /\ m[3] = 0 /\ m[4] = (time \div 256^3) % 256 /\ m[5] = (time \div 256^2) % 256
        /\ m[6] = (time \div 256^1) % 256 /\ m[7] = (time \div 256^0) % 256
    BY <1>2, <2>1
  <2> QED BY <2>2, StampIs, Zenon
<1>8. Leads(c, Between(ms), <<Esc>>, Within(ms, <<>>))
  <2>1. IsState(Between(ms), ms, <<>>, FALSE) /\ IsState(Within(ms, <<>>), ms, <<>>, TRUE)
    <3>1. <<>> \in Seq(Int)
      OBVIOUS
    <3> QED BY <3>1, BetweenIs, WithinIs
  <2> DEFINE r == Between(ms)
             q == [r EXCEPT !.escaped = TRUE]
  <2> HIDE DEF r
  <2>2. IsState(q, ms, <<>>, TRUE)
    BY <2>1 DEF r, IsState, Reader
  <2>3. Take(c, r, Esc) = q
    <3>1. Take(c, r, Esc) = BeastByte(r, Esc)
      BY DEF Take
    <3>2. BeastByte(r, Esc) = q
      BY <2>1 DEF BeastByte, IsState, r
    <3> QED BY <3>1, <3>2
  <2> HIDE DEF q
  <2>4. q = Within(ms, <<>>)
    BY <2>1, <2>2, SameState
  <2>5. Esc \in 0..255 /\ r \in Reader
    BY <2>1 DEF Esc, IsState, r
  <2>6. Leads(c, r, <<Esc>>, Take(c, r, Esc))
    BY <2>5, LeadsOne
  <2> QED BY <2>3, <2>4, <2>6 DEF r
<1>9. Leads(c, Within(ms, <<>>), push_escaped(h), Within(ms, h)) /\ push_escaped(h) \in Seq(0..255)
  <2>1. Len(h) > 0 /\ h[1] \in {50, 51}
    BY <1>1, <1>3
  <2> QED BY <1>3, <2>1, HeaderLeads, PushedIs
<1>10. Leads(c, Within(ms, h), push_escaped(bytes), Between(Append(ms, m))) /\ push_escaped(bytes) \in Seq(0..255)
  <2>1. Len(bytes) = n /\ Len(bytes) > 0 /\ h[1] = IF n = 7 THEN 50 ELSE 51
    BY <1>1, <1>3 DEF mode, n, bytes
  <2>2. Leads(c, Within(ms, h), push_escaped(bytes), Between(Append(ms, h \o bytes)))
    BY <1>1, <1>3, <2>1, BytesLead
  <2> QED BY <1>1, <2>1, <2>2, PushedIs DEF m
<1>11. /\ <<Esc>> \in Seq(0..255) /\ <<Esc>> \o push_escaped(h) \in Seq(0..255)
       /\ (<<Esc>> \o push_escaped(h)) \o push_escaped(bytes) \in Seq(0..255)
  <2>1. <<Esc>> \in Seq(0..255)
    BY DEF Esc
  <2> QED BY <1>9, <1>10, <2>1, ConcatProperties
<1>12. Leads(c, Between(ms), <<Esc>> \o push_escaped(h), Within(ms, h))
  BY <1>8, <1>9, <1>11, LeadsOn
<1>13. Leads(c, Between(ms), (<<Esc>> \o push_escaped(h)) \o push_escaped(bytes), Between(Append(ms, m)))
  BY <1>10, <1>11, <1>12, LeadsOn
<1>14. encode_beast_frame(f) = (<<Esc>> \o push_escaped(h)) \o push_escaped(bytes)
  BY DEF encode_beast_frame, h, mode, ts, bytes, n
<1> QED BY <1>5, <1>6, <1>7, <1>11, <1>13, <1>14 DEF bytes

-----------------------------------------------------------------------------
(*                              The AVR format                             *)

(* Within a line, or after one: what is left of it is cleared by the next star. *)
Spelt(ms, o) == [messages |-> ms, open |-> o, escaped |-> FALSE]

HexPair(b) == <<Digit(b \div 16), Digit(b % 16)>>

(* The values of the first digits, two for each of i bytes. *)
Nibbles(bytes, i) ==
  [j \in 1..2 * i |-> IF (j % 2) = 1 THEN bytes[(j + 1) \div 2] \div 16 ELSE (bytes[j \div 2]) % 16]

LEMMA SpeltIs ==
  ASSUME NEW ms \in Seq(Seq(Int)), NEW o \in Seq(Int)
  PROVE  IsState(Spelt(ms, o), ms, o, FALSE)
  BY DEF IsState, Spelt, Reader

LEMMA DigitTaken ==
  ASSUME NEW c, ~ (c \in Beast), NEW ms \in Seq(Seq(Int)), NEW o \in Seq(Int), NEW d \in 0..15
  PROVE  Take(c, Spelt(ms, o), Digit(d)) = Spelt(ms, Append(o, d))
<1> DEFINE r == Spelt(ms, o)
           b == Digit(d)
<1>1. b \in 48..70 /\ (IF b < 58 THEN b - 48 ELSE b - 55) = d /\ b \notin {42, 59, 10, 13}
  BY DEF Digit
<1> HIDE DEF b
<1>2. IsState(r, ms, o, FALSE) /\ Append(o, d) \in Seq(Int)
  <2>1. d \in Int
    OBVIOUS
  <2>2. Append(o, d) \in Seq(Int)
    BY <2>1
  <2>3. IsState(r, ms, o, FALSE)
    BY SpeltIs
  <2> QED BY <2>2, <2>3
<1>3. Take(c, r, b) = AvrByte(r, b)
  BY DEF Take
<1> HIDE DEF r
<1>4. AvrByte(r, b) = [r EXCEPT !.open = Append(@, d)]
  BY <1>1 DEF AvrByte
<1>5. IsState([r EXCEPT !.open = Append(@, d)], ms, Append(o, d), FALSE)
  BY <1>2 DEF IsState, Reader
<1>6. [r EXCEPT !.open = Append(@, d)] = Spelt(ms, Append(o, d))
  BY <1>2, <1>5, SpeltIs, SameState
<1> QED BY <1>3, <1>4, <1>6 DEF r, b

LEMMA ThreeBytes ==
  ASSUME NEW x \in Int, NEW y \in Int, NEW z \in Int
  PROVE  Append(Append(<<x>>, y), z) = <<x, y, z>>
<1>1. ASSUME NEW s \in Seq(Int), NEW n \in Nat, Len(s) = n, NEW e \in Int
      PROVE  /\ Append(s, e) \in Seq(Int) /\ Len(Append(s, e)) = n + 1
             /\ Append(s, e)[n + 1] = e /\ \A i \in 1..n : Append(s, e)[i] = s[i]
  BY <1>1, AppendProperties
<1> DEFINE s == <<x>>
           t == Append(s, y)
           u == Append(t, z)
           v == <<x, y, z>>
<1>2. s \in Seq(Int) /\ Len(s) = 1 /\ s[1] = x
  OBVIOUS
<1>5. v \in Seq(Int) /\ Len(v) = 3 /\ v[1] = x /\ v[2] = y /\ v[3] = z
  OBVIOUS
<1> HIDE DEF s, v
<1>a. t \in Seq(Int) /\ Len(t) = 1 + 1 /\ t[1 + 1] = y /\ \A i \in 1..1 : t[i] = s[i]
  <2>1. 1 \in Nat
    OBVIOUS
  <2> QED BY ONLY <1>1, <1>2, <2>1, y \in Int, SMTT(30)
<1> HIDE DEF t
<1>b. t \in Seq(Int) /\ Len(t) = 2 /\ t[1] = x /\ t[2] = y
  BY <1>2, <1>a
<1>c. u \in Seq(Int) /\ Len(u) = 2 + 1 /\ u[2 + 1] = z /\ \A i \in 1..2 : u[i] = t[i]
  <2>1. 2 \in Nat
    OBVIOUS
  <2> QED BY ONLY <1>1, <1>b, <2>1, z \in Int, ZenonT(30)
<1> HIDE DEF u
<1>3. u \in Seq(Int) /\ Len(u) = 3 /\ u[1] = x /\ u[2] = y /\ u[3] = z
  BY <1>b, <1>c
<1>6. \A i \in 1..3 : i = 1 \/ i = 2 \/ i = 3
  OBVIOUS
<1>7. \A i \in 1..Len(u) : u[i] = v[i]
  BY <1>3, <1>5, <1>6
<1>8. u = v
  BY <1>3, <1>5, <1>7, SeqEqual
<1> QED BY <1>8 DEF u, v, t, s

LEMMA Halves ==
  ASSUME NEW b \in 0..255
  PROVE  16 * (b \div 16) + (b % 16) = b
  OBVIOUS

LEMMA PairLeads ==
  ASSUME NEW c, ~ (c \in Beast), NEW ms \in Seq(Seq(Int)), NEW o \in Seq(Int), NEW x \in 0..15, NEW y \in 0..15
  PROVE  /\ <<Digit(x), Digit(y)>> \in Seq(0..255)
         /\ Leads(c, Spelt(ms, o), <<Digit(x), Digit(y)>>, Spelt(ms, Append(Append(o, x), y)))
<1> DEFINE p == Digit(x)
           q == Digit(y)
           u == Append(o, x)
<1>0. \A v \in Seq(Int), d \in 0..15 :
        /\ Digit(d) \in 0..255 /\ Append(v, d) \in Seq(Int)
        /\ Take(c, Spelt(ms, v), Digit(d)) = Spelt(ms, Append(v, d))
  <2> TAKE v \in Seq(Int), d \in 0..15
  <2> HIDE DEF p, q, u
  <2>1. c \notin Beast /\ v \in Seq(Int) /\ d \in 0..15 /\ ms \in Seq(Seq(Int))
    OBVIOUS
  <2>2. Digit(d) \in 0..255
    BY DEF Digit
  <2>3. Append(v, d) \in Seq(Int)
    <3>1. d \in Int
      OBVIOUS
    <3> QED BY <2>1, <3>1
  <2>4. Take(c, Spelt(ms, v), Digit(d)) = Spelt(ms, Append(v, d))
    BY ONLY <2>1, DigitTaken, Zenon
  <2> QED BY <2>2, <2>3, <2>4
<1>1. p \in 0..255 /\ u \in Seq(Int) /\ Take(c, Spelt(ms, o), p) = Spelt(ms, u)
  BY <1>0
<1> HIDE DEF u
<1>2. q \in 0..255 /\ Take(c, Spelt(ms, u), q) = Spelt(ms, Append(u, y))
  BY <1>0, <1>1
<1> HIDE DEF p, q
<1>3. <<p>> \in Seq(0..255) /\ <<p, q>> = Append(<<p>>, q) /\ <<p, q>> \in Seq(0..255)
  BY <1>1, <1>2
<1>4. Leads(c, Spelt(ms, o), <<p>>, Spelt(ms, u))
  <2>1. Spelt(ms, o) \in Reader
    BY SpeltIs DEF IsState
  <2>2. Leads(c, Spelt(ms, o), <<p>>, Take(c, Spelt(ms, o), p))
    BY <1>1, <2>1, LeadsOne
  <2> QED BY <1>1, <2>2
<1>5. Leads(c, Spelt(ms, o), Append(<<p>>, q), Spelt(ms, Append(u, y)))
  BY <1>2, <1>3, <1>4, LeadsFurther, ZenonT(30)
<1> QED BY <1>3, <1>5 DEF p, q, u

LEMMA NibblesGrow ==
  ASSUME NEW bytes \in Seq(0..255), NEW i \in 1..Len(bytes)
  PROVE  /\ Nibbles(bytes, i - 1) \in Seq(Int)
         /\ Nibbles(bytes, i) = Append(Append(Nibbles(bytes, i - 1), bytes[i] \div 16), bytes[i] % 16)
<1> DEFINE k == 2 * (i - 1)
           x == bytes[i] \div 16
           y == bytes[i] % 16
           f(j) == IF (j % 2) = 1 THEN bytes[(j + 1) \div 2] \div 16 ELSE (bytes[j \div 2]) % 16
           u == Nibbles(bytes, i - 1)
           w == Nibbles(bytes, i)
<1>1. i \in Nat /\ i >= 1 /\ Len(bytes) \in Nat /\ k \in Nat /\ 2 * i = k + 2
  OBVIOUS
<1>2. ASSUME NEW j \in 1..2 * i PROVE f(j) \in Int
  <2>1. (j % 2) = 1 => (j + 1) \div 2 \in 1..i
    BY <1>1
  <2>2. (j % 2) # 1 => j \div 2 \in 1..i
    BY <1>1
  <2>3. \A n \in 1..i : bytes[n] \in 0..255
    <3>1. \A n \in 1..i : n \in 1..Len(bytes)
      BY <1>1
    <3> QED BY <3>1, ElementOfSeq
  <2> DEFINE a == bytes[(j + 1) \div 2]
             b == bytes[j \div 2]
  <2>4. CASE (j % 2) = 1
    <3>1. a \in 0..255
      BY <2>1, <2>3, <2>4
    <3>2. f(j) = a \div 16
      BY <2>4
    <3> HIDE DEF a
    <3>3. a \div 16 \in Int
      BY <3>1
    <3> HIDE DEF f
    <3> QED BY <3>2, <3>3
  <2>5. CASE (j % 2) # 1
    <3>1. b \in 0..255
      BY <2>2, <2>3, <2>5
    <3>2. f(j) = b % 16
      BY <2>5
    <3> HIDE DEF b
    <3>3. b % 16 \in Int
      BY <3>1
    <3> HIDE DEF f
    <3> QED BY <3>2, <3>3
  <2> QED BY <2>4, <2>5
<1>3. f(k + 1) = x /\ f(k + 2) = y
  <2>1. ((k + 1) % 2) = 1 /\ ((k + 1) + 1) \div 2 = i /\ ((k + 2) % 2) = 0 /\ (k + 2) \div 2 = i
    BY <1>1
  <2> QED BY <2>1
<1>4. u = [j \in 1..k |-> f(j)] /\ w = [j \in 1..k + 2 |-> f(j)]
  BY <1>1 DEF Nibbles
<1>5. /\ \A j \in 1..k : f(j) \in Int
      /\ x \in Int /\ y \in Int
  <2> HIDE DEF f, x, y, k
  <2>1. \A j \in 1..k : j \in 1..2 * i
    BY <1>1
  <2>2. k + 1 \in 1..2 * i /\ k + 2 \in 1..2 * i
    BY <1>1
  <2> QED BY <1>2, <1>3, <2>1, <2>2
<1> HIDE DEF k, x, y, u, w, f
<1>6. u \in Seq(Int) /\ Len(u) = k /\ \A j \in 1..k : u[j] = f(j)
  BY <1>1, <1>4, <1>5
<1> DEFINE v == Append(u, x)
<1>7. v \in Seq(Int) /\ Len(v) = k + 1 /\ (\A j \in 1..k : v[j] = f(j)) /\ v[k + 1] = x
  BY <1>1, <1>5, <1>6
<1> HIDE DEF v
<1> DEFINE z == Append(v, y)
<1>8. z \in Seq(Int) /\ Len(z) = k + 2 /\ (\A j \in 1..k + 1 : z[j] = v[j]) /\ z[k + 2] = y
  BY <1>1, <1>5, <1>7
<1> HIDE DEF z
<1>9. ASSUME NEW j \in 1..k + 2 PROVE w[j] = z[j]
  <2>1. CASE j \in 1..k
    <3>1. z[j] = v[j]
      <4>1. j \in 1..k + 1
        BY ONLY <1>1, <2>1
      <4> QED BY ONLY <1>8, <4>1
    <3> QED BY <1>4, <1>7, <2>1, <3>1
  <2>2. CASE j = k + 1
    BY <1>1, <1>3, <1>4, <1>7, <1>8, <2>2
  <2>3. CASE j = k + 2
    BY <1>1, <1>3, <1>4, <1>8, <2>3
  <2> QED BY <1>1, <2>1, <2>2, <2>3
<1>10. w \in Seq(Int) /\ Len(w) = k + 2
  <2>1. \A j \in 1..k + 2 : z[j] \in Int
    BY <1>8, ElementOfSeq
  <2>2. \A j \in 1..k + 2 : f(j) \in Int
    BY <1>4, <1>9, <2>1
  <2> QED BY <1>1, <1>4, <2>2
<1>11. w = z
  BY <1>8, <1>9, <1>10, SeqEqual
<1> QED BY <1>6, <1>11 DEF u, v, w, z, x, y

LEMMA LineMessage ==
  ASSUME NEW c, ~ (c \in Beast), NEW ms \in Seq(Seq(Int)), NEW o \in Seq(Int), NEW f \in Frames
  PROVE  /\ Line(f) \in Seq(0..255)
         /\ \E m \in Seq(Int) : Leads(c, Spelt(ms, o), Line(f), Spelt(Append(ms, m), m)) /\ Payload(c, m) = f.bytes
<1> DEFINE bytes == f.bytes
           n == Len(bytes)
           ss == [i \in 1..n |-> HexPair(bytes[i])]
           m == Nibbles(bytes, n)
           g == [i \in 0..n |-> Spelt(ms, Nibbles(bytes, i))]
<1>1. bytes \in Seq(0..255) /\ n \in Nat /\ n > 0 /\ DOMAIN bytes = 1..n
  <2>1. bytes \in Seq(0..255) /\ n \in {7, 14}
    BY FeedsAssumption
  <2>2. n \in Nat /\ DOMAIN bytes = 1..n
    BY <2>1
  <2> HIDE DEF n, bytes
  <2> QED BY <2>1, <2>2
<1> HIDE DEF bytes
<1>2. ASSUME NEW i \in 1..n
      PROVE  /\ ss[i] \in Seq(0..255) /\ Nibbles(bytes, i) \in Seq(Int)
             /\ Leads(c, g[i - 1], ss[i], g[i])
  <2> DEFINE b == bytes[i]
             x == b \div 16
             y == b % 16
             u == Nibbles(bytes, i - 1)
  <2>1. b \in 0..255
    BY <1>1, ElementOfSeq
  <2> HIDE DEF b
  <2>2. x \in 0..15 /\ y \in 0..15
    BY <2>1
  <2>3. u \in Seq(Int) /\ Nibbles(bytes, i) = Append(Append(u, x), y)
    BY <1>1, NibblesGrow DEF b
  <2>4. ss[i] = <<Digit(x), Digit(y)>> /\ g[i - 1] = Spelt(ms, u) /\ g[i] = Spelt(ms, Nibbles(bytes, i))
    BY <1>1 DEF HexPair, b
  <2> HIDE DEF x, y, u, ss, g
  <2>5. x \in Int /\ y \in Int
    BY <2>2
  <2>6. Append(u, x) \in Seq(Int)
    BY <2>3, <2>5
  <2>7. Append(Append(u, x), y) \in Seq(Int)
    BY <2>5, <2>6
  <2>8. <<Digit(x), Digit(y)>> \in Seq(0..255) /\ Leads(c, Spelt(ms, u), <<Digit(x), Digit(y)>>, Spelt(ms, Append(Append(u, x), y)))
    BY <2>2, <2>3, PairLeads
  <2> QED BY <2>3, <2>4, <2>7, <2>8
<1>3. ss \in Seq(Seq(0..255)) /\ Len(ss) = n
  <2>1. \A i \in 1..n : HexPair(bytes[i]) \in Seq(0..255)
    BY <1>2
  <2> QED BY <1>1, <2>1
<1>4. m \in Seq(Int) /\ g[n] = Spelt(ms, m) /\ g[0] = Spelt(ms, <<>>)
  <2>1. n \in 1..n /\ 0 \in 0..n /\ n \in 0..n
    BY <1>1
  <2>2. Nibbles(bytes, 0) = <<>>
    <3>1. 2 * 0 = 0 /\ 1..0 = {}
      OBVIOUS
    <3> QED BY <3>1 DEF Nibbles
  <2> QED BY <1>2, <2>1, <2>2
<1>5. Line(f) = (<<42>> \o FlattenSeq(ss)) \o <<59, 13, 10>>
  BY <1>1 DEF Line, HexPair, bytes
<1> HIDE DEF ss, g, n
<1>6. Leads(c, Spelt(ms, <<>>), FlattenSeq(ss), Spelt(ms, m)) /\ FlattenSeq(ss) \in Seq(0..255)
  <2>1. Len(ss) > 0 /\ \A i \in 1..Len(ss) : Leads(c, g[i - 1], ss[i], g[i])
    BY <1>1, <1>2, <1>3
  <2>2. Leads(c, g[0], FlattenSeq(ss), g[Len(ss)]) /\ FlattenSeq(ss) \in Seq(0..255)
    BY <1>3, <2>1, FlattenLeads, FlattenBytes
  <2> QED BY <1>3, <1>4, <2>2
<1> HIDE DEF m
<1>7. Leads(c, Spelt(ms, o), <<42>>, Spelt(ms, <<>>))
  <2> DEFINE r == Spelt(ms, o)
             q == [r EXCEPT !.open = <<>>]
  <2>1. IsState(r, ms, o, FALSE) /\ <<>> \in Seq(Int)
    <3>1. <<>> \in Seq(Int)
      OBVIOUS
    <3> QED BY <3>1, SpeltIs
  <2>2. Take(c, r, 42) = AvrByte(r, 42)
    BY DEF Take
  <2> HIDE DEF r
  <2>3. AvrByte(r, 42) = q
    BY DEF AvrByte
  <2>4. IsState(q, ms, <<>>, FALSE)
    BY <2>1 DEF IsState, Reader
  <2>5. q = Spelt(ms, <<>>)
    BY <2>1, <2>4, SpeltIs, SameState
  <2>6. Leads(c, r, <<42>>, Take(c, r, 42))
    BY <2>1, LeadsOne, SMTT(30) DEF IsState
  <2> QED BY <2>2, <2>3, <2>5, <2>6 DEF r
<1>8. Leads(c, Spelt(ms, m), <<59, 13, 10>>, Spelt(Append(ms, m), m))
  <2> DEFINE r == Spelt(ms, m)
             q == [r EXCEPT !.messages = Append(@, r.open)]
             d == Spelt(Append(ms, m), m)
  <2>1. IsState(r, ms, m, FALSE) /\ Append(ms, m) \in Seq(Seq(Int))
    <3>1. Append(ms, m) \in Seq(Seq(Int))
      BY <1>4
    <3> QED BY <1>4, <3>1, SpeltIs
  <2>2. Take(c, r, 59) = AvrByte(r, 59) /\ Take(c, d, 13) = AvrByte(d, 13) /\ Take(c, d, 10) = AvrByte(d, 10)
    BY DEF Take
  <2> HIDE DEF r
  <2>3. AvrByte(r, 59) = q
    BY DEF AvrByte
  <2>4. IsState(q, Append(ms, m), m, FALSE)
    BY <2>1 DEF IsState, Reader
  <2>5. q = d /\ IsState(d, Append(ms, m), m, FALSE)
    BY <1>4, <2>1, <2>4, SpeltIs, SameState
  <2> HIDE DEF d, q
  <2>6. AvrByte(d, 13) = d /\ AvrByte(d, 10) = d
    BY DEF AvrByte
  <2>7. Leads(c, r, <<59>>, d)
    BY <2>1, <2>2, <2>3, <2>5, LeadsOne, SMTT(30) DEF IsState
  <2> DEFINE s == <<59>>
             t == Append(s, 13)
  <2>8. s \in Seq(0..255) /\ 13 \in 0..255 /\ 10 \in 0..255
    OBVIOUS
  <2>a. Append(t, 10) = <<59, 13, 10>>
    BY ThreeBytes
  <2> HIDE DEF s
  <2>b. t \in Seq(0..255)
    BY <2>8
  <2>c. Leads(c, r, s, d)
    BY <2>7 DEF s
  <2>d. Leads(c, r, t, Take(c, d, 13))
    BY <2>8, <2>c, LeadsFurther
  <2>9. Leads(c, r, t, d)
    BY <2>2, <2>6, <2>d
  <2> HIDE DEF t
  <2>e. Leads(c, r, Append(t, 10), Take(c, d, 10))
    BY <2>8, <2>b, <2>9, LeadsFurther
  <2>10. Leads(c, r, Append(t, 10), d)
    BY <2>2, <2>6, <2>e
  <2>11. Append(t, 10) = <<59, 13, 10>>
    BY <2>a DEF t, s
  <2> QED BY <2>10, <2>11 DEF r, d
<1>9. <<42>> \in Seq(0..255) /\ <<59, 13, 10>> \in Seq(0..255)
  OBVIOUS
<1>10. <<42>> \o FlattenSeq(ss) \in Seq(0..255) /\ Line(f) \in Seq(0..255)
  BY <1>5, <1>6, <1>9, ConcatProperties
<1>11. Leads(c, Spelt(ms, o), <<42>> \o FlattenSeq(ss), Spelt(ms, m))
  BY <1>6, <1>7, <1>9, LeadsOn
<1>12. Leads(c, Spelt(ms, o), Line(f), Spelt(Append(ms, m), m))
  <2> DEFINE u == <<42>> \o FlattenSeq(ss)
             v == <<59, 13, 10>>
  <2>1. u \in Seq(0..255) /\ v \in Seq(0..255) /\ Leads(c, Spelt(ms, o), u, Spelt(ms, m))
        /\ Leads(c, Spelt(ms, m), v, Spelt(Append(ms, m), m)) /\ Line(f) = u \o v
    BY <1>5, <1>8, <1>9, <1>10, <1>11
  <2> HIDE DEF u, v
  <2> QED BY <2>1, LeadsOn
<1>13. Payload(c, m) = bytes
  <2>1. m = [j \in 1..2 * n |-> IF (j % 2) = 1 THEN bytes[(j + 1) \div 2] \div 16 ELSE (bytes[j \div 2]) % 16]
    BY DEF m, Nibbles
  <2>2. Len(m) = 2 * n /\ Len(m) \div 2 = n
    <3>1. 2 * n \in Nat
      BY <1>1
    <3>2. Len(m) = 2 * n
      BY <2>1, <3>1
    <3> QED BY <1>1, <3>2
  <2>3. Payload(c, m) = [i \in 1..n |-> 16 * m[2 * i - 1] + m[2 * i]]
    BY <2>2 DEF Payload
  <2>4. ASSUME NEW i \in 1..n PROVE 16 * m[2 * i - 1] + m[2 * i] = bytes[i]
    <3>1. 2 * i - 1 \in 1..2 * n /\ 2 * i \in 1..2 * n /\ ((2 * i - 1) % 2) = 1 /\ ((2 * i) % 2) = 0
          /\ ((2 * i - 1) + 1) \div 2 = i /\ (2 * i) \div 2 = i
      BY <1>1
    <3>2. m[2 * i - 1] = bytes[i] \div 16 /\ m[2 * i] = bytes[i] % 16
      BY <2>1, <3>1
    <3>3. bytes[i] \in 0..255
      BY <1>1, ElementOfSeq DEF n
    <3> QED BY <3>2, <3>3, Halves
  <2>5. bytes = [i \in 1..n |-> bytes[i]]
    BY <1>1 DEF n
  <2> QED BY <2>3, <2>4, <2>5
<1> QED BY <1>4, <1>10, <1>12, <1>13 DEF bytes

-----------------------------------------------------------------------------
(*                              The channel                                *)

(* What a feed's task and its client have to do with each other. *)
TaskIs(cl, tk, o, b, w) ==
  /\ cl = "away" => tk = "none" /\ o = <<>> /\ b = <<>> /\ w = <<>>
  /\ tk = "receiving" => b = <<>>

(* A client is owed what its receiver took of the valid frames, in order. *)
TakenIs(s, n, o, q) ==
  /\ s \in Nat \ {0} /\ n \in s..Len(q) + 1
  /\ \A k \in 1..Len(o) : o[k] \in s..n - 1
  /\ \A k \in 1..Len(o) - 1 : o[k] < o[k + 1]
  /\ \A m \in s..n - 1 : Valid(q[m].frame) /\ m > Len(q) - Capacity => \E k \in 1..Len(o) : o[k] = m

TaskOK(c) == TaskIs(client[c], task[c], owed[c], buf[c], wire[c])
Taken(c) == TakenIs(since[c], next[c], owed[c], sent)

SentType ==
  /\ time \in 0..MaxTime
  /\ sent \in Seq([frame : Frames, at : 0..MaxTime])
  /\ \A n \in 1..Len(sent) : sent[n].at <= time

FeedType ==
  /\ SentType
  /\ client \in [Client -> {"away", "reading", "stalled", "gone"}]
  /\ task \in [Client -> {"none", "receiving", "writing"}]
  /\ since \in [Client -> Nat] /\ next \in [Client -> Nat]
  /\ buf \in [Client -> Seq(0..255)] /\ wire \in [Client -> Seq(0..255)]
  /\ owed \in [Client -> Seq(Nat)]

ChannelInv == FeedType /\ \A c \in Client : TaskOK(c) /\ Taken(c)

LEMMA Bounds == MaxTime \in Nat /\ Capacity \in Nat \ {0}
  BY FeedsAssumption

LEMMA OldestIs ==
  ASSUME sent \in Seq([frame : Frames, at : 0..MaxTime])
  PROVE  Oldest = IF Len(sent) - Capacity + 1 > 1 THEN Len(sent) - Capacity + 1 ELSE 1
<1> DEFINE x == Len(sent) - Capacity + 1
           m == IF x > 1 THEN x ELSE 1
<1>1. x \in Int
  BY FeedsAssumption
<1>2. m \in {1, x} /\ \A y \in {1, x} : m >= y
  BY <1>1
<1>3. \A z \in {1, x} : (\A y \in {1, x} : z >= y) => z = m
  BY <1>1
<1> QED BY <1>2, <1>3 DEF Oldest, Max

(* A step that leaves all of a client's state alone keeps what is said of it. *)
LEMMA Unmoved ==
  ASSUME NEW c \in Client, TaskOK(c), Taken(c), sent' = sent,
         client'[c] = client[c], task'[c] = task[c], since'[c] = since[c], next'[c] = next[c],
         buf'[c] = buf[c], wire'[c] = wire[c], owed'[c] = owed[c]
  PROVE  TaskOK(c)' /\ Taken(c)'
  BY DEF TaskOK, Taken

LEMMA ChannelInit == FeedInit => ChannelInv
<1> SUFFICES ASSUME FeedInit PROVE ChannelInv
  OBVIOUS
<1>1. SentType
  BY Bounds DEF FeedInit, SentType
<1>2. FeedType
  BY <1>1 DEF FeedInit, FeedType
<1>3. ASSUME NEW c \in Client PROVE TaskOK(c) /\ Taken(c)
  BY FeedsAssumption DEF FeedInit, TaskOK, Taken, TaskIs, TakenIs
<1> QED BY <1>2, <1>3 DEF ChannelInv

LEMMA SendChannel == ASSUME ChannelInv, NEW f \in Frames, Send(f) PROVE ChannelInv'
<1> USE DEF ChannelInv
<1> DEFINE s == [frame |-> f, at |-> time]
           S == [frame : Frames, at : 0..MaxTime]
<1>1. sent' = Append(sent, s) /\ s \in S /\ sent \in Seq(S)
  BY DEF Send, FeedType, SentType
<1> HIDE DEF S
<1>2. /\ sent' \in Seq(S) /\ Len(sent') = Len(sent) + 1 /\ Len(sent) \in Nat
      /\ \A n \in 1..Len(sent) : sent'[n] = sent[n]
      /\ sent'[Len(sent) + 1] = s
  BY <1>1
<1>3. SentType'
  <2>1. time' = time /\ time \in 0..MaxTime /\ \A n \in 1..Len(sent) : sent[n].at <= time
    BY DEF FeedType, SentType, Send
  <2>2. ASSUME NEW n \in 1..Len(sent') PROVE sent'[n].at <= time
    <3>1. CASE n = Len(sent) + 1
      BY <1>2, <2>1, <3>1, Bounds
    <3>2. CASE n # Len(sent) + 1
      <4>1. n \in 1..Len(sent)
        BY <1>2, <3>2
      <4> QED BY <1>2, <2>1, <4>1
    <3> QED BY <3>1, <3>2
  <2> QED BY <1>2, <2>1, <2>2 DEF SentType, S
<1>4. FeedType'
  BY <1>3 DEF FeedType, Send
<1>5. ASSUME NEW c \in Client PROVE TaskOK(c)' /\ Taken(c)'
  <2>1. UNCHANGED <<since, next, owed>> /\ TaskOK(c)'
    BY DEF TaskOK, Send
  <2>2. TakenIs(since[c], next[c], owed[c], sent)
    BY DEF Taken
  <2>3. TakenIs(since[c], next[c], owed[c], sent')
    <3>1. /\ since[c] \in Nat \ {0} /\ next[c] \in since[c]..Len(sent) + 1
          /\ \A k \in 1..Len(owed[c]) : owed[c][k] \in since[c]..next[c] - 1
          /\ \A k \in 1..Len(owed[c]) - 1 : owed[c][k] < owed[c][k + 1]
      BY <2>2 DEF TakenIs
    <3>2. ASSUME NEW m \in since[c]..next[c] - 1, Valid(sent'[m].frame), m > Len(sent') - Capacity
          PROVE  \E k \in 1..Len(owed[c]) : owed[c][k] = m
      <4>1. m \in 1..Len(sent) /\ m > Len(sent) - Capacity
        BY <1>2, <3>1, <3>2, Bounds
      <4>2. Valid(sent[m].frame)
        BY <1>2, <3>2, <4>1
      <4> QED BY <2>2, <4>1, <4>2 DEF TakenIs
    <3>3. next[c] \in since[c]..Len(sent') + 1
      BY <1>2, <3>1
    <3> QED BY <3>1, <3>2, <3>3 DEF TakenIs
  <2> QED BY <2>1, <2>3 DEF Taken
<1> QED BY <1>4, <1>5

LEMMA AcceptChannel == ASSUME ChannelInv, NEW d \in Client, Accept(d) PROVE ChannelInv'
<1> USE DEF ChannelInv
<1>1. FeedType' /\ sent' = sent /\ Len(sent) \in Nat
  BY DEF FeedType, SentType, Accept
<1>2. ASSUME NEW c \in Client PROVE TaskOK(c)' /\ Taken(c)'
  <2>1. CASE c = d
    <3>1. /\ owed'[c] = <<>> /\ since'[c] = Len(sent) + 1 /\ next'[c] = Len(sent) + 1
          /\ client'[c] = "reading" /\ task'[c] = "receiving" /\ buf'[c] = <<>>
      BY <2>1 DEF Accept, TaskOK, TaskIs, FeedType
    <3>2. TaskIs(client'[c], task'[c], owed'[c], buf'[c], wire'[c])
      BY <3>1 DEF TaskIs
    <3>3. TakenIs(since'[c], next'[c], owed'[c], sent')
      BY <1>1, <3>1 DEF TakenIs
    <3> QED BY <3>2, <3>3 DEF TaskOK, Taken
  <2>2. CASE c # d
    BY <2>2, Unmoved DEF Accept, FeedType
  <2> QED BY <2>1, <2>2
<1> QED BY <1>1, <1>2

LEMMA ReceiveChannel ==
  ASSUME ChannelInv, NEW d \in Client, Receive(d), \A f \in Frames : Written(d, f) \in Seq(0..255)
  PROVE  ChannelInv'
<1> USE DEF ChannelInv
<1> DEFINE f == sent[next[d]].frame
           o == owed[d]
<1>1. Oldest \in Nat \ {0}
  BY OldestIs, FeedsAssumption, SMTT(30) DEF FeedType, SentType
<1>2. /\ next[d] \in 1..Len(sent) /\ Len(sent) \in Nat /\ f \in Frames /\ task[d] = "receiving"
      /\ next'[d] = next[d] + 1 /\ \A c \in Client : c # d => next'[c] = next[c]
      /\ UNCHANGED <<time, sent, client, wire, since>>
      /\ o \in Seq(Nat) /\ next' \in [Client -> Nat]
  <2>1. /\ next[d] \in Oldest..Len(sent) /\ task[d] = "receiving" /\ next' = [next EXCEPT ![d] = @ + 1]
        /\ UNCHANGED <<time, sent, client, wire, since>>
    BY DEF Receive
  <2>2. Len(sent) \in Nat /\ next \in [Client -> Nat] /\ o \in Seq(Nat)
    BY DEF FeedType, SentType
  <2>3. next[d] \in 1..Len(sent)
    BY <1>1, <2>1, <2>2
  <2>4. sent[next[d]] \in [frame : Frames, at : 0..MaxTime]
    <3>1. sent \in Seq([frame : Frames, at : 0..MaxTime])
      BY DEF FeedType, SentType
    <3> QED BY <2>3, <3>1, ElementOfSeq
  <2> QED BY <2>1, <2>2, <2>3, <2>4
<1>3. TakenIs(since[d], next[d], o, sent) /\ TaskOK(d)
  BY DEF Taken
<1>4. CASE Valid(f)
  <2>1. /\ owed' = [owed EXCEPT ![d] = Append(o, next[d])] /\ task' = [task EXCEPT ![d] = "writing"]
        /\ buf' = [buf EXCEPT ![d] = Written(d, f)]
    BY <1>4 DEF Receive
  <2>2. FeedType'
    <3>1. Written(d, f) \in Seq(0..255) /\ Append(o, next[d]) \in Seq(Nat)
      BY <1>2
    <3>2. buf' \in [Client -> Seq(0..255)] /\ owed' \in [Client -> Seq(Nat)]
      BY <2>1, <3>1 DEF FeedType
    <3>3. task' \in [Client -> {"none", "receiving", "writing"}]
      BY <2>1 DEF FeedType
    <3> QED BY <1>2, <3>2, <3>3 DEF FeedType, SentType
  <2>3. TaskOK(d)'
    BY <1>2, <1>3, <2>1 DEF TaskOK, TaskIs, FeedType
  <2>4. owed'[d] = Append(o, next[d])
    BY <2>1 DEF FeedType
  <2>5. TakenIs(since[d], next[d] + 1, Append(o, next[d]), sent)
    <3> DEFINE p == Append(o, next[d])
    <3>1. /\ Len(o) \in Nat /\ Len(p) = Len(o) + 1 /\ p[Len(o) + 1] = next[d]
          /\ \A k \in 1..Len(o) : p[k] = o[k] /\ o[k] \in Nat
      BY <1>2
    <3>2. /\ since[d] \in Nat \ {0} /\ next[d] \in since[d]..Len(sent)
          /\ \A k \in 1..Len(o) : o[k] \in since[d]..next[d] - 1
          /\ \A k \in 1..Len(o) - 1 : o[k] < o[k + 1]
      BY <1>2, <1>3, SMTT(30) DEF TakenIs
    <3> HIDE DEF p
    <3>3. \A k \in 1..Len(p) : p[k] \in since[d]..next[d]
      <4> SUFFICES ASSUME NEW k \in 1..Len(p) PROVE p[k] \in since[d]..next[d]
        OBVIOUS
      <4>1. k \in 1..Len(o) \/ k = Len(o) + 1
        BY <3>1
      <4> QED BY <3>1, <3>2, <4>1
    <3>4. \A k \in 1..Len(p) - 1 : p[k] < p[k + 1]
      <4> SUFFICES ASSUME NEW k \in 1..Len(o) PROVE p[k] < p[k + 1]
        BY <3>1
      <4>1. CASE k = Len(o)
        BY <3>1, <3>2, <4>1
      <4>2. CASE k < Len(o)
        <5>1. k \in 1..Len(o) - 1 /\ k + 1 \in 1..Len(o)
          BY <3>1, <4>2
        <5> QED BY <3>1, <3>2, <5>1
      <4> QED BY <3>1, <4>1, <4>2
    <3>5. ASSUME NEW m \in since[d]..next[d], Valid(sent[m].frame), m > Len(sent) - Capacity
          PROVE  \E k \in 1..Len(p) : p[k] = m
      <4>1. CASE m = next[d]
        BY <3>1, <4>1
      <4>2. CASE m # next[d]
        <5>1. m \in since[d]..next[d] - 1
          BY <3>2, <4>2
        <5>2. PICK k \in 1..Len(o) : o[k] = m
          BY <1>3, <3>5, <5>1 DEF TakenIs
        <5> QED BY <3>1, <5>2
      <4> QED BY <4>1, <4>2
    <3>6. (next[d] + 1) - 1 = next[d] /\ next[d] + 1 \in since[d]..Len(sent) + 1
      BY <1>2, <3>2
    <3> QED BY <3>2, <3>3, <3>4, <3>5, <3>6 DEF TakenIs, p
  <2>6. Taken(d)'
    BY <1>2, <2>4, <2>5 DEF Taken
  <2>7. ASSUME NEW c \in Client, c # d PROVE TaskOK(c)' /\ Taken(c)'
    BY <1>2, <2>1, <2>7, Unmoved DEF FeedType
  <2> QED BY <2>2, <2>3, <2>6, <2>7
<1>5. CASE ~ Valid(f)
  <2>1. UNCHANGED <<owed, task, buf>>
    BY <1>5 DEF Receive
  <2>2. FeedType'
    BY <1>2, <2>1 DEF FeedType, SentType
  <2>3. TakenIs(since[d], next[d] + 1, o, sent)
    <3>1. /\ since[d] \in Nat \ {0} /\ next[d] \in since[d]..Len(sent)
          /\ \A k \in 1..Len(o) : o[k] \in since[d]..next[d] - 1
          /\ \A k \in 1..Len(o) - 1 : o[k] < o[k + 1]
      BY <1>2, <1>3 DEF TakenIs
    <3>2. ASSUME NEW m \in since[d]..next[d], Valid(sent[m].frame), m > Len(sent) - Capacity
          PROVE  \E k \in 1..Len(o) : o[k] = m
      <4>1. m \in since[d]..next[d] - 1
        BY <1>5, <3>1, <3>2
      <4> QED BY <1>3, <3>2, <4>1 DEF TakenIs
    <3>3. /\ (next[d] + 1) - 1 = next[d] /\ next[d] + 1 \in since[d]..Len(sent) + 1
          /\ \A k \in 1..Len(o) : o[k] \in since[d]..next[d]
      <4>1. Len(sent) \in Nat
        BY <1>2
      <4>2. next[d] \in Nat /\ (next[d] + 1) - 1 = next[d] /\ next[d] + 1 \in since[d]..Len(sent) + 1
        BY ONLY <3>1, <4>1
      <4>3. \A n \in since[d]..next[d] - 1 : n \in since[d]..next[d]
        BY ONLY <3>1, <4>2
      <4> QED BY ONLY <3>1, <4>2, <4>3
    <3> QED BY <3>1, <3>2, <3>3 DEF TakenIs
  <2>4. TaskOK(d)' /\ Taken(d)'
    BY <1>2, <1>3, <2>1, <2>3 DEF TaskOK, Taken
  <2>5. ASSUME NEW c \in Client, c # d PROVE TaskOK(c)' /\ Taken(c)'
    BY <1>2, <2>1, <2>5, Unmoved DEF FeedType
  <2> QED BY <2>2, <2>4, <2>5
<1> QED BY <1>4, <1>5

LEMMA LaggedChannel == ASSUME ChannelInv, NEW d \in Client, Lagged(d) PROVE ChannelInv'
<1> USE DEF ChannelInv
<1>1. /\ next[d] < Oldest /\ next[d] \in Nat \ {0} /\ Capacity \in Nat \ {0} /\ Len(sent) \in Nat
      /\ TakenIs(since[d], next[d], owed[d], sent) /\ since[d] \in Nat \ {0} /\ next[d] >= since[d]
  <2>1. TakenIs(since[d], next[d], owed[d], sent) /\ Len(sent) \in Nat /\ next[d] < Oldest
    BY DEF Lagged, FeedType, SentType, Taken
  <2>2. since[d] \in Nat \ {0} /\ next[d] \in since[d]..Len(sent) + 1
    BY <2>1 DEF TakenIs
  <2> QED BY <2>1, <2>2, FeedsAssumption
<1>2. Oldest = Len(sent) - Capacity + 1 /\ Oldest \in Nat
  BY <1>1, OldestIs DEF FeedType, SentType
<1>3. /\ next' = [next EXCEPT ![d] = Oldest] /\ task' = [task EXCEPT ![d] = "receiving"] /\ task[d] = "receiving"
      /\ UNCHANGED <<time, sent, client, buf, wire, owed, since>>
  BY DEF Lagged, Resumed, AfterLag
<1>4. FeedType'
  BY <1>2, <1>3 DEF FeedType, SentType
<1>5. TakenIs(since[d], Oldest, owed[d], sent)
  <2>1. /\ \A k \in 1..Len(owed[d]) : owed[d][k] \in since[d]..next[d] - 1
        /\ \A k \in 1..Len(owed[d]) - 1 : owed[d][k] < owed[d][k + 1]
    BY <1>1 DEF TakenIs
  <2>2. Oldest \in since[d]..Len(sent) + 1 /\ \A k \in 1..Len(owed[d]) : owed[d][k] \in since[d]..Oldest - 1
    BY <1>1, <1>2, <2>1
  <2>3. \A m \in since[d]..Oldest - 1 : ~ (m > Len(sent) - Capacity)
    BY <1>1, <1>2
  <2> QED BY <1>1, <2>1, <2>2, <2>3 DEF TakenIs
<1>6. TaskOK(d)' /\ Taken(d)'
  <2>1. next'[d] = Oldest /\ task'[d] = task[d]
    BY <1>3 DEF FeedType
  <2> QED BY <1>3, <1>5, <2>1 DEF TaskOK, Taken
<1>7. ASSUME NEW c \in Client, c # d PROVE TaskOK(c)' /\ Taken(c)'
  BY <1>3, <1>7, Unmoved DEF FeedType
<1> QED BY <1>4, <1>6, <1>7

(* What is written leaves the buffer for the wire. *)
LEMMA TakenOfBuffer ==
  ASSUME NEW c \in Client, buf[c] \in Seq(0..255), NEW n \in Pieces
  PROVE  /\ Min({n, Len(buf[c])}) \in 0..Len(buf[c])
         /\ SubSeq(buf[c], 1, Min({n, Len(buf[c])})) \in Seq(0..255)
         /\ SubSeq(buf[c], Min({n, Len(buf[c])}) + 1, Len(buf[c])) \in Seq(0..255)
         /\ SubSeq(buf[c], 1, Min({n, Len(buf[c])})) \o SubSeq(buf[c], Min({n, Len(buf[c])}) + 1, Len(buf[c])) = buf[c]
<1> DEFINE L == Len(buf[c])
           t == Min({n, L})
           m == IF n < L THEN n ELSE L
<1>1. n \in Nat /\ L \in Nat
  BY FeedsAssumption
<1>2. m \in {n, L} /\ (\A y \in {n, L} : m <= y) /\ m \in 0..L
  BY <1>1
<1>3. \A z \in {n, L} : (\A y \in {n, L} : z <= y) => z = m
  BY <1>1
<1>4. t \in 0..L
  BY <1>2, <1>3 DEF Min
<1> HIDE DEF t
<1>5. SubSeq(buf[c], 1, t) \in Seq(0..255) /\ SubSeq(buf[c], t + 1, L) \in Seq(0..255)
  <2>1. \A i \in 1..L : buf[c][i] \in 0..255
    BY ElementOfSeq
  <2>2. t \in Int /\ t + 1 \in Int /\ (\A i \in 1..t : i \in 1..L) /\ \A i \in t + 1..L : i \in 1..L
    BY <1>1, <1>4
  <2>3. SubSeq(buf[c], 1, t) \in Seq(0..255)
    BY <2>1, <2>2, SubSeqProperties
  <2>4. SubSeq(buf[c], t + 1, L) \in Seq(0..255)
    BY <1>1, <2>1, <2>2, SubSeqProperties
  <2> QED BY <2>3, <2>4
<1>6. SubSeq(buf[c], 1, t) \o SubSeq(buf[c], t + 1, L) = buf[c]
  <2>1. t \in 1 - 1..L /\ 1 \in 1..L + 1 /\ L \in t..L
    BY <1>1, <1>4
  <2>2. SubSeq(buf[c], 1, t) \o SubSeq(buf[c], t + 1, L) = SubSeq(buf[c], 1, L)
    BY <2>1, ConcatAdjacentSubSeq
  <2> QED BY <2>2, SubSeqFull
<1> QED BY <1>4, <1>5, <1>6 DEF t

LEMMA WriteChannel == ASSUME ChannelInv, NEW d \in Client, NEW n \in Pieces, Write(d, n) PROVE ChannelInv'
<1> USE DEF ChannelInv
<1> DEFINE t == Min({n, Len(buf[d])})
           taken == SubSeq(buf[d], 1, t)
           left == SubSeq(buf[d], t + 1, Len(buf[d]))
<1>1. /\ wire' = [wire EXCEPT ![d] = wire[d] \o taken] /\ buf' = [buf EXCEPT ![d] = left]
      /\ task' = [task EXCEPT ![d] = AfterWrite(left)] /\ client[d] = "reading"
      /\ UNCHANGED <<time, sent, client, next, owed, since>>
  BY DEF Write
<1>2. taken \in Seq(0..255) /\ left \in Seq(0..255)
  BY TakenOfBuffer DEF FeedType
<1> HIDE DEF taken, left
<1>3. AfterWrite(left) \in {"receiving", "writing"} /\ (AfterWrite(left) = "receiving" => left = <<>>)
  BY DEF AfterWrite
<1>4. FeedType'
  <2>1. wire' \in [Client -> Seq(0..255)]
    BY <1>1, <1>2 DEF FeedType
  <2> QED BY <1>1, <1>2, <1>3, <2>1 DEF FeedType, SentType
<1>5. TaskOK(d)' /\ Taken(d)'
  <2>1. client'[d] = "reading" /\ task'[d] = AfterWrite(left) /\ buf'[d] = left
    BY <1>1 DEF FeedType
  <2>2. TaskIs(client'[d], task'[d], owed'[d], buf'[d], wire'[d])
    BY <1>3, <2>1 DEF TaskIs
  <2> QED BY <1>1, <2>2 DEF TaskOK, Taken
<1>6. ASSUME NEW c \in Client, c # d PROVE TaskOK(c)' /\ Taken(c)'
  BY <1>1, <1>6, Unmoved DEF FeedType
<1> QED BY <1>4, <1>5, <1>6

LEMMA WriteFailsChannel == ASSUME ChannelInv, NEW d \in Client, WriteFails(d) PROVE ChannelInv'
<1> USE DEF ChannelInv
<1>1. FeedType'
  BY DEF FeedType, SentType, WriteFails
<1>2. TaskOK(d)' /\ Taken(d)'
  BY DEF TaskOK, Taken, TaskIs, FeedType, WriteFails
<1>3. ASSUME NEW c \in Client, c # d PROVE TaskOK(c)' /\ Taken(c)'
  BY <1>3, Unmoved DEF FeedType, WriteFails
<1> QED BY <1>1, <1>2, <1>3

LEMMA ElapseChannel == ASSUME ChannelInv, NEW t \in Ticks, Elapse(t) PROVE ChannelInv'
<1> USE DEF ChannelInv
<1>1. t \in Nat /\ time + t <= MaxTime /\ time' = time + t /\ UNCHANGED <<sent, client, task, next, buf, wire, owed, since>>
  BY FeedsAssumption DEF Elapse
<1>2. SentType'
  <2>1. /\ time \in 0..MaxTime /\ sent \in Seq([frame : Frames, at : 0..MaxTime])
        /\ \A n \in 1..Len(sent) : sent[n].at <= time
    BY DEF FeedType, SentType
  <2>2. ASSUME NEW n \in 1..Len(sent) PROVE sent[n].at \in 0..MaxTime
    <3>1. sent[n] \in [frame : Frames, at : 0..MaxTime]
      BY <2>1, ElementOfSeq
    <3> QED BY <3>1
  <2>3. \A n \in 1..Len(sent) : sent[n].at <= time + t
    BY <1>1, <2>1, <2>2, Bounds
  <2> QED BY <1>1, <2>1, <2>3, Bounds DEF SentType
<1>3. FeedType' /\ \A c \in Client : TaskOK(c)' /\ Taken(c)'
  BY <1>1, <1>2 DEF FeedType, TaskOK, Taken
<1> QED BY <1>3

(* The client's own steps. *)
LEMMA ClientChannel ==
  ASSUME ChannelInv, NEW d \in Client, Stall(d) \/ ReadOn(d) \/ Leave(d)
  PROVE  ChannelInv'
<1> USE DEF ChannelInv
<1>1. /\ UNCHANGED <<time, sent, task, next, buf, wire, owed, since>> /\ client[d] # "away"
      /\ \E s \in {"reading", "stalled", "gone"} : client' = [client EXCEPT ![d] = s]
  BY DEF Stall, ReadOn, Leave
<1>2. FeedType' /\ client'[d] # "away"
  BY <1>1 DEF FeedType, SentType
<1>3. TaskOK(d)' /\ Taken(d)'
  BY <1>1, <1>2 DEF TaskOK, Taken, TaskIs
<1>4. ASSUME NEW c \in Client, c # d PROVE TaskOK(c)' /\ Taken(c)'
  BY <1>1, <1>4, Unmoved DEF FeedType
<1> QED BY <1>2, <1>3, <1>4

LEMMA ChannelGivesLag == ChannelInv => LagOnlySkips
<1> SUFFICES ASSUME ChannelInv, NEW c \in Client
             PROVE  /\ \A k \in 1..Len(owed[c]) - 1 : owed[c][k] < owed[c][k + 1]
                    /\ \A n \in since[c]..next[c] - 1 :
                         Valid(sent[n].frame) /\ n > Len(sent) - Capacity => \E k \in DOMAIN owed[c] : owed[c][k] = n
  BY DEF LagOnlySkips
<1>1. TakenIs(since[c], next[c], owed[c], sent) /\ DOMAIN owed[c] = 1..Len(owed[c])
  BY DEF ChannelInv, Taken, FeedType
<1> QED BY <1>1 DEF TakenIs

-----------------------------------------------------------------------------
(*                             The transcript                              *)

(* The messages tell of the frames that are owed, one by one. *)
Telling(c, ms, o, q, now) ==
  /\ Len(ms) = Len(o)
  /\ \A k \in 1..Len(o) : Payload(c, ms[k]) = q[o[k]].frame.bytes
  /\ c \in Beast => /\ \A k \in 1..Len(o) : Stamp(ms[k]) \in q[o[k]].at..now
                    /\ \A k \in 1..Len(o) - 1 : Stamp(ms[k]) <= Stamp(ms[k + 1])

(* What is on the wire and what the task still has to write, or did not come to write, make up *)
(* whole messages, which tell of the frames that are owed.                                     *)
TranscriptIs(c, tk, b, w, o, q, now) ==
  \E ms \in Seq(Seq(Int)), left \in Seq(Int), tail \in Seq(0..255) :
    /\ tk # "none" => tail = b
    /\ c \in Beast => left = <<>>
    /\ Leads(c, Fresh, w \o tail, Spelt(ms, left))
    /\ Telling(c, ms, o, q, now)

Transcript(c) == TranscriptIs(c, task[c], buf[c], wire[c], owed[c], sent, time)

FeedInv == ChannelInv /\ \A c \in Client : Transcript(c)

LEMMA BetweenSpelt == ASSUME NEW ms PROVE Between(ms) = Spelt(ms, <<>>)
  BY DEF Between, Spelt

(* A message of either format, from where the last one ended. *)
LEMMA MessageWritten ==
  ASSUME NEW c, NEW ms \in Seq(Seq(Int)), NEW left \in Seq(Int), c \in Beast => left = <<>>,
         NEW f \in Frames, time \in 0..MaxTime
  PROVE  /\ Written(c, f) \in Seq(0..255)
         /\ \E m \in Seq(Int), on \in Seq(Int) :
              /\ c \in Beast => on = <<>> /\ Stamp(m) = time
              /\ Payload(c, m) = f.bytes
              /\ Leads(c, Spelt(ms, left), Written(c, f), Spelt(Append(ms, m), on))
<1>1. CASE c \in Beast
  <2>1. Written(c, f) = encode_beast_frame(f) /\ left = <<>> /\ <<>> \in Seq(Int)
    BY <1>1 DEF Written
  <2>2. encode_beast_frame(f) \in Seq(0..255)
    BY <1>1, BeastMessage
  <2>3. PICK m \in Seq(Int) :
          /\ Leads(c, Between(ms), encode_beast_frame(f), Between(Append(ms, m)))
          /\ Payload(c, m) = f.bytes /\ Stamp(m) = time
    BY <1>1, BeastMessage
  <2>4. Leads(c, Spelt(ms, left), Written(c, f), Spelt(Append(ms, m), <<>>))
    BY <2>1, <2>3, BetweenSpelt
  <2> QED BY <2>1, <2>2, <2>3, <2>4
<1>2. CASE ~ (c \in Beast)
  <2>1. Written(c, f) = Line(f)
    BY <1>2 DEF Written
  <2>2. Line(f) \in Seq(0..255)
    BY <1>2, LineMessage
  <2>3. PICK m \in Seq(Int) : Leads(c, Spelt(ms, left), Line(f), Spelt(Append(ms, m), m)) /\ Payload(c, m) = f.bytes
    BY <1>2, LineMessage
  <2> QED BY <1>2, <2>1, <2>2, <2>3
<1> QED BY <1>1, <1>2

LEMMA WrittenIs ==
  ASSUME NEW c, NEW f \in Frames, time \in 0..MaxTime
  PROVE  Written(c, f) \in Seq(0..255)
<1>1. <<>> \in Seq(Int) /\ <<>> \in Seq(Seq(Int))
  OBVIOUS
<1> QED BY <1>1, MessageWritten

LEMMA TellsOfNone ==
  ASSUME NEW c, NEW q, NEW now
  PROVE  Telling(c, <<>>, <<>>, q, now)
<1>1. Len(<<>>) = 0 /\ 1..0 = {} /\ 1..0 - 1 = {}
  OBVIOUS
<1> QED BY <1>1 DEF Telling

(* A client that has nothing, and is owed nothing. *)
LEMMA BlankTranscript ==
  ASSUME NEW c, NEW tk, NEW q, NEW now
  PROVE  TranscriptIs(c, tk, <<>>, <<>>, <<>>, q, now)
<1>1. Fresh \in Reader /\ Fresh = Spelt(<<>>, <<>>)
  BY DEF Fresh, Spelt, Reader
<1>2. <<>> \o <<>> = <<>> /\ <<>> \in Seq(Int) /\ <<>> \in Seq(Seq(Int)) /\ <<>> \in Seq(0..255)
  OBVIOUS
<1>3. Leads(c, Fresh, <<>> \o <<>>, Spelt(<<>>, <<>>))
  BY <1>1, <1>2, LeadsNowhere
<1> QED BY <1>2, <1>3, TellsOfNone DEF TranscriptIs

(* Frames sent and time passed make no difference to what was told. *)
LEMMA TellsStill ==
  ASSUME NEW c, NEW ms, NEW o, NEW q, NEW p, NEW now \in Int, NEW then \in Int, now <= then,
         \A k \in 1..Len(o) : p[o[k]] = q[o[k]] /\ q[o[k]].at \in Int,
         Telling(c, ms, o, q, now)
  PROVE  Telling(c, ms, o, p, then)
<1>1. \A k \in 1..Len(o) : q[o[k]].at..now \subseteq p[o[k]].at..then
  OBVIOUS
<1>2. Len(ms) = Len(o) /\ \A k \in 1..Len(o) : Payload(c, ms[k]) = p[o[k]].frame.bytes
  BY DEF Telling
<1>3. c \in Beast => /\ \A k \in 1..Len(o) : Stamp(ms[k]) \in p[o[k]].at..then
                     /\ \A k \in 1..Len(o) - 1 : Stamp(ms[k]) <= Stamp(ms[k + 1])
  BY <1>1 DEF Telling
<1> QED BY <1>2, <1>3 DEF Telling

LEMMA OneMoreTold ==
  ASSUME NEW c, NEW ms \in Seq(Seq(Int)), NEW m \in Seq(Int), NEW o \in Seq(Nat), NEW n \in Nat, NEW q, NEW now \in Int,
         Telling(c, ms, o, q, now), Payload(c, m) = q[n].frame.bytes,
         c \in Beast => Stamp(m) = now, q[n].at \in Int, q[n].at <= now,
         \A k \in 1..Len(o) : q[o[k]].at \in Int
  PROVE  Telling(c, Append(ms, m), Append(o, n), q, now)
<1> DEFINE L == Len(o)
           a == Append(ms, m)
           b == Append(o, n)
<1>1. L \in Nat /\ Len(ms) = L
  BY DEF Telling
<1>2. /\ Len(a) = L + 1 /\ a[L + 1] = m /\ \A k \in 1..L : a[k] = ms[k]
      /\ Len(b) = L + 1 /\ b[L + 1] = n /\ \A k \in 1..L : b[k] = o[k]
  BY <1>1
<1> HIDE DEF a, b
<1>3. /\ \A k \in 1..L : Payload(c, ms[k]) = q[o[k]].frame.bytes
      /\ c \in Beast => /\ \A k \in 1..L : Stamp(ms[k]) \in q[o[k]].at..now
                        /\ \A k \in 1..L - 1 : Stamp(ms[k]) <= Stamp(ms[k + 1])
  BY DEF Telling
<1> HIDE DEF L
<1>4. ASSUME NEW k \in 1..L + 1 PROVE Payload(c, a[k]) = q[b[k]].frame.bytes
  <2>1. k \in 1..L \/ k = L + 1
    BY <1>1
  <2> QED BY <1>2, <1>3, <2>1
<1>5. ASSUME c \in Beast, NEW k \in 1..L + 1 PROVE Stamp(a[k]) \in q[b[k]].at..now
  <2>1. CASE k \in 1..L
    <3>1. a[k] = ms[k] /\ b[k] = o[k]
      BY <1>2, <2>1
    <3>2. Stamp(ms[k]) \in q[o[k]].at..now
      BY <1>3, <1>5, <2>1
    <3> QED BY <3>1, <3>2
  <2>2. CASE k = L + 1
    <3>1. now \in q[n].at..now
      OBVIOUS
    <3> QED BY <1>2, <1>5, <2>2, <3>1
  <2> QED BY <1>1, <2>1, <2>2
<1>6. ASSUME c \in Beast, NEW k \in 1..L PROVE Stamp(a[k]) <= Stamp(a[k + 1])
  <2>1. CASE k \in 1..L - 1
    <3>1. k + 1 \in 1..L /\ k \in 1..L
      BY <1>1, <2>1
    <3>2. a[k] = ms[k] /\ a[k + 1] = ms[k + 1]
      BY <1>2, <3>1
    <3> QED BY <1>3, <1>6, <2>1, <3>2
  <2>2. CASE k = L
    <3>1. a[k] = ms[k] /\ a[k + 1] = m /\ Stamp(m) = now
      BY <1>2, <1>6, <2>2
    <3>2. Stamp(ms[k]) \in q[o[k]].at..now /\ q[o[k]].at \in Int
      BY <1>3, <1>6 DEF L
    <3> DEFINE x == Stamp(ms[k])
    <3> HIDE DEF x
    <3>3. x <= now
      BY <3>2 DEF x
    <3> QED BY <3>1, <3>3 DEF x
  <2> QED BY <1>1, <2>1, <2>2
<1>7. Len(b) = L + 1 /\ Len(a) = L + 1 /\ (L + 1) - 1 = L
  BY <1>1, <1>2
<1> QED BY <1>4, <1>5, <1>6, <1>7 DEF Telling, a, b

LEMMA InRange ==
  ASSUME NEW a \in Nat \ {0}, NEW z \in Nat, NEW b \in a..z + 1, NEW n \in a..b - 1
  PROVE  n \in 1..z
  OBVIOUS

LEMMA OwedIs ==
  ASSUME ChannelInv, NEW c \in Client
  PROVE  \A k \in 1..Len(owed[c]) : owed[c][k] \in 1..Len(sent) /\ sent[owed[c][k]].at \in Int
<1> SUFFICES ASSUME NEW k \in 1..Len(owed[c]) PROVE owed[c][k] \in 1..Len(sent) /\ sent[owed[c][k]].at \in Int
  OBVIOUS
<1> DEFINE n == owed[c][k]
           z == Len(sent)
           a == since[c]
           b == next[c]
<1>1. TakenIs(a, b, owed[c], sent) /\ z \in Nat /\ sent \in Seq([frame : Frames, at : 0..MaxTime])
  BY DEF ChannelInv, Taken, FeedType, SentType
<1>2. a \in Nat \ {0} /\ b \in a..z + 1 /\ n \in a..b - 1
  BY <1>1 DEF TakenIs
<1> HIDE DEF n, z, a, b
<1>3. n \in 1..z
  BY <1>1, <1>2, InRange
<1>4. sent[n] \in [frame : Frames, at : 0..MaxTime]
  BY <1>1, <1>3, ElementOfSeq DEF z
<1>5. sent[n].at \in Int
  BY <1>4, Bounds
<1> QED BY <1>3, <1>5 DEF n, z

(* Of a client that does not move, though frames are sent and time passes. *)
LEMMA UnmovedTranscript ==
  ASSUME ChannelInv, NEW c \in Client, Transcript(c),
         task'[c] = task[c], buf'[c] = buf[c], wire'[c] = wire[c], owed'[c] = owed[c],
         \A n \in 1..Len(sent) : sent'[n] = sent[n], time' \in Int, time <= time'
  PROVE  Transcript(c)'
<1>1. PICK ms \in Seq(Seq(Int)), left \in Seq(Int), tail \in Seq(0..255) :
        /\ task[c] # "none" => tail = buf[c]
        /\ c \in Beast => left = <<>>
        /\ Leads(c, Fresh, wire[c] \o tail, Spelt(ms, left))
        /\ Telling(c, ms, owed[c], sent, time)
  BY DEF Transcript, TranscriptIs
<1>2. \A k \in 1..Len(owed[c]) : sent'[owed[c][k]] = sent[owed[c][k]] /\ sent[owed[c][k]].at \in Int
  BY OwedIs
<1>3. time \in Int
  BY Bounds DEF ChannelInv, FeedType, SentType
<1>4. Telling(c, ms, owed[c], sent', time')
  BY <1>1, <1>2, <1>3, TellsStill
<1>5. TranscriptIs(c, task[c], buf[c], wire[c], owed[c], sent', time')
  BY <1>1, <1>4 DEF TranscriptIs
<1> QED BY <1>5 DEF Transcript

LEMMA TimeIs == ASSUME ChannelInv PROVE time \in Int /\ time \in 0..MaxTime /\ time <= time
  BY Bounds DEF ChannelInv, FeedType, SentType

LEMMA InitTranscript == FeedInit => \A c \in Client : Transcript(c)
<1> SUFFICES ASSUME FeedInit, NEW c \in Client PROVE Transcript(c)
  OBVIOUS
<1>1. task[c] = "none" /\ buf[c] = <<>> /\ wire[c] = <<>> /\ owed[c] = <<>>
  BY DEF FeedInit
<1> QED BY <1>1, BlankTranscript DEF Transcript

LEMMA SendTranscript == ASSUME FeedInv, NEW f \in Frames, Send(f), NEW c \in Client PROVE Transcript(c)'
<1>1. sent' = Append(sent, [frame |-> f, at |-> time]) /\ UNCHANGED <<time, client, task, next, buf, wire, owed, since>>
  BY DEF Send
<1>2. ChannelInv /\ Transcript(c) /\ sent \in Seq([frame : Frames, at : 0..MaxTime])
  BY DEF FeedInv, ChannelInv, FeedType, SentType
<1>3. \A n \in 1..Len(sent) : sent'[n] = sent[n]
  <2>1. [frame |-> f, at |-> time] \in [frame : Frames, at : 0..MaxTime]
    BY <1>2, TimeIs
  <2> QED BY <1>1, <1>2, <2>1
<1> QED BY <1>1, <1>2, <1>3, TimeIs, UnmovedTranscript

LEMMA ElapseTranscript == ASSUME FeedInv, NEW t \in Ticks, Elapse(t), NEW c \in Client PROVE Transcript(c)'
<1>1. time' = time + t /\ t \in Nat /\ UNCHANGED <<sent, client, task, next, buf, wire, owed, since>>
  BY FeedsAssumption DEF Elapse
<1>2. ChannelInv /\ Transcript(c)
  BY DEF FeedInv
<1>3. time' \in Int /\ time <= time'
  BY <1>1, <1>2, TimeIs
<1> QED BY <1>1, <1>2, <1>3, UnmovedTranscript

LEMMA AcceptTranscript == ASSUME FeedInv, NEW d \in Client, Accept(d), NEW c \in Client PROVE Transcript(c)'
<1>1. /\ client[d] = "away" /\ task' = [task EXCEPT ![d] = "receiving"]
      /\ UNCHANGED <<time, sent, buf, wire, owed>>
  BY DEF Accept
<1>2. ChannelInv /\ Transcript(c)
  BY DEF FeedInv
<1>3. CASE c = d
  <2>1. owed[c] = <<>> /\ buf[c] = <<>> /\ wire[c] = <<>>
    BY <1>1, <1>2, <1>3 DEF ChannelInv, TaskOK, TaskIs
  <2> QED BY <1>1, <2>1, BlankTranscript DEF Transcript
<1>4. CASE c # d
  BY <1>1, <1>2, <1>4, TimeIs, UnmovedTranscript DEF ChannelInv, FeedType
<1> QED BY <1>3, <1>4

LEMMA ReceiveTranscript == ASSUME FeedInv, NEW d \in Client, Receive(d), NEW c \in Client PROVE Transcript(c)'
<1> DEFINE f == sent[next[d]].frame
           n == next[d]
<1>0. ChannelInv /\ Transcript(c) /\ UNCHANGED <<time, sent, client, wire, since>> /\ task[d] = "receiving"
  BY DEF FeedInv, Receive
<1>1. CASE ~ Valid(f)
  <2>1. UNCHANGED <<buf, owed, task>>
    BY <1>1 DEF Receive
  <2> QED BY <1>0, <2>1, TimeIs, UnmovedTranscript
<1>2. CASE Valid(f)
  <2>1. /\ buf' = [buf EXCEPT ![d] = Written(d, f)] /\ owed' = [owed EXCEPT ![d] = Append(owed[d], n)]
        /\ task' = [task EXCEPT ![d] = "writing"]
    BY <1>2 DEF Receive
  <2>2. CASE c # d
    BY <1>0, <2>1, <2>2, TimeIs, UnmovedTranscript DEF ChannelInv, FeedType
  <2>3. CASE c = d
    <3>1. /\ buf'[c] = Written(c, f) /\ owed'[c] = Append(owed[c], n) /\ task'[c] = "writing"
          /\ owed[c] \in Seq(Nat) /\ wire[c] \in Seq(0..255) /\ n \in Nat /\ buf[c] = <<>>
      BY <1>0, <2>1, <2>3 DEF ChannelInv, FeedType, TaskOK, TaskIs
    <3>2. n \in 1..Len(sent) /\ sent[n] \in [frame : Frames, at : 0..MaxTime] /\ sent[n].at \in Int /\ sent[n].at <= time
      <4>1. sent \in Seq([frame : Frames, at : 0..MaxTime]) /\ Len(sent) \in Nat /\ \A k \in 1..Len(sent) : sent[k].at <= time
        BY <1>0 DEF ChannelInv, FeedType, SentType
      <4>2. Oldest \in Nat \ {0}
        BY <4>1, OldestIs, FeedsAssumption
      <4>3. n \in Oldest..Len(sent)
        BY DEF Receive
      <4>4. n \in 1..Len(sent)
        BY <4>1, <4>2, <4>3
      <4>5. sent[n] \in [frame : Frames, at : 0..MaxTime]
        BY <4>1, <4>4, ElementOfSeq
      <4> QED BY <4>1, <4>4, <4>5, Bounds
    <3>3. PICK ms \in Seq(Seq(Int)), left \in Seq(Int), tail \in Seq(0..255) :
            /\ task[c] # "none" => tail = buf[c]
            /\ c \in Beast => left = <<>>
            /\ Leads(c, Fresh, wire[c] \o tail, Spelt(ms, left))
            /\ Telling(c, ms, owed[c], sent, time)
      BY <1>0 DEF Transcript, TranscriptIs
    <3>4. wire[c] \o tail = wire[c]
      <4>1. tail = <<>>
        BY <1>0, <2>3, <3>1, <3>3
      <4> QED BY <3>1, <4>1, ConcatEmptySeq
    <3>5. f \in Frames /\ time \in 0..MaxTime /\ time \in Int
      BY <1>0, <3>2, TimeIs
    <3>6. Written(c, f) \in Seq(0..255)
      BY <3>5, WrittenIs
    <3>7. PICK m \in Seq(Int), on \in Seq(Int) :
            /\ c \in Beast => on = <<>> /\ Stamp(m) = time
            /\ Payload(c, m) = f.bytes
            /\ Leads(c, Spelt(ms, left), Written(c, f), Spelt(Append(ms, m), on))
      BY <3>3, <3>5, MessageWritten
    <3>8. Leads(c, Fresh, wire[c] \o Written(c, f), Spelt(Append(ms, m), on))
      BY <3>1, <3>3, <3>4, <3>6, <3>7, LeadsOn
    <3>9. \A k \in 1..Len(owed[c]) : sent[owed[c][k]].at \in Int
      BY <1>0, OwedIs
    <3>10. Telling(c, Append(ms, m), Append(owed[c], n), sent, time)
      BY <3>1, <3>2, <3>3, <3>5, <3>7, <3>9, OneMoreTold
    <3>11. Append(ms, m) \in Seq(Seq(Int))
      BY <3>3, <3>7
    <3>12. TranscriptIs(c, "writing", Written(c, f), wire[c], Append(owed[c], n), sent, time)
      BY <3>6, <3>7, <3>8, <3>10, <3>11 DEF TranscriptIs
    <3> QED BY <1>0, <3>1, <3>12 DEF Transcript
  <2> QED BY <2>2, <2>3
<1> QED BY <1>1, <1>2

LEMMA LaggedTranscript == ASSUME FeedInv, NEW d \in Client, Lagged(d), NEW c \in Client PROVE Transcript(c)'
<1>1. /\ task' = [task EXCEPT ![d] = "receiving"] /\ task[d] = "receiving"
      /\ UNCHANGED <<time, sent, client, buf, wire, owed, since>>
  BY DEF Lagged, AfterLag
<1>2. ChannelInv /\ Transcript(c)
  BY DEF FeedInv
<1>3. task'[c] = task[c]
  BY <1>1, <1>2 DEF ChannelInv, FeedType
<1> QED BY <1>1, <1>2, <1>3, TimeIs, UnmovedTranscript

LEMMA Regrouped ==
  ASSUME NEW S, NEW w \in Seq(S), NEW t \in Seq(S), NEW u \in Seq(S)
  PROVE  (w \o t) \o u = w \o (t \o u)
  BY ConcatAssociative

LEMMA WriteTranscript ==
  ASSUME FeedInv, NEW d \in Client, NEW n \in Pieces, Write(d, n), NEW c \in Client
  PROVE  Transcript(c)'
<1> DEFINE t == Min({n, Len(buf[d])})
           taken == SubSeq(buf[d], 1, t)
           unsent == SubSeq(buf[d], t + 1, Len(buf[d]))
<1>1. /\ wire' = [wire EXCEPT ![d] = wire[d] \o taken] /\ buf' = [buf EXCEPT ![d] = unsent]
      /\ task' = [task EXCEPT ![d] = AfterWrite(unsent)] /\ task[d] = "writing"
      /\ UNCHANGED <<time, sent, client, next, owed, since>>
  BY DEF Write
<1>2. ChannelInv /\ Transcript(c)
  BY DEF FeedInv
<1>3. CASE c # d
  BY <1>1, <1>2, <1>3, TimeIs, UnmovedTranscript DEF ChannelInv, FeedType
<1>4. CASE c = d
  <2>1. wire[c] \in Seq(0..255) /\ buf[c] \in Seq(0..255)
    BY <1>2 DEF ChannelInv, FeedType
  <2>2. taken \in Seq(0..255) /\ unsent \in Seq(0..255) /\ taken \o unsent = buf[c]
    BY <1>4, <2>1, TakenOfBuffer
  <2> HIDE DEF taken, unsent
  <2>3. wire'[c] = wire[c] \o taken /\ buf'[c] = unsent /\ task'[c] = AfterWrite(unsent) /\ owed'[c] = owed[c]
    BY <1>1, <1>2, <1>4 DEF ChannelInv, FeedType
  <2>4. (wire[c] \o taken) \o unsent = wire[c] \o buf[c]
    <3> DEFINE w == wire[c]
               b == buf[c]
    <3>1. w \in Seq(0..255) /\ taken \in Seq(0..255) /\ unsent \in Seq(0..255) /\ taken \o unsent = b
      BY <2>1, <2>2
    <3> HIDE DEF w, b
    <3>2. (w \o taken) \o unsent = w \o b
      <4> DEFINE S == 0..255
      <4>1. w \in Seq(S) /\ taken \in Seq(S) /\ unsent \in Seq(S)
        BY <3>1
      <4> HIDE DEF S
      <4>2. (w \o taken) \o unsent = w \o (taken \o unsent)
        BY ONLY <4>1, Regrouped
      <4> QED BY ONLY <3>1, <4>2
    <3> QED BY <3>2 DEF w, b
  <2>5. PICK ms \in Seq(Seq(Int)), left \in Seq(Int), tail \in Seq(0..255) :
          /\ task[c] # "none" => tail = buf[c]
          /\ c \in Beast => left = <<>>
          /\ Leads(c, Fresh, wire[c] \o tail, Spelt(ms, left))
          /\ Telling(c, ms, owed[c], sent, time)
    BY <1>2 DEF Transcript, TranscriptIs
  <2>6. Leads(c, Fresh, (wire[c] \o taken) \o unsent, Spelt(ms, left))
    BY <1>1, <1>4, <2>4, <2>5
  <2>7. TranscriptIs(c, AfterWrite(unsent), unsent, wire[c] \o taken, owed[c], sent, time)
    BY <2>2, <2>5, <2>6 DEF TranscriptIs
  <2> QED BY <1>1, <2>3, <2>7 DEF Transcript
<1> QED BY <1>3, <1>4

LEMMA WriteFailsTranscript == ASSUME FeedInv, NEW d \in Client, WriteFails(d), NEW c \in Client PROVE Transcript(c)'
<1>1. /\ task' = [task EXCEPT ![d] = "none"] /\ buf' = [buf EXCEPT ![d] = <<>>]
      /\ UNCHANGED <<time, sent, client, next, wire, owed, since>>
  BY DEF WriteFails
<1>2. ChannelInv /\ Transcript(c)
  BY DEF FeedInv
<1>3. CASE c # d
  BY <1>1, <1>2, <1>3, TimeIs, UnmovedTranscript DEF ChannelInv, FeedType
<1>4. CASE c = d
  <2>1. task'[c] = "none" /\ buf'[c] = <<>>
    BY <1>1, <1>2, <1>4 DEF ChannelInv, FeedType
  <2>2. TranscriptIs(c, "none", <<>>, wire[c], owed[c], sent, time)
    BY <1>2 DEF Transcript, TranscriptIs
  <2> QED BY <1>1, <2>1, <2>2 DEF Transcript
<1> QED BY <1>3, <1>4

LEMMA ClientTranscript ==
  ASSUME FeedInv, NEW d \in Client, Stall(d) \/ ReadOn(d) \/ Leave(d), NEW c \in Client
  PROVE  Transcript(c)'
<1>1. UNCHANGED <<time, sent, task, next, buf, wire, owed, since>>
  BY DEF Stall, ReadOn, Leave
<1>2. ChannelInv /\ Transcript(c)
  BY DEF FeedInv
<1> QED BY <1>1, <1>2, TimeIs, UnmovedTranscript

-----------------------------------------------------------------------------
(*                                The feeds                                *)

LEMMA FeedInvInit == FeedInit => FeedInv
  BY ChannelInit, InitTranscript DEF FeedInv

LEMMA FeedInvNext == ASSUME FeedInv, [FeedNext]_feedVars PROVE FeedInv'
<1>1. ChannelInv /\ time \in 0..MaxTime
  BY TimeIs DEF FeedInv
<1>2. CASE UNCHANGED feedVars
  <2>1. UNCHANGED <<time, sent, client, task, since, next, buf, wire, owed>>
    BY <1>2 DEF feedVars
  <2>2. ChannelInv'
    BY <1>1, <2>1 DEF ChannelInv, FeedType, SentType, TaskOK, Taken
  <2>3. \A c \in Client : Transcript(c)'
    BY <2>1 DEF FeedInv, Transcript
  <2> QED BY <2>2, <2>3 DEF FeedInv
<1>3. ASSUME NEW f \in Frames, Send(f) PROVE FeedInv'
  BY <1>1, <1>3, SendChannel, SendTranscript DEF FeedInv
<1>4. ASSUME NEW t \in Ticks, Elapse(t) PROVE FeedInv'
  BY <1>1, <1>4, ElapseChannel, ElapseTranscript DEF FeedInv
<1>5. ASSUME NEW d \in Client, Accept(d) PROVE FeedInv'
  BY <1>1, <1>5, AcceptChannel, AcceptTranscript DEF FeedInv
<1>6. ASSUME NEW d \in Client, Receive(d) PROVE FeedInv'
  <2>1. \A f \in Frames : Written(d, f) \in Seq(0..255)
    BY <1>1, WrittenIs
  <2>2. ChannelInv'
    BY <1>1, <1>6, <2>1, ReceiveChannel
  <2> QED BY <1>6, <2>2, ReceiveTranscript DEF FeedInv
<1>7. ASSUME NEW d \in Client, Lagged(d) PROVE FeedInv'
  BY <1>1, <1>7, LaggedChannel, LaggedTranscript DEF FeedInv
<1>8. ASSUME NEW d \in Client, NEW n \in Pieces, Write(d, n) PROVE FeedInv'
  BY <1>1, <1>8, WriteChannel, WriteTranscript DEF FeedInv
<1>9. ASSUME NEW d \in Client, WriteFails(d) PROVE FeedInv'
  BY <1>1, <1>9, WriteFailsChannel, WriteFailsTranscript DEF FeedInv
<1>10. ASSUME NEW d \in Client, Stall(d) \/ ReadOn(d) \/ Leave(d) PROVE FeedInv'
  BY <1>1, <1>10, ClientChannel, ClientTranscript DEF FeedInv
<1> QED BY <1>2, <1>3, <1>4, <1>5, <1>6, <1>7, <1>8, <1>9, <1>10 DEF FeedNext, Step

LEMMA LeadsIsOne ==
  ASSUME NEW c, NEW r, NEW s \in Seq(0..255), NEW p, NEW q, Leads(c, r, s, p), Leads(c, r, s, q)
  PROVE  p = q
<1>1. PICK g : Trace(c, r, s, g) /\ p = g[Len(s)]
  BY DEF Leads
<1>2. PICK h : Trace(c, r, s, h) /\ q = h[Len(s)]
  BY DEF Leads
<1>3. s \o <<>> = s /\ <<>> \in Seq(0..255) /\ Len(s) \in 0..Len(s)
  <2>1. <<>> \in Seq(0..255) /\ Len(s) \in Nat
    OBVIOUS
  <2>2. s \o <<>> = s
    BY ConcatEmptySeq
  <2> QED BY <2>1, <2>2
<1> DEFINE t == <<>>
<1>4. Trace(c, r, s \o t, h) /\ t \in Seq(0..255)
  BY <1>2, <1>3
<1> HIDE DEF t
<1>5. \A i \in 0..Len(s) : g[i] = h[i]
  <2>1. Trace(c, r, s, g) /\ s \in Seq(0..255)
    BY <1>1
  <2> QED BY ONLY <1>4, <2>1, TraceIsOne
<1> QED BY <1>1, <1>2, <1>3, <1>5

(* What the client has read so far is a beginning of the transcript. *)
LEMMA MessagesTold ==
  ASSUME FeedInv, NEW c \in Client
  PROVE  \E ms \in Seq(Seq(Int)) :
           /\ Telling(c, ms, owed[c], sent, time)
           /\ Messages(c) \in Seq(Seq(Int)) /\ Len(Messages(c)) <= Len(ms)
           /\ \A k \in 1..Len(Messages(c)) : Messages(c)[k] = ms[k]
           /\ task[c] = "receiving" => Len(Messages(c)) = Len(ms)
<1>1. PICK ms \in Seq(Seq(Int)), left \in Seq(Int), tail \in Seq(0..255) :
        /\ task[c] # "none" => tail = buf[c]
        /\ Leads(c, Fresh, wire[c] \o tail, Spelt(ms, left))
        /\ Telling(c, ms, owed[c], sent, time)
  BY DEF FeedInv, Transcript, TranscriptIs
<1>2. wire[c] \in Seq(0..255) /\ (task[c] = "receiving" => buf[c] = <<>>)
  BY DEF FeedInv, ChannelInv, FeedType, TaskOK, TaskIs
<1>3. PICK q : Leads(c, Fresh, wire[c], q) /\ Messages(c) = q.messages
  BY <1>2, MessagesAre
<1>4. q \in Reader
  BY <1>2, <1>3, LeadsReader
<1>5. PICK p : Leads(c, q, tail, p)
  <2>1. \E g : Trace(c, q, tail, g)
    BY <1>4, RunExists
  <2> QED BY <2>1 DEF Leads
<1>6. p = Spelt(ms, left)
  <2>1. Leads(c, Fresh, wire[c] \o tail, p)
    BY <1>2, <1>3, <1>5, LeadsOn
  <2>2. wire[c] \o tail \in Seq(0..255)
    BY <1>2, ConcatProperties
  <2> QED BY <1>1, <2>1, <2>2, LeadsIsOne
<1>7. p.messages = ms /\ Messages(c) \in Seq(Seq(Int))
  BY <1>3, <1>4, <1>6 DEF Spelt, Reader
<1>8. /\ Len(Messages(c)) <= Len(ms)
      /\ \A k \in 1..Len(Messages(c)) : Messages(c)[k] = ms[k]
  BY <1>3, <1>5, <1>7, MessagesGrow
<1>9. ASSUME task[c] = "receiving" PROVE Len(Messages(c)) = Len(ms)
  <2>1. wire[c] \o tail = wire[c]
    BY <1>1, <1>2, <1>9, ConcatEmptySeq
  <2>2. q = Spelt(ms, left)
    BY <1>1, <1>2, <1>3, <2>1, LeadsIsOne
  <2> QED BY <1>3, <2>2 DEF Spelt
<1> QED BY <1>1, <1>7, <1>8, <1>9

LEMMA FeedsRecover == FeedInv => ReaderRecovers
<1> SUFFICES ASSUME FeedInv, NEW c \in Client
             PROVE  LET messages == Messages(c)
                        read == [k \in DOMAIN messages |-> Payload(c, messages[k])]
                        stamp == [k \in DOMAIN messages |-> Stamp(messages[k])]
                    IN  /\ IsPrefix(read, [k \in DOMAIN owed[c] |-> sent[owed[c][k]].frame.bytes])
                        /\ task[c] = "receiving" => Len(read) = Len(owed[c])
                        /\ c \in Beast => /\ \A k \in DOMAIN stamp : stamp[k] \in sent[owed[c][k]].at..time
                                          /\ \A k \in 1..Len(stamp) - 1 : stamp[k] <= stamp[k + 1]
  BY DEF ReaderRecovers
<1> DEFINE messages == Messages(c)
           o == owed[c]
           read == [k \in DOMAIN messages |-> Payload(c, messages[k])]
           stamp == [k \in DOMAIN messages |-> Stamp(messages[k])]
           due == [k \in DOMAIN o |-> sent[o[k]].frame.bytes]
           n == Len(messages)
<1>1. PICK ms \in Seq(Seq(Int)) :
        /\ Telling(c, ms, o, sent, time)
        /\ messages \in Seq(Seq(Int)) /\ n <= Len(ms)
        /\ \A k \in 1..n : messages[k] = ms[k]
        /\ task[c] = "receiving" => n = Len(ms)
  BY MessagesTold
<1>2. o \in Seq(Nat)
  BY DEF FeedInv, ChannelInv, FeedType
<1> HIDE DEF messages, o
<1>3. /\ DOMAIN messages = 1..n /\ n \in Nat /\ DOMAIN o = 1..Len(o) /\ Len(o) \in Nat /\ Len(ms) = Len(o) /\ n <= Len(o)
  BY <1>1, <1>2 DEF Telling
<1> HIDE DEF n
<1>4. /\ \A k \in 1..Len(o) : Payload(c, ms[k]) = sent[o[k]].frame.bytes
      /\ c \in Beast => /\ \A k \in 1..Len(o) : Stamp(ms[k]) \in sent[o[k]].at..time
                        /\ \A k \in 1..Len(o) - 1 : Stamp(ms[k]) <= Stamp(ms[k + 1])
  BY <1>1 DEF Telling
<1>5. read = [k \in 1..n |-> Payload(c, ms[k])] /\ stamp = [k \in 1..n |-> Stamp(ms[k])] /\ due = [k \in 1..Len(o) |-> Payload(c, ms[k])]
  BY <1>1, <1>3, <1>4
<1> HIDE DEF read, stamp, due
<1>6. Len(read) = n /\ Len(stamp) = n /\ Len(due) = Len(o) /\ DOMAIN stamp = 1..n
  <2>1. \A S : \A m \in Nat : \A F \in [1..m -> S] : Len(F) = m
    OBVIOUS
  <2>2. read \in [1..n -> {Payload(c, ms[k]) : k \in 1..n}] /\ due \in [1..Len(o) -> {Payload(c, ms[k]) : k \in 1..Len(o)}]
        /\ stamp \in [1..n -> {Stamp(ms[k]) : k \in 1..n}]
    BY <1>5
  <2> QED BY <1>3, <2>1, <2>2
<1>7. IsPrefix(read, due)
  <2> DEFINE S == {Payload(c, ms[k]) : k \in 1..Len(o)}
             a == SubSeq(read, 1, n)
             b == SubSeq(due, 1, n)
  <2>1. ASSUME NEW k \in 1..n
        PROVE  read[k] = Payload(c, ms[k]) /\ due[k] = Payload(c, ms[k]) /\ Payload(c, ms[k]) \in S
    <3>1. k \in 1..Len(o)
      BY <1>3
    <3> HIDE DEF S
    <3>2. read[k] = Payload(c, ms[k]) /\ due[k] = Payload(c, ms[k])
      BY <1>5, <3>1
    <3>3. Payload(c, ms[k]) \in S
      BY <3>1 DEF S
    <3> QED BY <3>2, <3>3
  <2> HIDE DEF S
  <2>2. 1 \in Int /\ n \in Int /\ (\A k \in 1..n : read[k] \in S) /\ \A k \in 1..n : due[k] \in S
    BY <1>3, <2>1
  <2>3. a \in Seq(S) /\ Len(a) = n /\ \A k \in 1..n : a[k] = read[k]
    BY <1>3, <2>2, SubSeqProperties
  <2>4. b \in Seq(S) /\ Len(b) = n /\ \A k \in 1..n : b[k] = due[k]
    BY <1>3, <2>2, SubSeqProperties
  <2> HIDE DEF a, b
  <2>5. a = b
    BY <2>1, <2>3, <2>4, SeqEqual
  <2> QED BY <1>3, <1>6, <2>5 DEF IsPrefix, a, b
<1>8. task[c] = "receiving" => Len(read) = Len(o)
  BY <1>1, <1>3, <1>6
<1>9. ASSUME c \in Beast
      PROVE  /\ \A k \in DOMAIN stamp : stamp[k] \in sent[o[k]].at..time
             /\ \A k \in 1..Len(stamp) - 1 : stamp[k] <= stamp[k + 1]
  <2>1. ASSUME NEW k \in DOMAIN stamp PROVE stamp[k] \in sent[o[k]].at..time
    <3>1. k \in 1..n /\ k \in 1..Len(o)
      BY <1>3, <1>6
    <3> QED BY <1>4, <1>5, <1>9, <3>1
  <2>2. ASSUME NEW k \in 1..Len(stamp) - 1 PROVE stamp[k] <= stamp[k + 1]
    <3>1. k \in 1..n /\ k + 1 \in 1..n /\ k \in 1..Len(o) - 1
      BY <1>3, <1>6
    <3> QED BY <1>4, <1>5, <1>9, <3>1
  <2> QED BY <2>1, <2>2
<1> QED BY <1>7, <1>8, <1>9 DEF read, stamp, due, messages, o

-----------------------------------------------------------------------------
(*                     The feeds among the other outputs                    *)

LEMMA OutFeeds == ASSUME [OutNext]_outVars PROVE [FeedNext]_feedVars
  BY DEF OutNext, Decode, Tick, Beat, BeatFails, Identify, CopySnapshot, Skip, Report, ReportFails, Wait, BleNext, outVars

(* What a client of the AVR or of the Beast port reads are the frames its     *)
(* task took from the channel, whole and in order, wherever the socket cuts   *)
(* and whatever bytes they are made of; a Beast client's stamps never         *)
(* decrease and none is earlier than its frame (serve_client in avr.rs,       *)
(* encode_beast_frame and push_escaped in beast.rs).                          *)
THEOREM ReaderRecoversHolds == OutSpec => []ReaderRecovers
<1>1. OutInit => FeedInv
  BY FeedInvInit DEF OutInit
<1>2. FeedInv /\ [OutNext]_outVars => FeedInv'
  BY FeedInvNext, OutFeeds
<1>3. FeedInv => ReaderRecovers
  BY FeedsRecover
<1> QED BY <1>1, <1>2, <1>3, PTL DEF OutSpec

(* A client that lags loses only frames the channel no longer keeps, and gets *)
(* the rest once and in order (the Lagged arms of avr.rs and beast.rs).       *)
THEOREM LagOnlySkipsHolds == OutSpec => []LagOnlySkips
<1>1. OutInit => FeedInv
  BY FeedInvInit DEF OutInit
<1>2. FeedInv /\ [OutNext]_outVars => FeedInv'
  BY FeedInvNext, OutFeeds
<1>3. FeedInv => LagOnlySkips
  BY ChannelGivesLag DEF FeedInv
<1> QED BY <1>1, <1>2, <1>3, PTL DEF OutSpec

-----------------------------------------------------------------------------
(*                              The snapshot                               *)

AirInv ==
  /\ DOMAIN snapshot \subseteq Plane /\ IsFiniteSet(DOMAIN snapshot)
  /\ \A p \in DOMAIN snapshot : snapshot[p] \in Looks[p]
  /\ untold \in BOOLEAN

LEMMA AirInvInit == AirInit => AirInv
<1>1. DOMAIN <<>> = {}
  OBVIOUS
<1> QED BY <1>1, FS_EmptySet DEF AirInit, AirInv

LEMMA RefreshAir == ASSUME AirInv, Refresh PROVE AirInv'
<1>1. PICK p \in Plane :
        \/ \E look \in Looks[p] : snapshot' = Shown(p, look)
        \/ p \in DOMAIN snapshot /\ snapshot' = Removed(p)
  BY DEF Refresh
<1>2. untold' \in BOOLEAN
  BY DEF Refresh
<1>3. ASSUME NEW look \in Looks[p], snapshot' = Shown(p, look) PROVE AirInv'
  <2>1. DOMAIN snapshot' = DOMAIN snapshot \cup {p}
    BY <1>3 DEF Shown
  <2>2. IsFiniteSet(DOMAIN snapshot \cup {p})
    BY FS_AddElement DEF AirInv
  <2>3. \A q \in DOMAIN snapshot' : snapshot'[q] \in Looks[q]
    BY <1>3, <2>1 DEF Shown, AirInv
  <2> QED BY <1>2, <2>1, <2>2, <2>3 DEF AirInv
<1>4. ASSUME snapshot' = Removed(p) PROVE AirInv'
  <2>1. DOMAIN snapshot' = DOMAIN snapshot \ {p}
    BY <1>4 DEF Removed
  <2>2. IsFiniteSet(DOMAIN snapshot \ {p})
    BY FS_RemoveElement DEF AirInv
  <2>3. \A q \in DOMAIN snapshot' : snapshot'[q] \in Looks[q]
    BY <1>4, <2>1 DEF Removed, AirInv
  <2> QED BY <1>2, <2>1, <2>2, <2>3 DEF AirInv
<1> QED BY <1>1, <1>3, <1>4

LEMMA AirInvNext == ASSUME AirInv, [OutNext]_outVars PROVE AirInv'
<1>1. CASE UNCHANGED airVars
  BY <1>1 DEF airVars, AirInv
<1>2. CASE Refresh
  BY <1>2, RefreshAir
<1>3. CASE Tell
  BY <1>3 DEF Tell, AirInv
<1>4. Tick => UNCHANGED airVars
  BY DEF Tick, Beat, BeatFails, Identify, CopySnapshot, Skip, Report, ReportFails, Wait, airVars
<1>5. BleNext => UNCHANGED airVars
  BY DEF BleNext, Supervise, Start, PassOver, TakeUp, Derive, Publish, Age, Subscribe, Poll, NotifyFails, airVars
<1>6. Decode => Refresh \/ Tell
  BY DEF Decode, TellBle
<1> QED
  <2> HIDE DEF AirInv
  <2>1. Decode \/ UNCHANGED airVars
    BY <1>4, <1>5 DEF OutNext, outVars
  <2> QED BY <1>1, <1>2, <1>3, <1>6, <2>1

-----------------------------------------------------------------------------
(*                             The GDL90 feed                              *)

Kinds == Plane \cup {"heartbeat", "identification"}
OfAll(s) == {s[i].of : i \in 1..Len(s)}

LEMMA PlaneNames == Plane \cap {"heartbeat", "identification"} = {}
  BY GdlAssumption

(* What was sent this tick: a heartbeat first, and nothing twice. *)
AiredIs(s) ==
  /\ s \in Seq([of : Kinds, at : Seconds \cup {0}])
  /\ s # <<>> => s[1].of = "heartbeat"
  /\ \A i, j \in 1..Len(s) : s[i].of = s[j].of => i = j

GdlInv ==
  /\ AiredIs(aired)
  /\ DOMAIN copy \subseteq Plane /\ rest \subseteq DOMAIN copy
  /\ \A p \in DOMAIN copy : copy[p] \in Looks[p]
  /\ broken \in BOOLEAN
  /\ phase \in {"off", "waiting", "identifying", "copying", "reporting"}
  /\ phase \in {"identifying", "copying", "reporting"} => aired # <<>>
  /\ phase = "identifying" => OfAll(aired) = {"heartbeat"}
  /\ phase = "copying" => OfAll(aired) \cap Plane = {}
  /\ OfAll(aired) \cap Plane \subseteq Fixed(copy)
  /\ phase = "reporting" => OfAll(aired) \cap rest = {}
  /\ phase = "reporting" /\ ~ broken => OfAll(aired) \cap Plane = Fixed(copy) \ rest

LEMMA EmitAdds ==
  ASSUME AiredIs(aired), aired # <<>>, NEW of \in Kinds, NEW at \in Seconds \cup {0}, Emit(of, at), of \notin OfAll(aired)
  PROVE  AiredIs(aired') /\ aired' # <<>> /\ OfAll(aired') = OfAll(aired) \cup {of}
<1> DEFINE m == [of |-> of, at |-> at]
           M == [of : Kinds, at : Seconds \cup {0}]
           L == Len(aired)
           s == aired'
<1>1. m \in M /\ aired \in Seq(M) /\ s = Append(aired, m) /\ m.of = of
  BY DEF AiredIs, Emit
<1> HIDE DEF M, m
<1>2. /\ s \in Seq(M) /\ Len(s) = L + 1 /\ s[L + 1] = m /\ L \in Nat /\ L > 0
      /\ \A i \in 1..L : s[i] = aired[i]
  <2>1. s \in Seq(M) /\ Len(s) = L + 1 /\ s[L + 1] = m /\ L \in Nat /\ \A i \in 1..L : s[i] = aired[i]
    BY <1>1, AppendProperties
  <2>2. L # 0
    BY <1>1, EmptySeq
  <2> QED BY <2>1, <2>2
<1> HIDE DEF s
<1>3. \A i \in 1..Len(s) : i \in 1..L \/ i = L + 1
  BY <1>2
<1>4. s # <<>> /\ s[1].of = "heartbeat"
  <2>1. 1 \in 1..L
    BY <1>2
  <2>2. s[1].of = "heartbeat"
    BY <1>2, <2>1 DEF AiredIs
  <2>3. s # <<>>
    BY <1>2, EmptySeq
  <2> QED BY <2>2, <2>3
<1>5. \A i \in 1..L : s[i].of = aired[i].of /\ s[i].of # of
  BY <1>2 DEF OfAll
<1>6. ASSUME NEW i \in 1..Len(s), NEW j \in 1..Len(s), s[i].of = s[j].of PROVE i = j
  <2>1. CASE i \in 1..L /\ j \in 1..L
    BY <1>5, <1>6, <2>1 DEF AiredIs
  <2>2. CASE i = L + 1 \/ j = L + 1
    BY <1>1, <1>2, <1>3, <1>5, <1>6, <2>2
  <2> QED BY <1>3, <2>1, <2>2
<1>7. OfAll(s) = OfAll(aired) \cup {of}
  <2>1. \A x \in OfAll(s) : x \in OfAll(aired) \/ x = of
    BY <1>1, <1>2, <1>3, <1>5 DEF OfAll
  <2>2. \A x \in OfAll(aired) : x \in OfAll(s)
    <3>1. \A i \in 1..L : i \in 1..Len(s)
      BY <1>2
    <3> QED BY <1>5, <3>1 DEF OfAll
  <2>3. of \in OfAll(s)
    <3>1. L + 1 \in 1..Len(s)
      BY <1>2
    <3> QED BY <1>1, <1>2, <3>1 DEF OfAll
  <2> QED BY <2>1, <2>2, <2>3
<1> QED BY <1>2, <1>4, <1>6, <1>7 DEF AiredIs, s, M

LEMMA GdlInvInit == GdlInit => GdlInv
<1> SUFFICES ASSUME GdlInit PROVE GdlInv
  OBVIOUS
<1>1. DOMAIN <<>> = {} /\ Len(<<>>) = 0 /\ 1..0 = {} /\ aired = <<>> /\ copy = <<>>
  BY DEF GdlInit
<1>2. AiredIs(aired)
  <2>1. <<>> \in Seq([of : Kinds, at : Seconds \cup {0}])
    OBVIOUS
  <2> QED BY <1>1, <2>1 DEF AiredIs
<1>3. OfAll(aired) = {}
  BY <1>1 DEF OfAll
<1> QED BY <1>1, <1>2, <1>3 DEF GdlInit, GdlInv

LEMMA BeatGdl == ASSUME GdlInv, NEW s \in Seconds, Beat(s) PROVE GdlInv'
<1> DEFINE m == [of |-> "heartbeat", at |-> s]
<1>1. aired' = <<m>> /\ phase' = "identifying" /\ broken' = FALSE /\ copy' = <<>> /\ rest' = {} /\ m \in [of : Kinds, at : Seconds \cup {0}]
  BY PlaneNames DEF Beat, Kinds
<1>2. DOMAIN <<>> = {}
  OBVIOUS
<1>3. <<m>> \in Seq([of : Kinds, at : Seconds \cup {0}]) /\ Len(<<m>>) = 1 /\ <<m>>[1] = m /\ 1..1 = {1} /\ m.of = "heartbeat" /\ <<m>> # <<>>
  BY <1>1
<1> HIDE DEF m
<1>4. AiredIs(<<m>>) /\ OfAll(<<m>>) = {"heartbeat"}
  BY <1>3 DEF AiredIs, OfAll
<1> QED BY <1>1, <1>2, <1>3, <1>4, PlaneNames DEF GdlInv

LEMMA BeatFailsGdl == ASSUME GdlInv, BeatFails PROVE GdlInv'
<1>1. aired' = <<>> /\ copy' = <<>> /\ rest' = {} /\ broken' = TRUE /\ phase' = phase /\ phase = "waiting"
  BY DEF BeatFails
<1>2. DOMAIN <<>> = {} /\ Len(<<>>) = 0 /\ 1..0 = {} /\ <<>> \in Seq([of : Kinds, at : Seconds \cup {0}])
  OBVIOUS
<1>3. AiredIs(<<>>) /\ OfAll(<<>>) = {}
  BY <1>2 DEF AiredIs, OfAll
<1> QED BY <1>1, <1>2, <1>3 DEF GdlInv

LEMMA IdentifyGdl == ASSUME GdlInv, NEW sends \in BOOLEAN, Identify(sends) PROVE GdlInv'
<1>1. /\ phase = "identifying" /\ phase' = "copying" /\ UNCHANGED <<copy, rest, broken>>
      /\ AiredIs(aired) /\ aired # <<>> /\ OfAll(aired) = {"heartbeat"}
  BY DEF Identify, GdlInv
<1>2. CASE sends
  <2>1. Emit("identification", 0) /\ "identification" \in Kinds /\ 0 \in Seconds \cup {0} /\ "identification" \notin OfAll(aired)
    BY <1>1, <1>2 DEF Identify, Kinds
  <2>2. AiredIs(aired') /\ aired' # <<>> /\ OfAll(aired') = {"heartbeat", "identification"}
    BY <1>1, <2>1, EmitAdds
  <2> QED BY <1>1, <2>2, PlaneNames DEF GdlInv
<1>3. CASE ~ sends
  <2>1. aired' = aired
    BY <1>3 DEF Identify
  <2> QED BY <1>1, <2>1, PlaneNames DEF GdlInv
<1> QED BY <1>2, <1>3

LEMMA CopyGdl == ASSUME GdlInv, AirInv, CopySnapshot PROVE GdlInv'
<1>1. /\ phase = "copying" /\ phase' = "reporting" /\ UNCHANGED <<aired, broken>>
      /\ copy' = snapshot /\ rest' = DOMAIN snapshot
      /\ AiredIs(aired) /\ aired # <<>> /\ OfAll(aired) \cap Plane = {}
  BY DEF CopySnapshot, GdlInv
<1>2. Fixed(copy') \subseteq rest' /\ rest' \subseteq Plane
  BY <1>1 DEF Fixed, AirInv
<1> QED BY <1>1, <1>2 DEF GdlInv, AirInv

LEMMA SkipGdl == ASSUME GdlInv, NEW p \in Plane, Skip(p) PROVE GdlInv'
<1>1. /\ phase = "reporting" /\ p \in rest \ Fixed(copy) /\ rest' = rest \ {p} /\ UNCHANGED <<phase, copy, aired, broken>>
  BY DEF Skip, Passed
<1> QED BY <1>1 DEF GdlInv

LEMMA ReportGdl == ASSUME GdlInv, NEW p \in Plane, Report(p) PROVE GdlInv'
<1>1. /\ phase = "reporting" /\ p \in rest \cap Fixed(copy) /\ Emit(p, 0) /\ rest' = rest \ {p}
      /\ UNCHANGED <<phase, copy, broken>>
      /\ AiredIs(aired) /\ aired # <<>> /\ OfAll(aired) \cap rest = {}
      /\ ~ broken => OfAll(aired) \cap Plane = Fixed(copy) \ rest
  BY DEF Report, GdlInv
<1>2. p \in Kinds /\ 0 \in Seconds \cup {0} /\ p \notin OfAll(aired)
  BY <1>1 DEF Kinds
<1>3. AiredIs(aired') /\ aired' # <<>> /\ OfAll(aired') = OfAll(aired) \cup {p}
  BY <1>1, <1>2, EmitAdds
<1> QED BY <1>1, <1>3 DEF GdlInv

LEMMA ReportFailsGdl == ASSUME GdlInv, NEW p \in Plane, ReportFails(p) PROVE GdlInv'
<1>1. /\ phase = "reporting" /\ rest' = {} /\ broken' = TRUE /\ UNCHANGED <<phase, copy, aired>>
  BY DEF ReportFails
<1> QED BY <1>1 DEF GdlInv

LEMMA GdlInvNext == ASSUME GdlInv, AirInv, [OutNext]_outVars PROVE GdlInv'
<1>1. CASE UNCHANGED gdlOwn
  BY <1>1 DEF gdlOwn, GdlInv
<1>2. ASSUME NEW s \in Seconds, Beat(s) PROVE GdlInv'
  BY <1>2, BeatGdl
<1>3. CASE BeatFails
  BY <1>3, BeatFailsGdl
<1>4. ASSUME NEW sends \in BOOLEAN, Identify(sends) PROVE GdlInv'
  BY <1>4, IdentifyGdl
<1>5. CASE CopySnapshot
  BY <1>5, CopyGdl
<1>6. ASSUME NEW p \in Plane, Skip(p) \/ Report(p) \/ ReportFails(p) PROVE GdlInv'
  BY <1>6, SkipGdl, ReportGdl, ReportFailsGdl
<1>7. CASE Wait
  BY <1>7 DEF Wait, GdlInv
<1> QED BY <1>1, <1>2, <1>3, <1>4, <1>5, <1>6, <1>7 DEF OutNext, Decode, Tick, outVars

LEMMA GdlReports == GdlInv => EachIsReported
<1> SUFFICES ASSUME GdlInv PROVE EachIsReported
  OBVIOUS
<1>1. DOMAIN aired = 1..Len(aired) /\ AiredIs(aired)
  BY DEF GdlInv, AiredIs
<1>2. {m.of : m \in ToSet(aired)} = OfAll(aired)
  BY <1>1 DEF ToSet, OfAll
<1>3. phase = "reporting" /\ rest = {} /\ ~ broken => OfAll(aired) \cap Plane = Fixed(copy)
  BY DEF GdlInv
<1> QED BY <1>1, <1>2, <1>3 DEF EachIsReported, AiredIs

(* A tick that no send ended has reported each aircraft of the snapshot it    *)
(* copied that has a position, and no tick says anything twice or starts      *)
(* without a heartbeat (send_tick in gdl90.rs).                               *)
THEOREM EachIsReportedHolds == OutSpec => []EachIsReported
<1>1. OutInit => AirInv /\ GdlInv
  BY AirInvInit, GdlInvInit DEF OutInit
<1>2. AirInv /\ GdlInv /\ [OutNext]_outVars => AirInv' /\ GdlInv'
  BY AirInvNext, GdlInvNext
<1>3. GdlInv => EachIsReported
  BY GdlReports
<1> QED BY <1>1, <1>2, <1>3, PTL DEF OutSpec

-----------------------------------------------------------------------------
(*                       The values of the Bluetooth feed                    *)

LEMMA NaturalTwo ==
  ASSUME NEW bytes, NEW i \in Int, bytes[i] \in Int, bytes[i + 1] \in Int
  PROVE  Natural(bytes, i, 2) = 256 * bytes[i + 1] + bytes[i]
<1> DEFINE step(f) == [k \in 0..2 |-> IF k = 0 THEN 0 ELSE 256 * f[k - 1] + bytes[i + 2 - k]]
           F == CHOOSE f : f = step(f)
           x == bytes[i]
           y == bytes[i + 1]
           g == [k \in 0..2 |-> IF k = 0 THEN 0 ELSE IF k = 1 THEN y ELSE 256 * y + x]
<1>1. i + 2 - 1 = i + 1 /\ i + 2 - 2 = i /\ x \in Int /\ y \in Int
  OBVIOUS
<1> HIDE DEF x, y
<1>2. bytes[i + 2 - 1] = y /\ bytes[i + 2 - 2] = x
  BY <1>1 DEF x, y
<1>3. g = step(g)
  <2>1. ASSUME NEW k \in 0..2 PROVE g[k] = step(g)[k]
    <3>1. k = 0 \/ k = 1 \/ k = 2
      OBVIOUS
    <3> QED BY <1>1, <1>2, <3>1
  <2> QED BY <2>1
<1> HIDE DEF g
<1>4. F = step(F)
  BY <1>3
<1>5. Natural(bytes, i, 2) = F[2]
  BY DEF Natural
<1> HIDE DEF F
<1>6. F[0] = 0 /\ F[1] = 256 * F[0] + y /\ F[2] = 256 * F[1] + x
  <2>1. ASSUME NEW f, f = step(f) PROVE f[0] = 0 /\ f[1] = 256 * f[0] + y /\ f[2] = 256 * f[1] + x
    BY <1>2, <2>1
  <2> QED BY <1>4, <2>1
<1> QED BY <1>1, <1>5, <1>6 DEF x, y

LEMMA NaturalThree ==
  ASSUME NEW bytes, NEW i \in Int, bytes[i] \in Int, bytes[i + 1] \in Int, bytes[i + 2] \in Int
  PROVE  Natural(bytes, i, 3) = 65536 * bytes[i + 2] + 256 * bytes[i + 1] + bytes[i]
<1> DEFINE step(f) == [k \in 0..3 |-> IF k = 0 THEN 0 ELSE 256 * f[k - 1] + bytes[i + 3 - k]]
           F == CHOOSE f : f = step(f)
           x == bytes[i]
           y == bytes[i + 1]
           z == bytes[i + 2]
           g == [k \in 0..3 |-> IF k = 0 THEN 0 ELSE IF k = 1 THEN z ELSE IF k = 2 THEN 256 * z + y ELSE 256 * (256 * z + y) + x]
<1>1. i + 3 - 1 = i + 2 /\ i + 3 - 2 = i + 1 /\ i + 3 - 3 = i /\ x \in Int /\ y \in Int /\ z \in Int
  OBVIOUS
<1> HIDE DEF x, y, z
<1>2. bytes[i + 3 - 1] = z /\ bytes[i + 3 - 2] = y /\ bytes[i + 3 - 3] = x
  BY <1>1 DEF x, y, z
<1>3. g = step(g)
  <2>1. ASSUME NEW k \in 0..3 PROVE g[k] = step(g)[k]
    <3>1. k = 0 \/ k = 1 \/ k = 2 \/ k = 3
      OBVIOUS
    <3> QED BY <1>1, <1>2, <3>1
  <2> QED BY <2>1
<1> HIDE DEF g
<1>4. F = step(F)
  BY <1>3
<1>5. Natural(bytes, i, 3) = F[3]
  BY DEF Natural
<1> HIDE DEF F
<1>6. F[0] = 0 /\ F[1] = 256 * F[0] + z /\ F[2] = 256 * F[1] + y /\ F[3] = 256 * F[2] + x
  <2>1. ASSUME NEW f, f = step(f)
        PROVE  f[0] = 0 /\ f[1] = 256 * f[0] + z /\ f[2] = 256 * f[1] + y /\ f[3] = 256 * f[2] + x
    BY <1>2, <2>1
  <2> QED BY <1>4, <2>1
<1> QED BY <1>1, <1>5, <1>6 DEF x, y, z

LEMMA LittleTwo ==
  ASSUME NEW n \in Nat, n <= 65535, NEW s, s = LittleEndian(n, 2)
  PROVE  /\ s \in Seq(Int) /\ Len(s) = 2
         /\ s[1] \in Int /\ s[2] \in Int /\ 256 * s[2] + s[1] = n
<1>1. 256^0 = 1 /\ 256^1 = 256 /\ 1 - 1 = 0 /\ 2 - 1 = 1
  OBVIOUS
<1>2. s[1] = n % 256 /\ s[2] = (n \div 256) % 256 /\ s = [i \in 1..2 |-> s[i]]
  <2>1. s[1] = (n \div 256^(1 - 1)) % 256 /\ s[2] = (n \div 256^(2 - 1)) % 256 /\ s = [i \in 1..2 |-> s[i]]
    BY DEF LittleEndian
  <2>2. n \div 1 = n
    OBVIOUS
  <2> QED BY <1>1, <2>1, <2>2
<1>3. s[1] \in Int /\ s[2] \in Int /\ 256 * s[2] + s[1] = n
  <2> DEFINE x == s[1]
             y == s[2]
  <2>1. x = n % 256 /\ y = (n \div 256) % 256
    BY <1>2
  <2> HIDE DEF x, y
  <2>2. x \in Int /\ y \in Int /\ 256 * y + x = n
    BY <2>1
  <2> QED BY <2>2 DEF x, y
<1>4. \A i \in 1..2 : s[i] \in Int
  <2>1. \A i \in 1..2 : i = 1 \/ i = 2
    OBVIOUS
  <2> QED BY <1>3, <2>1
<1>5. [i \in 1..2 |-> s[i]] \in Seq(Int) /\ Len([i \in 1..2 |-> s[i]]) = 2
  BY <1>4
<1>6. s \in Seq(Int) /\ Len(s) = 2
  <2>1. s = [i \in 1..2 |-> s[i]]
    BY <1>2
  <2> QED BY ONLY <1>5, <2>1
<1> QED BY ONLY <1>3, <1>6

(* Four bytes in two's complement. *)
TwosComplement(s) == (IF s[4] > 127 THEN s[4] - 256 ELSE s[4]) * 16777216 + (65536 * s[3] + 256 * s[2] + s[1])

LEMMA LittleFour ==
  ASSUME NEW m \in Int, -2147483648 <= m, m <= 2147483647, NEW s, s = LittleEndian(m, 4)
  PROVE  /\ s \in Seq(Int) /\ Len(s) = 4
         /\ s[1] \in Int /\ s[2] \in Int /\ s[3] \in Int /\ s[4] \in Int
         /\ TwosComplement(s) = m
<1> DEFINE a == m \div 256
           b == a \div 256
           d == b \div 256
<1>1. 256^0 = 1 /\ 256^1 = 256 /\ 256^2 = 65536 /\ 256^3 = 16777216 /\ 1 - 1 = 0 /\ 2 - 1 = 1 /\ 3 - 1 = 2 /\ 4 - 1 = 3
  BY SMT
<1>2. s[1] = m % 256 /\ s[2] = (m \div 256) % 256 /\ s[3] = (m \div 65536) % 256 /\ s[4] = (m \div 16777216) % 256
      /\ s = [i \in 1..4 |-> s[i]]
  <2>1. /\ s[1] = (m \div 256^(1 - 1)) % 256 /\ s[2] = (m \div 256^(2 - 1)) % 256
        /\ s[3] = (m \div 256^(3 - 1)) % 256 /\ s[4] = (m \div 256^(4 - 1)) % 256
        /\ s = [i \in 1..4 |-> s[i]]
    BY SMT DEF LittleEndian
  <2>2. m \div 1 = m
    BY SMT
  <2> QED BY <1>1, <2>1, <2>2, SMT
<1>3. a \in Int /\ b \in Int /\ d \in Int /\ m = 256 * a + (m % 256) /\ a = 256 * b + (a % 256) /\ b = 256 * d + (b % 256)
  BY SMT
<1>4. m \div 65536 = b /\ m \div 16777216 = d
  BY SMT
<1>5. -128 <= d /\ d <= 127
  BY <1>4, SMT
<1>6. s[1] = m % 256 /\ s[2] = a % 256 /\ s[3] = b % 256 /\ s[4] = d % 256
  BY <1>2, <1>4, SMT
<1>7. s[1] \in Int /\ s[2] \in Int /\ s[3] \in Int /\ s[4] \in Int
  BY <1>3, <1>6, SMT
<1> HIDE DEF a, b, d
<1>8. (IF d % 256 > 127 THEN (d % 256) - 256 ELSE d % 256) = d
  BY <1>3, <1>5, SMT
<1>9. (IF s[4] > 127 THEN s[4] - 256 ELSE s[4]) * 16777216 + (65536 * s[3] + 256 * s[2] + s[1]) = m
  BY <1>3, <1>6, <1>8, SMT
<1>10. \A i \in 1..4 : s[i] \in Int
  <2>1. \A i \in 1..4 : i = 1 \/ i = 2 \/ i = 3 \/ i = 4
    BY SMT
  <2> QED BY <1>7, <2>1, SMT
<1>11. [i \in 1..4 |-> s[i]] \in Seq(Int) /\ Len([i \in 1..4 |-> s[i]]) = 4
  BY <1>10, SMT
<1>12. s \in Seq(Int) /\ Len(s) = 4
  <2>1. s = [i \in 1..4 |-> s[i]]
    BY <1>2, SMT
  <2> QED BY ONLY <1>11, <2>1
<1>13. TwosComplement(s) = m
  BY ONLY <1>9, SMT DEF TwosComplement
<1> QED BY ONLY <1>7, <1>12, <1>13, SMT

LEMMA DegreesAndRest ==
  ASSUME NEW size \in Nat, size <= 23592960, NEW a, NEW b, a = size \div 65536, b = size % 65536
  PROVE  /\ a \in Nat /\ a <= 360 /\ b \in Nat /\ b <= 65535 /\ size = 65536 * a + b
         /\ b \div 1024 \in Nat /\ b % 1024 \in Nat /\ b = 1024 * (b \div 1024) + (b % 1024)
         /\ size \div 1024 = 64 * a + (b \div 1024) /\ size % 1024 = b % 1024
<1>1. a \in Nat /\ a <= 360 /\ b \in Nat /\ b <= 65535 /\ size = 65536 * a + b
  BY SMT
<1>2. b \div 1024 \in Nat /\ b % 1024 \in Nat /\ b = 1024 * (b \div 1024) + (b % 1024)
  BY ONLY <1>1, SMT
<1> DEFINE c == b \div 1024
           e == b % 1024
<1>3. c \in Nat /\ e \in Nat /\ e < 1024 /\ size = 1024 * (64 * a + c) + e /\ 64 * a + c \in Nat
  BY ONLY <1>1, <1>2, SMT
<1> HIDE DEF c, e
<1> DEFINE x == 64 * a + c
<1>4. x \in Nat /\ e \in Nat /\ e < 1024 /\ size = 1024 * x + e
  BY <1>3
<1> HIDE DEF x
<1>5. size \div 1024 = x /\ size % 1024 = e
  BY ONLY <1>4, SMT
<1> QED BY <1>1, <1>2, <1>5, SMT DEF x, c, e

LEMMA Thousandths ==
  ASSUME NEW b \in Nat, b <= 65535, NEW w, w = b * 15625
  PROVE  /\ w \in Nat /\ w \div 1024 \in Nat /\ w \div 1024 <= 1000000 /\ w % 1024 \in 0..1023
         /\ 1024 * (w \div 1024) + (w % 1024) = 15625 * b
<1>1. w \in Nat /\ w <= 1024000000 /\ w = 15625 * b
  BY SMT
<1>2. w \div 1024 \in Nat /\ w \div 1024 <= 1000000 /\ w % 1024 \in 0..1023 /\ 1024 * (w \div 1024) + (w % 1024) = w
  BY ONLY <1>1, SMT
<1> QED BY ONLY <1>1, <1>2, SMT

(* A millionth of a degree is 65536 / 10^6 = 1024 / 15625 of what angles are counted in. *)
LEMMA MicroIs ==
  ASSUME NEW deg \in Int, -23592960 <= deg, deg <= 23592960
  PROVE  \E m \in Int : Micro(deg) = LittleEndian(m, 4) /\ -2147483648 <= m /\ m <= 2147483647 /\ CloseTo(m, deg)
<1> DEFINE size == IF deg < 0 THEN - deg ELSE deg
           a == size \div 65536
           b == size % 65536
           w == b * 15625
           micro == a * 1000000 + w \div 1024
           m == IF deg < 0 THEN - micro ELSE micro
<1>1. size \in Nat /\ size <= 23592960
  BY SMT
<1>2. Micro(deg) = LittleEndian(m, 4)
  BY SMT DEF Micro
<1> HIDE DEF size
<1>3. /\ a \in Nat /\ a <= 360 /\ b \in Nat /\ b <= 65535
      /\ b \div 1024 \in Nat /\ b % 1024 \in Nat /\ b = 1024 * (b \div 1024) + (b % 1024)
      /\ size \div 1024 = 64 * a + (b \div 1024) /\ size % 1024 = b % 1024
  BY <1>1, DegreesAndRest, SMT
<1> HIDE DEF a, b
<1>4. /\ w \in Nat /\ w \div 1024 \in Nat /\ w \div 1024 <= 1000000 /\ w % 1024 \in 0..1023
      /\ 1024 * (w \div 1024) + (w % 1024) = 15625 * b
  BY <1>3, Thousandths, SMT
<1> HIDE DEF w
<1>5. micro \in Nat /\ micro <= 361000000
  BY <1>3, <1>4, SMT
<1>6. 1024 * (micro - 15625 * (size \div 1024)) - 15625 * (size % 1024) \in -1023..0
  <2> DEFINE c == b \div 1024
             e == b % 1024
             v == w \div 1024
             u == w % 1024
  <2>1. /\ micro = 1000000 * a + v /\ 1024 * v + u = 15625 * b /\ b = 1024 * c + e
        /\ size \div 1024 = 64 * a + c /\ size % 1024 = e
        /\ a \in Int /\ b \in Int /\ v \in Int /\ u \in 0..1023 /\ c \in Int /\ e \in Int
    BY <1>3, <1>4, SMT
  <2> HIDE DEF micro, c, e, v, u
  <2>2. 1024 * (micro - 15625 * (64 * a + c)) - 15625 * e = - u
    BY ONLY <2>1, SMT
  <2>3. - u \in -1023..0
    BY ONLY <2>1, SMT
  <2> QED BY ONLY <2>1, <2>2, <2>3, SMT
<1> HIDE DEF micro
<1>7. m \in Int /\ -2147483648 <= m /\ m <= 2147483647 /\ (IF deg < 0 THEN - m ELSE m) = micro
  BY <1>5, SMT
<1> HIDE DEF m
<1>8. CloseTo(m, deg)
  BY <1>6, <1>7, SMT DEF CloseTo, size
<1> QED BY <1>2, <1>7, <1>8, SMT

(* What stands where in five sequences on end. *)
Joined(a, h, u, v, d) == a \o h \o u \o v \o d

Laid(bytes, a, h, u, v, d) ==
  /\ bytes \in Seq(Int) /\ Len(bytes) = 15
  /\ bytes[1] = a[1] /\ bytes[2] = a[2] /\ bytes[3] = a[3]
  /\ bytes[4] = h[1] /\ bytes[5] = h[2]
  /\ bytes[6] = u[1] /\ bytes[7] = u[2] /\ bytes[8] = u[3] /\ bytes[9] = u[4]
  /\ bytes[10] = v[1] /\ bytes[11] = v[2] /\ bytes[12] = v[3] /\ bytes[13] = v[4]
  /\ bytes[14] = d[1] /\ bytes[15] = d[2]

LEMMA FiveJoined ==
  ASSUME NEW a \in Seq(Int), Len(a) = 3, NEW h \in Seq(Int), Len(h) = 2, NEW u \in Seq(Int), Len(u) = 4,
         NEW v \in Seq(Int), Len(v) = 4, NEW d \in Seq(Int), Len(d) = 2,
         NEW bytes, bytes = Joined(a, h, u, v, d)
  PROVE  Laid(bytes, a, h, u, v, d)
<1> DEFINE p2 == a \o h
           p3 == p2 \o u
           p4 == p3 \o v
<1>1. bytes = p4 \o d
  BY DEF Joined
<1>2. /\ p2 \in Seq(Int) /\ Len(p2) = Len(a) + Len(h) /\ (\A i \in 1..Len(a) : p2[i] = a[i])
      /\ (\A i \in 1..Len(h) : p2[Len(a) + i] = h[i])
  BY ONLY a \in Seq(Int), h \in Seq(Int), ConcatIs
<1> HIDE DEF p2
<1>3. /\ p3 \in Seq(Int) /\ Len(p3) = Len(p2) + Len(u) /\ (\A i \in 1..Len(p2) : p3[i] = p2[i])
      /\ (\A i \in 1..Len(u) : p3[Len(p2) + i] = u[i])
  <2>1. p2 \in Seq(Int)
    BY ONLY <1>2
  <2> QED BY ONLY <2>1, u \in Seq(Int), ConcatIs
<1> HIDE DEF p3
<1>4. /\ p4 \in Seq(Int) /\ Len(p4) = Len(p3) + Len(v) /\ (\A i \in 1..Len(p3) : p4[i] = p3[i])
      /\ (\A i \in 1..Len(v) : p4[Len(p3) + i] = v[i])
  <2>1. p3 \in Seq(Int)
    BY ONLY <1>3
  <2> QED BY ONLY <2>1, v \in Seq(Int), ConcatIs
<1> HIDE DEF p4
<1>5. /\ bytes \in Seq(Int) /\ Len(bytes) = Len(p4) + Len(d) /\ (\A i \in 1..Len(p4) : bytes[i] = p4[i])
      /\ (\A i \in 1..Len(d) : bytes[Len(p4) + i] = d[i])
  <2>1. p4 \in Seq(Int)
    BY ONLY <1>4
  <2> QED BY ONLY <2>1, d \in Seq(Int), ConcatIs, <1>1
<1>6. /\ Len(p2) = 5 /\ (\A i \in 1..3 : p2[i] = a[i]) /\ p2[4] = h[1] /\ p2[5] = h[2]
  BY ONLY <1>2, Len(a) = 3, Len(h) = 2
<1>7. /\ Len(p3) = 9 /\ (\A i \in 1..5 : p3[i] = p2[i]) /\ p3[6] = u[1] /\ p3[7] = u[2] /\ p3[8] = u[3] /\ p3[9] = u[4]
  BY ONLY <1>3, <1>6, Len(u) = 4
<1>8. /\ Len(p4) = 13 /\ (\A i \in 1..9 : p4[i] = p3[i]) /\ p4[10] = v[1] /\ p4[11] = v[2] /\ p4[12] = v[3] /\ p4[13] = v[4]
  BY ONLY <1>4, <1>7, Len(v) = 4
<1>9. /\ Len(bytes) = 15 /\ (\A i \in 1..13 : bytes[i] = p4[i]) /\ bytes[14] = d[1] /\ bytes[15] = d[2]
  BY ONLY <1>5, <1>8, Len(d) = 2
<1>10. /\ p4[1] = p3[1] /\ p4[2] = p3[2] /\ p4[3] = p3[3] /\ p4[4] = p3[4] /\ p4[5] = p3[5]
       /\ p4[6] = p3[6] /\ p4[7] = p3[7] /\ p4[8] = p3[8] /\ p4[9] = p3[9]
       /\ p3[1] = p2[1] /\ p3[2] = p2[2] /\ p3[3] = p2[3] /\ p3[4] = p2[4] /\ p3[5] = p2[5]
  <2>1. \A i \in 1..9 : p4[i] = p3[i]
    BY ONLY <1>8
  <2>2. \A i \in 1..5 : p3[i] = p2[i]
    BY ONLY <1>7
  <2> QED BY ONLY <2>1, <2>2
<1>11. /\ bytes[1] = p4[1] /\ bytes[2] = p4[2] /\ bytes[3] = p4[3] /\ bytes[4] = p4[4] /\ bytes[5] = p4[5]
       /\ bytes[6] = p4[6] /\ bytes[7] = p4[7] /\ bytes[8] = p4[8] /\ bytes[9] = p4[9] /\ bytes[10] = p4[10]
       /\ bytes[11] = p4[11] /\ bytes[12] = p4[12] /\ bytes[13] = p4[13]
  <2>1. \A i \in 1..13 : bytes[i] = p4[i]
    BY ONLY <1>9
  <2> QED BY ONLY <2>1
<1>12. bytes[1] = a[1] /\ bytes[2] = a[2] /\ bytes[3] = a[3]
  <2>1. p2[1] = a[1] /\ p2[2] = a[2] /\ p2[3] = a[3]
    BY ONLY <1>6
  <2> QED BY ONLY <2>1, <1>10, <1>11, Zenon
<1>13. bytes[4] = h[1] /\ bytes[5] = h[2]
  <2>1. p2[4] = h[1] /\ p2[5] = h[2]
    BY ONLY <1>6
  <2> QED BY ONLY <2>1, <1>10, <1>11, Zenon
<1>14. bytes[6] = u[1] /\ bytes[7] = u[2] /\ bytes[8] = u[3] /\ bytes[9] = u[4]
  <2>1. p3[6] = u[1] /\ p3[7] = u[2] /\ p3[8] = u[3] /\ p3[9] = u[4]
    BY ONLY <1>7
  <2> QED BY ONLY <2>1, <1>10, <1>11, Zenon
<1>15. bytes[10] = v[1] /\ bytes[11] = v[2] /\ bytes[12] = v[3] /\ bytes[13] = v[4]
  <2>1. p4[10] = v[1] /\ p4[11] = v[2] /\ p4[12] = v[3] /\ p4[13] = v[4]
    BY ONLY <1>8
  <2> QED BY ONLY <2>1, <1>11, Zenon
<1>16. bytes \in Seq(Int)
  BY ONLY <1>5
<1>17. Len(bytes) = 15 /\ bytes[14] = d[1] /\ bytes[15] = d[2]
  BY ONLY <1>9
<1> QED BY ONLY <1>12, <1>13, <1>14, <1>15, <1>16, <1>17, Zenon DEF Laid

(* What a look holds, where it holds something. *)
LEMMA LookIs ==
  ASSUME NEW p \in Plane, NEW look \in Looks[p], look.position # Unknown, look.position.alt # Unknown
  PROVE  /\ look.position.alt \in Altitude /\ look.position.lat \in Latitude /\ look.position.lon \in Longitude
         /\ Direction(look) \in Bearing \cup {Unknown}
         /\ Address[p] \in [1..3 -> 0..255]
<1>1. look \in Look /\ Address[p] \in [1..3 -> 0..255]
  BY AirspaceAssumption
<1>2. look.position \in [lat : Latitude, lon : Longitude, alt : Altitude \cup {Unknown}]
  BY <1>1 DEF Look
<1>3. \/ look.velocity = Unknown
      \/ /\ look.velocity.track \in Bearing \cup {Unknown}
         /\ look.velocity.heading \in Bearing \cup {Unknown}
  BY <1>1 DEF Look
<1>4. Direction(look) \in Bearing \cup {Unknown}
  BY <1>3 DEF Direction, Either, Field
<1>5. look.position.alt \in Altitude /\ look.position.lat \in Latitude /\ look.position.lon \in Longitude
  BY <1>2
<1> QED BY <1>1, <1>4, <1>5

LEMMA AltitudeIs == ASSUME NEW a, a \in Altitude PROVE a \in Int /\ -1000 <= a /\ a <= 406900
  BY SMT DEF Altitude, Span
LEMMA LatitudeIs == ASSUME NEW a, a \in Latitude PROVE a \in Int /\ -23592960 <= a /\ a <= 23592960
  BY SMT DEF Latitude, Span
LEMMA LongitudeIs == ASSUME NEW a, a \in Longitude PROVE a \in Int /\ -23592960 <= a /\ a <= 23592960
  BY SMT DEF Longitude, Span
LEMMA BearingIs == ASSUME NEW a, a \in Bearing PROVE a \in Nat /\ a <= 3600
  BY SMT DEF Bearing, Span

(* Steps of 25 feet, cut off; below sea level there is none. *)
LEMMA StepsIs ==
  ASSUME NEW a \in Int, -1000 <= a, a <= 406900, NEW n, n = Unsigned16(Truncated(a, 25))
  PROVE  /\ n \in Nat /\ n <= 65535
         /\ IF a <= -25 THEN n = 65535 ELSE a - 25 * n \in -24..24
<1> DEFINE t == Truncated(a, 25)
<1>1. CASE a >= 0
  <2>1. t = a \div 25
    BY <1>1, SMT DEF Truncated
  <2> HIDE DEF t
  <2>2. t \in Nat /\ t <= 65535 /\ a - 25 * t \in -24..24
    BY <1>1, <2>1, SMT
  <2>3. n = t
    <3>1. n = Unsigned16(t)
      BY DEF t
    <3> QED BY <2>2, <3>1, SMT DEF Unsigned16
  <2> QED BY <1>1, <2>2, <2>3, SMT
<1>2. CASE a < 0
  <2> DEFINE c == - a
             q == c \div 25
  <2>1. t = - q /\ c \in Nat /\ c <= 1000 /\ c > 0 /\ a = - c
    BY <1>2, SMT DEF Truncated
  <2> HIDE DEF t, c
  <2>2. q \in Nat /\ (c >= 25 => q >= 1) /\ (c < 25 => q = 0)
    BY <2>1, SMT
  <2> HIDE DEF q
  <2>3. CASE a <= -25
    <3>1. t < 0 /\ t \in Int
      BY <2>1, <2>2, <2>3, SMT
    <3>2. n = Unsigned16(t)
      BY DEF t
    <3>3. n = 65535
      BY <3>1, <3>2, SMT DEF Unsigned16
    <3> QED BY <2>3, <3>3, SMT
  <2>4. CASE a > -25
    <3>1. t = 0
      BY <2>1, <2>2, <2>4, SMT
    <3>2. n = Unsigned16(t)
      BY DEF t
    <3>3. n = 0
      BY <3>1, <3>2, SMT DEF Unsigned16
    <3> QED BY <1>2, <2>4, <3>3, SMT
  <2> QED BY <2>3, <2>4, SMT
<1> QED BY <1>1, <1>2, SMT

LEMMA ListIs ==
  ASSUME NEW S, NEW n \in Nat, NEW f, f \in [1..n -> S]
  PROVE  f \in Seq(S) /\ Len(f) = n /\ f = [i \in 1..n |-> f[i]]
  OBVIOUS

Three(f) == f \in Seq(Int) /\ Len(f) = 3 /\ f = [i \in 1..3 |-> f[i]]

LEMMA AddressIs == ASSUME NEW p \in Plane PROVE Three(Address[p])
<1> DEFINE f == Address[p]
           n == 3
<1>1. f \in [1..3 -> 0..255]
  BY AirspaceAssumption
<1> HIDE DEF f
<1>2. f \in [1..3 -> Int]
  BY ONLY <1>1
<1>3. n \in Nat /\ f \in [1..n -> Int]
  BY ONLY <1>2
<1>4. n = 3
  OBVIOUS
<1> HIDE DEF n
<1>5. f \in Seq(Int) /\ Len(f) = n /\ f = [i \in 1..n |-> f[i]]
  BY ONLY <1>3, ListIs, SMT
<1>6. f \in Seq(Int)
  BY ONLY <1>5
<1>7. Len(f) = 3
  BY ONLY <1>4, <1>5, Zenon
<1>8. f = [i \in 1..3 |-> f[i]]
  BY ONLY <1>4, <1>5, Zenon
<1>9. Three(f)
  BY ONLY <1>6, <1>7, <1>8, Zenon DEF Three
<1> QED BY ONLY <1>9, Zenon DEF f

LEMMA PackedTells ==
  ASSUME NEW p \in Plane, NEW look \in Looks[p], look.position # Unknown, look.position.alt # Unknown
  PROVE  NearestTells(pack_nearest(p, look), p, look)
<1> DEFINE alt == look.position.alt
           lat == look.position.lat
           lon == look.position.lon
           turn == IF Direction(look) = Unknown THEN 65535 ELSE Unsigned16(Direction(look))
           steps == Unsigned16(Truncated(alt, 25))
           a == Address[p]
           h == LittleEndian(steps, 2)
           u == Micro(lat)
           v == Micro(lon)
           d == LittleEndian(turn, 2)
           bytes == Joined(a, h, u, v, d)
<1>1. bytes = pack_nearest(p, look)
  BY SMT DEF pack_nearest, Joined
<1>2. /\ alt \in Int /\ -1000 <= alt /\ alt <= 406900
      /\ lat \in Int /\ -23592960 <= lat /\ lat <= 23592960
      /\ lon \in Int /\ -23592960 <= lon /\ lon <= 23592960
      /\ Direction(look) \in Bearing \cup {Unknown}
      /\ a \in [1..3 -> 0..255]
  <2>1. /\ alt \in Altitude /\ lat \in Latitude /\ lon \in Longitude
        /\ Direction(look) \in Bearing \cup {Unknown} /\ a \in [1..3 -> 0..255]
    BY LookIs, SMT
  <2>2. alt \in Int /\ -1000 <= alt /\ alt <= 406900
    BY ONLY <2>1, AltitudeIs, SMT
  <2>3. lat \in Int /\ -23592960 <= lat /\ lat <= 23592960
    BY ONLY <2>1, LatitudeIs, SMT
  <2>4. lon \in Int /\ -23592960 <= lon /\ lon <= 23592960
    BY ONLY <2>1, LongitudeIs, SMT
  <2> QED BY ONLY <2>1, <2>2, <2>3, <2>4, SMT
<1>3. a \in Seq(Int) /\ Len(a) = 3 /\ a = [i \in 1..3 |-> a[i]]
  <2>1. Three(a)
    BY ONLY p \in Plane, AddressIs, Zenon DEF a
  <2> HIDE DEF a
  <2> QED BY ONLY <2>1, SMT DEF Three
<1>4. turn \in Nat /\ turn <= 65535 /\ turn = Either(Direction(look), 65535)
  <2>1. CASE Direction(look) = Unknown
    BY <2>1, SMT DEF Either
  <2>2. CASE Direction(look) # Unknown
    <3>1. Direction(look) \in Bearing
      BY <1>2, <2>2, SMT
    <3>2. Direction(look) \in Nat /\ Direction(look) <= 3600
      BY ONLY <3>1, BearingIs, SMT
    <3> QED BY <2>2, <3>2, SMT DEF Either, Unsigned16
  <2> QED BY <2>1, <2>2, SMT
<1>5. steps \in Nat /\ steps <= 65535 /\ IF alt <= -25 THEN steps = 65535 ELSE alt - 25 * steps \in -24..24
  BY <1>2, StepsIs, SMT
<1> HIDE DEF steps, turn
<1>6. h \in Seq(Int) /\ Len(h) = 2 /\ h[1] \in Int /\ h[2] \in Int /\ 256 * h[2] + h[1] = steps
  BY ONLY <1>5, LittleTwo, SMT
<1>7. d \in Seq(Int) /\ Len(d) = 2 /\ d[1] \in Int /\ d[2] \in Int /\ 256 * d[2] + d[1] = turn
  BY ONLY <1>4, LittleTwo, SMT
<1>8. PICK m \in Int : u = LittleEndian(m, 4) /\ -2147483648 <= m /\ m <= 2147483647 /\ CloseTo(m, lat)
  <2>1. lat \in Int /\ -23592960 <= lat /\ lat <= 23592960
    BY <1>2, SMT
  <2> QED BY ONLY <2>1, MicroIs, SMT
<1>9. PICK k \in Int : v = LittleEndian(k, 4) /\ -2147483648 <= k /\ k <= 2147483647 /\ CloseTo(k, lon)
  <2>1. lon \in Int /\ -23592960 <= lon /\ lon <= 23592960
    BY <1>2, SMT
  <2> QED BY ONLY <2>1, MicroIs, SMT
<1> HIDE DEF a, h, u, v, d
<1>10. /\ u \in Seq(Int) /\ Len(u) = 4 /\ u[1] \in Int /\ u[2] \in Int /\ u[3] \in Int /\ u[4] \in Int
       /\ TwosComplement(u) = m
  <2>1. m \in Int /\ -2147483648 <= m /\ m <= 2147483647 /\ u = LittleEndian(m, 4)
    BY <1>8, SMT
  <2>2. u \in Seq(Int) /\ Len(u) = 4
    BY ONLY <2>1, LittleFour, SMT
  <2>3. u[1] \in Int /\ u[2] \in Int /\ u[3] \in Int /\ u[4] \in Int
    BY ONLY <2>1, LittleFour, SMT
  <2>4. TwosComplement(u) = m
    BY ONLY <2>1, LittleFour, SMT
  <2> QED BY ONLY <2>2, <2>3, <2>4, SMT
<1>11. /\ v \in Seq(Int) /\ Len(v) = 4 /\ v[1] \in Int /\ v[2] \in Int /\ v[3] \in Int /\ v[4] \in Int
       /\ TwosComplement(v) = k
  <2>1. k \in Int /\ -2147483648 <= k /\ k <= 2147483647 /\ v = LittleEndian(k, 4)
    BY <1>9, SMT
  <2>2. v \in Seq(Int) /\ Len(v) = 4
    BY ONLY <2>1, LittleFour, SMT
  <2>3. v[1] \in Int /\ v[2] \in Int /\ v[3] \in Int /\ v[4] \in Int
    BY ONLY <2>1, LittleFour, SMT
  <2>4. TwosComplement(v) = k
    BY ONLY <2>1, LittleFour, SMT
  <2> QED BY ONLY <2>2, <2>3, <2>4, SMT
<1>12. /\ bytes \in Seq(Int) /\ Len(bytes) = 15
       /\ bytes[1] = a[1] /\ bytes[2] = a[2] /\ bytes[3] = a[3]
       /\ bytes[4] = h[1] /\ bytes[5] = h[2]
       /\ bytes[6] = u[1] /\ bytes[7] = u[2] /\ bytes[8] = u[3] /\ bytes[9] = u[4]
       /\ bytes[10] = v[1] /\ bytes[11] = v[2] /\ bytes[12] = v[3] /\ bytes[13] = v[4]
       /\ bytes[14] = d[1] /\ bytes[15] = d[2]
  <2>1. a \in Seq(Int) /\ Len(a) = 3 /\ h \in Seq(Int) /\ Len(h) = 2 /\ u \in Seq(Int) /\ Len(u) = 4
        /\ v \in Seq(Int) /\ Len(v) = 4 /\ d \in Seq(Int) /\ Len(d) = 2
    BY ONLY <1>3, <1>6, <1>7, <1>10, <1>11, SMT
  <2>2. bytes = Joined(a, h, u, v, d)
    OBVIOUS
  <2> HIDE DEF bytes
  <2>3. Laid(bytes, a, h, u, v, d)
    BY ONLY <2>1, <2>2, FiveJoined, SMT
  <2> QED BY ONLY <2>3, SMT DEF Laid
<1> HIDE DEF bytes
<1>13. Natural(bytes, 4, 2) = steps
  <2>1. Natural(bytes, 4, 2) = 256 * bytes[4 + 1] + bytes[4]
    <3>1. bytes[4] \in Int /\ bytes[4 + 1] \in Int /\ 4 \in Int
      BY ONLY <1>6, <1>12, SMT
    <3> QED BY ONLY <3>1, NaturalTwo, Zenon
  <2> QED BY ONLY <1>6, <1>12, <2>1, SMT
<1>14. Natural(bytes, 14, 2) = turn
  <2>1. Natural(bytes, 14, 2) = 256 * bytes[14 + 1] + bytes[14]
    <3>1. bytes[14] \in Int /\ bytes[14 + 1] \in Int /\ 14 \in Int
      BY ONLY <1>7, <1>12, SMT
    <3> QED BY ONLY <3>1, NaturalTwo, Zenon
  <2> QED BY ONLY <1>7, <1>12, <2>1, SMT
<1>15. Integer(bytes, 6) = m
  <2>1. u[1] \in Int /\ u[2] \in Int /\ u[3] \in Int /\ u[4] \in Int
    BY ONLY <1>10, SMT
  <2>2. Natural(bytes, 6, 3) = 65536 * bytes[6 + 2] + 256 * bytes[6 + 1] + bytes[6]
    <3>1. bytes[6] \in Int /\ bytes[6 + 1] \in Int /\ bytes[6 + 2] \in Int /\ 6 \in Int
      BY ONLY <1>12, <2>1, SMT
    <3> QED BY ONLY <3>1, NaturalThree, SMT
  <2>3. Integer(bytes, 6) = (IF u[4] > 127 THEN u[4] - 256 ELSE u[4]) * 2^24 + Natural(bytes, 6, 3)
    BY ONLY <1>12, SMT DEF Integer
  <2>4. Natural(bytes, 6, 3) = 65536 * u[3] + 256 * u[2] + u[1]
    BY ONLY <2>2, <1>12, SMT
  <2>5. 2^24 = 16777216
    BY SMT
  <2> QED BY ONLY <2>3, <2>4, <2>5, <1>10, SMT DEF TwosComplement
<1>16. Integer(bytes, 10) = k
  <2>1. v[1] \in Int /\ v[2] \in Int /\ v[3] \in Int /\ v[4] \in Int
    BY ONLY <1>11, SMT
  <2>2. Natural(bytes, 10, 3) = 65536 * bytes[10 + 2] + 256 * bytes[10 + 1] + bytes[10]
    <3>1. bytes[10] \in Int /\ bytes[10 + 1] \in Int /\ bytes[10 + 2] \in Int /\ 10 \in Int
      BY ONLY <1>12, <2>1, SMT
    <3> QED BY ONLY <3>1, NaturalThree, SMT
  <2>3. Integer(bytes, 10) = (IF v[4] > 127 THEN v[4] - 256 ELSE v[4]) * 2^24 + Natural(bytes, 10, 3)
    BY ONLY <1>12, SMT DEF Integer
  <2>4. Natural(bytes, 10, 3) = 65536 * v[3] + 256 * v[2] + v[1]
    BY ONLY <2>2, <1>12, SMT
  <2>5. 2^24 = 16777216
    BY SMT
  <2> QED BY ONLY <2>3, <2>4, <2>5, <1>11, SMT DEF TwosComplement
<1>17. SubSeq(bytes, 1, 3) = a
  <2>1. \A i \in 1..3 : bytes[i] = a[i]
    BY ONLY <1>12, SMT
  <2>2. SubSeq(bytes, 1, 3) = [i \in 1..3 |-> bytes[i]]
    BY ONLY <1>12, SMT
  <2>3. [i \in 1..3 |-> bytes[i]] = [i \in 1..3 |-> a[i]]
    BY ONLY <2>1, SMT
  <2> QED BY ONLY <1>3, <2>2, <2>3, SMT
<1>18. SubSeq(bytes, 1, 3) = Address[p]
  BY ONLY <1>17, SMT DEF a
<1>19. Len(bytes) = 15
  BY ONLY <1>12, SMT
<1>20. CloseTo(Integer(bytes, 6), lat) /\ CloseTo(Integer(bytes, 10), lon)
  BY ONLY <1>8, <1>9, <1>15, <1>16, SMT
<1>21. NearestTells(bytes, p, look)
  BY ONLY <1>4, <1>5, <1>13, <1>14, <1>18, <1>19, <1>20, SMT DEF NearestTells
<1> QED BY ONLY <1>1, <1>21, SMT

(* Two numbers have a smaller one. *)
LEMMA MinIs ==
  ASSUME NEW a \in Int, NEW b \in Int
  PROVE  Min({a, b}) = IF a <= b THEN a ELSE b
<1> DEFINE m == IF a <= b THEN a ELSE b
           P(x) == x \in {a, b} /\ \A y \in {a, b} : x <= y
<1>1. P(m)
  OBVIOUS
<1>2. \A x : P(x) => x = m
  OBVIOUS
<1>3. Min({a, b}) = CHOOSE x : P(x)
  BY DEF Min
<1> HIDE DEF P, m
<1>4. P(CHOOSE x : P(x))
  BY <1>1
<1> QED BY <1>2, <1>3, <1>4 DEF m

LEMMA CountTells ==
  ASSUME NEW n \in Nat
  PROVE  Natural(LittleEndian(Unsigned16(n), 2), 1, 2) = Min({n, 65535})
<1> DEFINE k == Unsigned16(n)
           s == LittleEndian(k, 2)
<1>1. k \in Nat /\ k <= 65535 /\ k = IF n <= 65535 THEN n ELSE 65535
  BY SMT DEF Unsigned16
<1> HIDE DEF k
<1>2. s[1] \in Int /\ s[2] \in Int /\ 256 * s[2] + s[1] = k
  <2>1. s \in Seq(Int) /\ Len(s) = 2 /\ s[1] \in Int /\ s[2] \in Int /\ 256 * s[2] + s[1] = k
    BY ONLY <1>1, LittleTwo, SMT
  <2> QED BY ONLY <2>1, SMT
<1> HIDE DEF s
<1>3. Natural(s, 1, 2) = 256 * s[1 + 1] + s[1]
  <2>1. 1 \in Int /\ s[1 + 1] \in Int
    BY ONLY <1>2, SMT
  <2> QED BY ONLY <1>2, <2>1, NaturalTwo, SMT
<1>4. Natural(s, 1, 2) = k
  BY ONLY <1>2, <1>3, SMT
<1>5. Min({n, 65535}) = IF n <= 65535 THEN n ELSE 65535
  <2>1. n \in Int /\ 65535 \in Int
    BY SMT
  <2> QED BY ONLY <2>1, MinIs, SMT
<1>6. Natural(s, 1, 2) = Min({n, 65535})
  BY ONLY <1>1, <1>4, <1>5, SMT
<1> QED BY ONLY <1>6, SMT DEF s, k

(* Altitudes are bounded from below, so one of the aircraft is the lowest. *)
LEMMA LowestIs ==
  ASSUME AirInv, WithAltitude(snapshot) # {}
  PROVE  Lowest(snapshot) # {}
<1> DEFINE W == WithAltitude(snapshot)
           alt(p) == snapshot[p].position.alt
           T == {alt(p) + 1000 : p \in W}
<1>1. ASSUME NEW p \in W PROVE alt(p) \in Int /\ -1000 <= alt(p)
  <2>1. p \in Plane /\ snapshot[p] \in Looks[p] /\ snapshot[p].position # Unknown /\ alt(p) # Unknown
    BY DEF WithAltitude, AirInv
  <2>2. alt(p) \in Altitude
    BY ONLY <2>1, LookIs, SMT
  <2> QED BY ONLY <2>2, AltitudeIs, SMT
<1> HIDE DEF alt
<1>2. T \subseteq Nat
  BY ONLY <1>1, SMT
<1>3. T # {}
  BY DEF W
<1> HIDE DEF T
<1>4. PICK x \in T : \A y \in T : x <= y
  BY ONLY <1>2, <1>3, LeastNatural
<1>5. PICK p \in W : x = alt(p) + 1000
  BY <1>4 DEF T
<1>6. ASSUME NEW q \in W PROVE alt(p) <= alt(q)
  <2>1. alt(q) + 1000 \in T
    BY DEF T
  <2>2. x <= alt(q) + 1000
    BY <1>4, <2>1, ZenonT(30)
  <2>3. alt(p) \in Int /\ alt(q) \in Int
    BY <1>1, ZenonT(30)
  <2>4. x = alt(p) + 1000
    BY <1>5, ZenonT(30)
  <2> QED BY ONLY <2>2, <2>3, <2>4, SMT
<1>7. p \in Lowest(snapshot)
  BY <1>6 DEF Lowest, alt, W
<1> QED BY <1>7

Told(values) == Fits("count", values["count"], snapshot) /\ Fits("nearest", values["nearest"], snapshot)

(* What is derived from a snapshot tells of it. *)
LEMMA DerivedTells ==
  ASSUME AirInv, NEW values \in Derivable(snapshot)
  PROVE  Told(values)
<1> DEFINE nearest == IF Lowest(snapshot) = {} THEN {Nothing} ELSE {pack_nearest(p, snapshot[p]) : p \in Lowest(snapshot)}
           n == Cardinality(DOMAIN snapshot)
<1>1. PICK bytes \in nearest : values = [count |-> LittleEndian(Unsigned16(n), 2), nearest |-> bytes]
  BY DEF Derivable
<1>2. values["count"] = LittleEndian(Unsigned16(n), 2) /\ values["nearest"] = bytes
  BY <1>1
<1>3. n \in Nat
  BY FS_CardinalityType DEF AirInv
<1> HIDE DEF n
<1>4. Natural(values["count"], 1, 2) = Min({n, 65535})
  BY ONLY <1>2, <1>3, CountTells, SMT
<1>5. Fits("count", values["count"], snapshot)
  BY ONLY <1>4, SMT DEF Fits, n
<1>6. NearestFits(bytes, snapshot)
  <2>1. CASE WithAltitude(snapshot) = {}
    <3>1. Lowest(snapshot) = {}
      BY <2>1, Zenon DEF Lowest
    <3>2. bytes = Nothing
      BY <1>1, <3>1, Zenon
    <3>3. \A p \in DOMAIN snapshot : snapshot[p].position = Unknown \/ snapshot[p].position.alt = Unknown
      BY <2>1, Zenon DEF WithAltitude
    <3> QED BY <3>2, <3>3, Zenon DEF NearestFits
  <2>2. CASE WithAltitude(snapshot) # {}
    <3>1. Lowest(snapshot) # {}
      BY <2>2, LowestIs, Zenon
    <3>2. PICK p \in Lowest(snapshot) : bytes = pack_nearest(p, snapshot[p])
      BY <1>1, <3>1, Zenon
    <3>3. p \in DOMAIN snapshot /\ snapshot[p].position # Unknown /\ snapshot[p].position.alt # Unknown
      BY <3>2, Zenon DEF Lowest, WithAltitude
    <3>4. p \in Plane /\ snapshot[p] \in Looks[p]
      BY <3>3, Zenon DEF AirInv
    <3>5. NearestTells(bytes, p, snapshot[p])
      BY ONLY <3>2, <3>3, <3>4, PackedTells, SMT
    <3> QED BY <3>2, <3>3, <3>5, Zenon DEF NearestFits
  <2> QED BY ONLY <2>1, <2>2, Zenon
<1>7. Fits("nearest", values["nearest"], snapshot)
  <2> HIDE DEF nearest, n
  <2>1. values["nearest"] = bytes
    BY ONLY <1>2
  <2> QED BY ONLY <1>6, <2>1, SMT DEF Fits
<1> QED BY ONLY <1>5, <1>7, Zenon DEF Told

-----------------------------------------------------------------------------
(*                         The Bluetooth supervisor                         *)

(* Until the supervisor listens there was no push.  Once there was one, a    *)
(* change it has not taken up is untold, unread or passed over.              *)
BleInv ==
  /\ stage \in {"off", "starting", "receiving", "reading", "writing"}
  /\ unread \in Nat
  /\ stage \in {"off", "starting"} => pushed = "never"
  /\ stage = "receiving" /\ pushed # "never" => passed \/ untold \/ unread > 0 \/ Told(latest)
  /\ stage = "writing" => untold \/ unread > 0 \/ Told(derived)

LEMMA BleInvInit == BleInit => BleInv
  BY DEF BleInit, BleInv

(* Fits reads nothing but the snapshot. *)
LEMMA SameTold == ASSUME NEW values, snapshot' = snapshot, Told(values) PROVE Told(values)'
  BY DEF Told, Fits, NearestFits, NearestTells, WithAltitude, Lowest

LEMMA KeptIs == ASSUME unread \in Nat PROVE Kept \in Nat /\ Kept > 0
<1> DEFINE a == unread + 1
           b == Retained + 1
<1>1. a \in Int /\ b \in Int /\ a > 0 /\ b > 0
  BY BleAssumption, SMT
<1> HIDE DEF a, b
<1>2. Min({a, b}) = IF a <= b THEN a ELSE b
  BY ONLY <1>1, MinIs, SMT
<1>3. Min({a, b}) \in Nat /\ Min({a, b}) > 0
  BY ONLY <1>1, <1>2, SMT
<1> QED BY <1>3 DEF Kept, a, b

LEMMA BleInvNext == ASSUME AirInv, BleInv, [OutNext]_outVars PROVE BleInv'
<1> USE DEF BleInv
<1> HIDE DEF Told
<1>1. CASE UNCHANGED <<snapshot, untold, stage, unread, pushed, derived, latest, passed>>
  BY <1>1, SameTold
<1>2. CASE Refresh /\ UNCHANGED bleOwn
  BY <1>2 DEF Refresh, bleOwn
<1>3. CASE TellBle
  <2>1. CASE Listening
    BY <1>3, <2>1, KeptIs DEF TellBle, Listening
  <2>2. CASE ~ Listening
    BY <1>3, <2>2 DEF TellBle, Listening
  <2> QED BY <2>1, <2>2
<1>4. CASE Start
  BY <1>4 DEF Start
<1>5. CASE PassOver
  BY <1>5 DEF PassOver
<1>6. CASE TakeUp
  BY <1>6 DEF TakeUp, AfterRecv
<1>7. CASE Derive
  <2>1. /\ stage' = "writing" /\ UNCHANGED <<snapshot, unread>> /\ derived' \in Derivable(snapshot)
    BY <1>7 DEF Derive
  <2>2. ASSUME NEW values, values \in Derivable(snapshot), snapshot' = snapshot PROVE Told(values)'
    BY <2>2, DerivedTells, SameTold
  <2>3. Told(derived)'
    BY <2>1, <2>2 DEF Told
  <2> QED BY <2>1, <2>3
<1>8. CASE Publish
  <2>1. /\ stage = "writing" /\ stage' = "receiving" /\ latest' = derived
        /\ UNCHANGED <<snapshot, untold, unread>>
    BY <1>8 DEF Publish
  <2>2. untold \/ unread > 0 \/ Told(derived)
    BY <2>1
  <2>3. ASSUME NEW values, values = derived, Told(values), latest' = values, snapshot' = snapshot PROVE Told(latest)'
    <3>1. Told(values)'
      BY ONLY <2>3, SameTold, Zenon
    <3> QED BY ONLY <2>3, <3>1, Zenon DEF Told
  <2> QED BY <2>1, <2>2, <2>3
<1>9. CASE Age
  BY <1>9, SameTold DEF Age
<1>10. Decode => (Refresh /\ UNCHANGED bleOwn) \/ TellBle
  BY DEF Decode
<1>11. (FeedNext /\ UNCHANGED <<airVars, gdlOwn, bleOwn>>) \/ (Tick /\ UNCHANGED <<feedVars, bleOwn>>) \/ UNCHANGED outVars
       => UNCHANGED <<snapshot, untold, stage, unread, pushed, derived, latest, passed>>
  BY DEF Tick, Beat, BeatFails, Identify, CopySnapshot, Skip, Report, ReportFails, Wait, airVars, bleOwn, outVars
<1>12. ASSUME NEW v \in Polled, Subscribe(v) \/ Poll(v) \/ NotifyFails(v)
       PROVE  UNCHANGED <<snapshot, untold, stage, unread, pushed, derived, latest, passed>>
  BY <1>12 DEF Subscribe, Poll, NotifyFails
<1> QED
  <2> HIDE DEF BleInv
  <2>1. BleNext => Start \/ PassOver \/ TakeUp \/ Derive \/ Publish \/ Age
                    \/ UNCHANGED <<snapshot, untold, stage, unread, pushed, derived, latest, passed>>
    BY <1>12 DEF BleNext, Supervise
  <2> QED BY <1>1, <1>2, <1>3, <1>4, <1>5, <1>6, <1>7, <1>8, <1>9, <1>10, <1>11, <2>1 DEF OutNext

LEMMA BleTells == BleInv => StaleOnlyByLimit
  BY DEF BleInv, StaleOnlyByLimit, Told

(* Once the supervisor has taken up the events, the values it published tell  *)
(* of the snapshot as it is, unless the limit passed one over, whatever       *)
(* overlapped with copying and writing (run_supervisor, derive_latest and     *)
(* pack_nearest in ble.rs).                                                   *)
THEOREM StaleOnlyByLimitHolds == OutSpec => []StaleOnlyByLimit
<1>1. OutInit => AirInv /\ BleInv
  BY AirInvInit, BleInvInit DEF OutInit
<1>2. AirInv /\ BleInv /\ [OutNext]_outVars => AirInv' /\ BleInv'
  BY AirInvNext, BleInvNext
<1>3. BleInv => StaleOnlyByLimit
  BY BleTells
<1> QED BY <1>1, <1>2, <1>3, PTL DEF OutSpec

-----------------------------------------------------------------------------
(*                         The datagrams: checksum                         *)

LEMMA ShiftsAdd ==
  ASSUME NEW word, NEW j \in Nat, NEW k \in Nat
  PROVE  ShiftLeft(ShiftLeft(word, j), k) = ShiftLeft(word, j + k)
  BY DEF ShiftLeft

LEMMA TurnLinear ==
  ASSUME NEW a, NEW b
  PROVE  Turn(Xor(a, b)) = Xor(Turn(a), Turn(b))
<1> DEFINE poly == {0, 5, 12}
<1>0. \A x : Turn(x) = IF 15 \in x THEN Xor(ShiftLeft(x, 1), poly) ELSE ShiftLeft(x, 1)
  BY DEF Turn
<1> HIDE DEF poly
<1>1. ShiftLeft(Xor(a, b), 1) = Xor(ShiftLeft(a, 1), ShiftLeft(b, 1))
  BY DEF ShiftLeft, Xor
<1>2. 15 \in Xor(a, b) <=> ~(15 \in a <=> 15 \in b)
  BY DEF Xor
<1>3. ASSUME NEW x, NEW y
      PROVE  /\ Xor(Xor(x, y), poly) = Xor(x, Xor(y, poly))
             /\ Xor(Xor(x, y), poly) = Xor(Xor(x, poly), y)
             /\ Xor(Xor(x, poly), Xor(y, poly)) = Xor(x, y)
  BY DEF Xor
<1> QED BY <1>0, <1>1, <1>2, <1>3

LEMMA EightTurnsLinear ==
  ASSUME NEW a, NEW b
  PROVE  EightTurns(Xor(a, b)) = Xor(EightTurns(a), EightTurns(b))
<1>1. \A x, y : FourTurns(Xor(x, y)) = Xor(FourTurns(x), FourTurns(y))
  BY TurnLinear DEF FourTurns
<1> QED BY <1>1 DEF EightTurns

LEMMA ClearTopShifts ==
  ASSUME NEW a, a \cap 8..15 = {} PROVE EightTurns(a) = ShiftLeft(a, 8)
<1>1. ASSUME NEW k \in 0..7 PROVE Turn(ShiftLeft(a, k)) = ShiftLeft(a, k + 1)
  <2>1. 15 \notin ShiftLeft(a, k) BY DEF ShiftLeft
  <2>2. ShiftLeft(ShiftLeft(a, k), 1) = ShiftLeft(a, k + 1) BY ShiftsAdd
  <2> QED BY <2>1, <2>2 DEF Turn
<1>2. Turn(a) = ShiftLeft(a, 1)
  BY DEF Turn
<1>3. Turn(ShiftLeft(a, 1)) = ShiftLeft(a, 2) /\ Turn(ShiftLeft(a, 2)) = ShiftLeft(a, 3) /\ Turn(ShiftLeft(a, 3)) = ShiftLeft(a, 4)
  BY <1>1
<1>4. FourTurns(a) = ShiftLeft(a, 4)
  BY <1>2, <1>3 DEF FourTurns
<1>5. /\ Turn(ShiftLeft(a, 4)) = ShiftLeft(a, 5) /\ Turn(ShiftLeft(a, 5)) = ShiftLeft(a, 6)
      /\ Turn(ShiftLeft(a, 6)) = ShiftLeft(a, 7) /\ Turn(ShiftLeft(a, 7)) = ShiftLeft(a, 8)
  BY <1>1
<1>6. FourTurns(ShiftLeft(a, 4)) = ShiftLeft(a, 8)
  BY <1>5 DEF FourTurns
<1> QED BY <1>4, <1>6 DEF EightTurns

(* A byte looked up in the table is a byte divided bit by bit. *)
LEMMA TableIsDivision ==
  ASSUME NEW c \in Word, NEW byte \in Byte
  PROVE  Xor(ShiftLeft(c, 8), CRC_TABLE[Xor({i \in 0..7 : i + 8 \in c}, byte)]) = EightTurns(Xor(c, AtTop(byte)))
<1> DEFINE x == Xor(c, AtTop(byte))
           low == x \cap 0..7
           high == x \cap 8..15
           idx == Xor({i \in 0..7 : i + 8 \in c}, byte)
<1>1. x = Xor(low, high)
  <2>1. c \subseteq 0..15 /\ AtTop(byte) \subseteq 0..15
    BY DEF AtTop, Word
  <2>2. \A e : e \in x => e \in 0..15
    BY <2>1 DEF Xor
  <2> HIDE DEF x
  <2>3. \A e : e \in x <=> e \in low \/ e \in high
    <3>1. \A e \in 0..15 : e \in 0..7 \/ e \in 8..15
      OBVIOUS
    <3> QED BY <2>2, <3>1
  <2>4. \A e : ~ (e \in low /\ e \in high)
    OBVIOUS
  <2> QED BY <2>3, <2>4 DEF Xor
<1>2. EightTurns(x) = Xor(EightTurns(low), EightTurns(high))
  BY <1>1, EightTurnsLinear
<1>3. EightTurns(low) = ShiftLeft(c, 8)
  <2>1. EightTurns(low) = ShiftLeft(low, 8)
    <3>1. low \cap 8..15 = {} OBVIOUS
    <3> QED BY <3>1, ClearTopShifts
  <2>2. ShiftLeft(low, 8) = ShiftLeft(c, 8) BY DEF ShiftLeft, Xor, AtTop
  <2> QED BY <2>1, <2>2
<1>4. high = AtTop(idx)
  BY DEF Xor, AtTop, Byte
<1>5. idx \in Byte BY DEF Xor, Byte
<1>6. CRC_TABLE[idx] = EightTurns(AtTop(idx)) BY <1>5 DEF CRC_TABLE
<1> QED BY <1>2, <1>3, <1>4, <1>6

(* So a receiver that divides the same bytes gets the same remainder. *)
LEMMA ChecksumsMatch ==
  ASSUME NEW payload, NEW body, Len(payload) \in Nat, Len(body) = Len(payload) + 2,
         \A i \in 1..Len(payload) : body[i] = payload[i],
         body[Len(payload) + 1] + 256 * body[Len(payload) + 2] = Value(crc16_ccitt(payload))
  PROVE  Intact(body)
<1> DEFINE n == Len(body) - 2
           table == [c \in Word |-> [byte \in Byte |-> Xor(ShiftLeft(c, 8), CRC_TABLE[Xor({i \in 0..7 : i + 8 \in c}, byte)])]]
           division == [c \in Word |-> [byte \in Byte |-> EightTurns(Xor(c, AtTop(byte)))]]
           F(fed, crc) == [i \in 0..Len(payload) |-> IF i = 0 THEN {} ELSE fed[crc[i - 1]][Bits(payload[i])]]
           G(fed, crc) == [i \in 0..n |-> IF i = 0 THEN {} ELSE fed[crc[i - 1]][Bits(body[i])]]
<1>1. table = division
  BY TableIsDivision
<1>2. n = Len(payload)
  OBVIOUS
<1>3. crc16_ccitt(payload) = (CHOOSE crc : crc = F(table, crc))[Len(payload)]
  BY DEF crc16_ccitt
<1>4. Intact(body) <=> body[n + 1] + 256 * body[n + 2] = Value((CHOOSE crc : crc = G(division, crc))[n])
  BY DEF Intact
<1> HIDE DEF table, division, n
<1>5. ASSUME NEW fed, NEW crc PROVE F(fed, crc) = G(fed, crc)
  BY <1>2
<1>6. (CHOOSE crc : crc = F(table, crc)) = (CHOOSE crc : crc = G(table, crc))
  BY <1>5
<1>7. (CHOOSE crc : crc = F(table, crc)) = (CHOOSE crc : crc = G(division, crc))
  BY <1>1, <1>6
<1> HIDE DEF F, G
<1> QED BY <1>2, <1>3, <1>4, <1>7

(* Whatever set the register is, it counts as a number of two bytes. *)
LEMMA ValueIs ==
  ASSUME NEW word
  PROVE  Value(word) \in Nat /\ Value(word) <= 65535
<1> DEFINE v(i) == IF i - 1 \in word THEN Weight[i] ELSE 0
           step(f) == [i \in 0..16 |-> IF i = 0 THEN 0 ELSE f[i - 1] + v(i)]
           F == CHOOSE f : f = step(f)
<1>1. Value(word) = F[16]
  BY DEF Value
<1>2. \A i \in 1..16 : v(i) = 0 \/ v(i) = Weight[i]
  OBVIOUS
<1> HIDE DEF v
<1>3a. v(1) \in Int /\ 0 <= v(1) /\ v(1) <= 1 /\ v(2) \in Int /\ 0 <= v(2) /\ v(2) <= 2 /\ v(3) \in Int /\ 0 <= v(3) /\ v(3) <= 4 /\ v(4) \in Int /\ 0 <= v(4) /\ v(4) <= 8
  <2>1. Weight[1] = 1 /\ Weight[2] = 2 /\ Weight[3] = 4 /\ Weight[4] = 8
    BY ONLY SMT DEF Weight
  <2> QED BY ONLY <1>2, <2>1, SMT
<1>3b. v(5) \in Int /\ 0 <= v(5) /\ v(5) <= 16 /\ v(6) \in Int /\ 0 <= v(6) /\ v(6) <= 32 /\ v(7) \in Int /\ 0 <= v(7) /\ v(7) <= 64 /\ v(8) \in Int /\ 0 <= v(8) /\ v(8) <= 128
  <2>1. Weight[5] = 16 /\ Weight[6] = 32 /\ Weight[7] = 64 /\ Weight[8] = 128
    BY ONLY SMT DEF Weight
  <2> QED BY ONLY <1>2, <2>1, SMT
<1>3c. v(9) \in Int /\ 0 <= v(9) /\ v(9) <= 256 /\ v(10) \in Int /\ 0 <= v(10) /\ v(10) <= 512 /\ v(11) \in Int /\ 0 <= v(11) /\ v(11) <= 1024 /\ v(12) \in Int /\ 0 <= v(12) /\ v(12) <= 2048
  <2>1. Weight[9] = 256 /\ Weight[10] = 512 /\ Weight[11] = 1024 /\ Weight[12] = 2048
    BY ONLY SMT DEF Weight
  <2> QED BY ONLY <1>2, <2>1, SMT
<1>3d. v(13) \in Int /\ 0 <= v(13) /\ v(13) <= 4096 /\ v(14) \in Int /\ 0 <= v(14) /\ v(14) <= 8192 /\ v(15) \in Int /\ 0 <= v(15) /\ v(15) <= 16384 /\ v(16) \in Int /\ 0 <= v(16) /\ v(16) <= 32768
  <2>1. Weight[13] = 4096 /\ Weight[14] = 8192 /\ Weight[15] = 16384 /\ Weight[16] = 32768
    BY ONLY SMT DEF Weight
  <2> QED BY ONLY <1>2, <2>1, SMT
<1> DEFINE s2 == v(1) + v(2)
           s3 == s2 + v(3)
           s4 == s3 + v(4)
           s5 == s4 + v(5)
           s6 == s5 + v(6)
           s7 == s6 + v(7)
           s8 == s7 + v(8)
           s9 == s8 + v(9)
           s10 == s9 + v(10)
           s11 == s10 + v(11)
           s12 == s11 + v(12)
           s13 == s12 + v(13)
           s14 == s13 + v(14)
           s15 == s14 + v(15)
           s16 == s15 + v(16)
           s == <<v(1), s2, s3, s4, s5, s6, s7, s8, s9, s10, s11, s12, s13, s14, s15, s16>>
           g == [i \in 0..16 |-> IF i = 0 THEN 0 ELSE s[i]]
<1>4. /\ v(1) \in Int /\ s2 \in Int /\ s3 \in Int /\ s4 \in Int /\ s5 \in Int /\ s6 \in Int /\ s7 \in Int /\ s8 \in Int
      /\ s9 \in Int /\ s10 \in Int /\ s11 \in Int /\ s12 \in Int /\ s13 \in Int /\ s14 \in Int /\ s15 \in Int
      /\ s16 \in Int
  <2>1. /\ s2 = v(1) + v(2) /\ s3 = s2 + v(3) /\ s4 = s3 + v(4) /\ s5 = s4 + v(5) /\ s6 = s5 + v(6)
        /\ s7 = s6 + v(7) /\ s8 = s7 + v(8) /\ s9 = s8 + v(9) /\ s10 = s9 + v(10) /\ s11 = s10 + v(11)
        /\ s12 = s11 + v(12) /\ s13 = s12 + v(13) /\ s14 = s13 + v(14) /\ s15 = s14 + v(15) /\ s16 = s15 + v(16)
    OBVIOUS
  <2> HIDE DEF s2, s3, s4, s5, s6, s7, s8, s9, s10, s11, s12, s13, s14, s15, s16
  <2>2. \A i \in 1..16 : v(i) \in Int
    BY <1>2 DEF Weight
  <2>3. s2 \in Int /\ s3 \in Int /\ s4 \in Int /\ s5 \in Int /\ s6 \in Int
    BY ONLY <2>1, <2>2
  <2>4. s7 \in Int /\ s8 \in Int /\ s9 \in Int /\ s10 \in Int /\ s11 \in Int
    BY ONLY <2>1, <2>2, <2>3
  <2>5. s12 \in Int /\ s13 \in Int /\ s14 \in Int /\ s15 \in Int /\ s16 \in Int
    BY ONLY <2>1, <2>2, <2>4
  <2>6. v(1) \in Int
    BY <1>3a
  <2> QED BY ONLY <2>3, <2>4, <2>5, <2>6
<1>5. s[1] = v(1) /\ \A i \in 2..16 : s[i] = s[i - 1] + v(i)
  <2> HIDE DEF s
  <2>1. /\ s[1] = v(1) /\ s[2] = s2 /\ s[3] = s3 /\ s[4] = s4 /\ s[5] = s5 /\ s[6] = s6 /\ s[7] = s7 /\ s[8] = s8
        /\ s[9] = s9 /\ s[10] = s10 /\ s[11] = s11 /\ s[12] = s12 /\ s[13] = s13 /\ s[14] = s14 /\ s[15] = s15 /\ s[16] = s16
    <3> HIDE DEF s2, s3, s4, s5, s6, s7, s8, s9, s10, s11, s12, s13, s14, s15, s16
    <3> QED BY DEF s
  <2>2. ASSUME NEW i \in 2..16
        PROVE  i = 2 \/ i = 3 \/ i = 4 \/ i = 5 \/ i = 6 \/ i = 7 \/ i = 8 \/ i = 9 \/ i = 10 \/ i = 11 \/ i = 12
               \/ i = 13 \/ i = 14 \/ i = 15 \/ i = 16
    OBVIOUS
  <2> QED BY <2>1, <2>2, SMTT(30)
<1>6. s[16] = s16
  <2> HIDE DEF s2, s3, s4, s5, s6, s7, s8, s9, s10, s11, s12, s13, s14, s15, s16
  <2> QED OBVIOUS
<1> HIDE DEF s, s16
<1>7. g = step(g)
  <2>1. ASSUME NEW i \in 0..16 PROVE g[i] = step(g)[i]
    <3>1. CASE i = 0
      BY <3>1
    <3>2. CASE i = 1
      <4>1. g[1] = s[1] /\ g[0] = 0 /\ v(1) \in Int
        BY <1>4
      <4> HIDE DEF g
      <4>2. step(g)[1] = g[0] + v(1)
        OBVIOUS
      <4> QED BY <1>5, <3>2, <4>1, <4>2
    <3>3. CASE i \in 2..16
      <4>1. g[i] = s[i] /\ g[i - 1] = s[i - 1]
        BY <3>3
      <4> HIDE DEF g
      <4>2. step(g)[i] = g[i - 1] + v(i)
        BY <3>3
      <4> QED BY <1>5, <3>3, <4>1, <4>2
    <3> QED BY <3>1, <3>2, <3>3
  <2> QED BY <2>1
<1>8. F = step(F)
  <2> HIDE DEF g
  <2> QED BY <1>7
<1>9. F[0] = 0 /\ \A i \in 1..16 : F[i] = F[i - 1] + v(i)
  <2> HIDE DEF F
  <2>1. ASSUME NEW f, f = step(f) PROVE f[0] = 0 /\ \A i \in 1..16 : f[i] = f[i - 1] + v(i)
    BY <2>1
  <2> QED BY <1>8, <2>1
<1> HIDE DEF F
<1>10. F[4] \in Int /\ 0 <= F[4] /\ F[4] <= 15
  <2>1. v(1) \in Int /\ 0 <= v(1) /\ v(1) <= 1 /\ v(2) \in Int /\ 0 <= v(2) /\ v(2) <= 2 /\ v(3) \in Int /\ 0 <= v(3) /\ v(3) <= 4 /\ v(4) \in Int /\ 0 <= v(4) /\ v(4) <= 8
    BY ONLY <1>3a
  <2>2. F[1] = 0 + v(1) /\ F[2] = F[1] + v(2) /\ F[3] = F[2] + v(3) /\ F[4] = F[3] + v(4)
    BY ONLY <1>9, SMTT(20)
  <2> QED BY ONLY <2>1, <2>2, SMT
<1>11. F[8] \in Int /\ 0 <= F[8] /\ F[8] <= 255
  <2>1. v(5) \in Int /\ 0 <= v(5) /\ v(5) <= 16 /\ v(6) \in Int /\ 0 <= v(6) /\ v(6) <= 32 /\ v(7) \in Int /\ 0 <= v(7) /\ v(7) <= 64 /\ v(8) \in Int /\ 0 <= v(8) /\ v(8) <= 128
    BY ONLY <1>3b
  <2>2. F[5] = F[4] + v(5) /\ F[6] = F[5] + v(6) /\ F[7] = F[6] + v(7) /\ F[8] = F[7] + v(8)
    BY ONLY <1>9, SMTT(20)
  <2> QED BY ONLY <2>1, <2>2, <1>10, SMT
<1>12. F[12] \in Int /\ 0 <= F[12] /\ F[12] <= 4095
  <2>1. v(9) \in Int /\ 0 <= v(9) /\ v(9) <= 256 /\ v(10) \in Int /\ 0 <= v(10) /\ v(10) <= 512 /\ v(11) \in Int /\ 0 <= v(11) /\ v(11) <= 1024 /\ v(12) \in Int /\ 0 <= v(12) /\ v(12) <= 2048
    BY ONLY <1>3c
  <2>2. F[9] = F[8] + v(9) /\ F[10] = F[9] + v(10) /\ F[11] = F[10] + v(11) /\ F[12] = F[11] + v(12)
    BY ONLY <1>9, SMTT(20)
  <2> QED BY ONLY <2>1, <2>2, <1>11, SMT
<1>13. F[16] \in Int /\ 0 <= F[16] /\ F[16] <= 65535
  <2>1. v(13) \in Int /\ 0 <= v(13) /\ v(13) <= 4096 /\ v(14) \in Int /\ 0 <= v(14) /\ v(14) <= 8192 /\ v(15) \in Int /\ 0 <= v(15) /\ v(15) <= 16384 /\ v(16) \in Int /\ 0 <= v(16) /\ v(16) <= 32768
    BY ONLY <1>3d
  <2>2. F[13] = F[12] + v(13) /\ F[14] = F[13] + v(14) /\ F[15] = F[14] + v(15) /\ F[16] = F[15] + v(16)
    BY ONLY <1>9, SMTT(20)
  <2> QED BY ONLY <2>1, <2>2, <1>12, SMT
<1> QED BY <1>1, <1>13, SMT

-----------------------------------------------------------------------------
(*                         The datagrams: stuffing                         *)

(* What a receiver has read after a byte, and after each of the bytes between the flags. *)
Got(r, before, b) == IF b = 125 THEN r ELSE Append(r, IF before = 125 THEN Turned(b) ELSE b)
Before(s, i) == IF i > 1 THEN s[i - 1] ELSE 0

Reads(s, g) ==
  /\ g \in [0..Len(s) -> Seq(Int)]
  /\ g[0] = <<>>
  /\ \A i \in 1..Len(s) : g[i] = Got(g[i - 1], Before(s, i), s[i])

IsRead(s, r) == \E g : Reads(s, g) /\ r = g[Len(s)]

(* No escape is open at the end, and no flag is among the bytes. *)
Final(s) == IF s = <<>> THEN 0 ELSE s[Len(s)]
NoFlag(s) == \A i \in 1..Len(s) : s[i] # 126

LEMMA TurnedIs == ASSUME NEW b \in Int PROVE Turned(b) \in Int /\ Turned(94) = 126 /\ Turned(93) = 125
  BY DEF Turned

LEMMA GotIs == ASSUME NEW r \in Seq(Int), NEW before, NEW b \in Int PROVE Got(r, before, b) \in Seq(Int)
<1>1. (IF before = 125 THEN Turned(b) ELSE b) \in Int
  BY TurnedIs
<1> QED BY <1>1 DEF Got

LEMMA ReadsGrow ==
  ASSUME NEW s \in Seq(Int), NEW r, IsRead(s, r), NEW b \in Int
  PROVE  IsRead(Append(s, b), Got(r, Final(s), b)) /\ r \in Seq(Int)
<1>1. PICK g : Reads(s, g) /\ r = g[Len(s)]
  BY DEF IsRead
<1> DEFINE L == Len(s)
           t == Append(s, b)
           q == Got(r, Final(s), b)
           h == [i \in 0..L + 1 |-> IF i = L + 1 THEN q ELSE g[i]]
<1>2. g \in [0..L -> Seq(Int)] /\ g[0] = <<>> /\ \A i \in 1..L : g[i] = Got(g[i - 1], Before(s, i), s[i])
  BY <1>1 DEF Reads
<1>3. L \in Nat /\ t \in Seq(Int) /\ Len(t) = L + 1 /\ t[L + 1] = b /\ \A i \in 1..L : t[i] = s[i]
  OBVIOUS
<1>4. Final(s) = IF L > 0 THEN s[L] ELSE 0
  BY DEF Final
<1>5. r \in Seq(Int) /\ r = g[L]
  BY <1>1, <1>2, <1>3
<1> HIDE DEF L, t
<1>6. q \in Seq(Int)
  BY <1>5, GotIs
<1> HIDE DEF q
<1>7. h \in [0..L + 1 -> Seq(Int)] /\ h[0] = <<>> /\ h[L + 1] = q /\ \A i \in 0..L : h[i] = g[i]
  BY <1>2, <1>3, <1>6
<1> HIDE DEF h
<1>8. ASSUME NEW i \in 1..L + 1 PROVE h[i] = Got(h[i - 1], Before(t, i), t[i])
  <2>1. CASE i = L + 1
    <3>0. i - 1 = L /\ L \in 0..L
      BY <1>3, <2>1
    <3>1. h[i - 1] = r /\ t[i] = b /\ h[i] = q
      BY <1>3, <1>5, <1>7, <2>1, <3>0
    <3>2. Before(t, i) = Final(s)
      BY <1>3, <1>4, <2>1, <3>0 DEF Before
    <3> QED BY <3>1, <3>2 DEF q
  <2>2. CASE i # L + 1
    <3>0. i \in 1..L /\ i \in 0..L /\ i - 1 \in 0..L
      BY <1>3, <2>2
    <3>1. h[i] = g[i] /\ h[i - 1] = g[i - 1] /\ t[i] = s[i]
      BY <1>3, <1>7, <3>0
    <3>2. Before(t, i) = Before(s, i)
      BY <1>3, <3>0 DEF Before
    <3> QED BY <1>2, <3>0, <3>1, <3>2
  <2> QED BY <2>1, <2>2
<1>9. Reads(t, h)
  BY <1>3, <1>7, <1>8 DEF Reads
<1>10. IsRead(t, q)
  BY <1>3, <1>7, <1>9 DEF IsRead
<1> QED BY <1>5, <1>10 DEF q, t

LEMMA NothingRead == IsRead(<<>>, <<>>) /\ Final(<<>>) = 0 /\ NoFlag(<<>>)
<1> DEFINE g == [i \in {0} |-> <<>>]
<1>1. 0..0 = {0} /\ 1..0 = {} /\ Len(<<>>) = 0
  OBVIOUS
<1>2. Reads(<<>>, g) /\ g[0] = <<>>
  BY <1>1 DEF Reads
<1> QED BY <1>1, <1>2 DEF IsRead, Final, NoFlag

LEMMA OneMore ==
  ASSUME NEW s \in Seq(Int), NEW b \in Int
  PROVE  /\ Append(s, b) \in Seq(Int) /\ Final(Append(s, b)) = b
         /\ NoFlag(s) /\ b # 126 => NoFlag(Append(s, b))
<1> DEFINE t == Append(s, b)
<1>1. t \in Seq(Int) /\ Len(t) = Len(s) + 1 /\ Len(s) \in Nat /\ t[Len(s) + 1] = b /\ \A i \in 1..Len(s) : t[i] = s[i]
  OBVIOUS
<1> HIDE DEF t
<1>2. t # <<>>
  BY <1>1
<1>3. Final(t) = b
  BY <1>1, <1>2 DEF Final
<1>4. NoFlag(s) /\ b # 126 => NoFlag(t)
  BY <1>1 DEF NoFlag
<1> QED BY <1>1, <1>3, <1>4 DEF t

Good(s, r) == s \in Seq(Int) /\ IsRead(s, r) /\ Final(s) # 125 /\ NoFlag(s)

LEMMA PairIsRead ==
  ASSUME NEW s, NEW r, Good(s, r), NEW e \in {93, 94}
  PROVE  Good(s \o <<125, e>>, Append(r, Turned(e)))
<1> DEFINE t == Append(s, 125)
           u == Append(t, e)
<1>0. e \in Int /\ e # 125 /\ e # 126 /\ 125 \in Int /\ 125 # 126 /\ s \in Seq(Int)
  BY DEF Good
<1>1. s \o <<125, e>> = u
  BY <1>0
<1>2. t \in Seq(Int) /\ Final(t) = 125 /\ NoFlag(t)
  BY <1>0, OneMore DEF Good
<1>3. IsRead(t, r)
  <2>1. IsRead(t, Got(r, Final(s), 125))
    BY <1>0, ReadsGrow DEF Good
  <2> QED BY <2>1 DEF Got
<1> HIDE DEF t
<1>4. u \in Seq(Int) /\ Final(u) = e /\ NoFlag(u)
  BY <1>0, <1>2, OneMore
<1>5. IsRead(u, Got(r, 125, e))
  <2>1. IsRead(u, Got(r, Final(t), e))
    BY <1>0, <1>2, <1>3, ReadsGrow
  <2> QED BY <1>2, <2>1
<1>6. Got(r, 125, e) = Append(r, Turned(e))
  BY <1>0 DEF Got
<1> HIDE DEF u
<1>7. Good(u, Append(r, Turned(e)))
  <2>1. IsRead(u, Append(r, Turned(e)))
    BY ONLY <1>5, <1>6, Zenon
  <2>2. Final(u) # 125
    BY <1>0, <1>4
  <2> QED BY ONLY <2>1, <2>2, <1>4, Zenon DEF Good
<1> QED BY ONLY <1>1, <1>7, Zenon

(* A byte is read back however it was stuffed. *)
LEMMA StuffedIsRead ==
  ASSUME NEW s, NEW r, Good(s, r), NEW b \in 0..255
  PROVE  Good(s \o Stuffed(b), Append(r, b))
<1>1. CASE b \notin {125, 126}
  <2>0. s \in Seq(Int) /\ b \in Int /\ b # 125 /\ b # 126
    BY <1>1 DEF Good
  <2>1. Stuffed(b) = <<b>> /\ s \o <<b>> = Append(s, b)
    BY <2>0 DEF Stuffed
  <2>2. IsRead(Append(s, b), Got(r, Final(s), b))
    BY <2>0, ReadsGrow DEF Good
  <2>3. Got(r, Final(s), b) = Append(r, b)
    BY <2>0 DEF Got, Good
  <2>4. Append(s, b) \in Seq(Int) /\ Final(Append(s, b)) = b /\ NoFlag(Append(s, b))
    BY <2>0, OneMore DEF Good
  <2>5. Good(Append(s, b), Append(r, b))
    BY <2>0, <2>2, <2>3, <2>4 DEF Good
  <2> QED BY <2>1, <2>5
<1>2. CASE b = 126
  <2>1. Stuffed(b) = <<125, 94>> /\ b = Turned(94) /\ 94 \in {93, 94}
    BY <1>2, TurnedIs DEF Stuffed
  <2> QED BY <2>1, PairIsRead
<1>3. CASE b = 125
  <2>1. Stuffed(b) = <<125, 93>> /\ b = Turned(93) /\ 93 \in {93, 94}
    BY <1>3, TurnedIs DEF Stuffed
  <2> QED BY <2>1, PairIsRead
<1> QED BY <1>1, <1>2, <1>3

LEMMA StuffedBytes == ASSUME NEW b \in 0..255 PROVE Stuffed(b) \in Seq(Int)
<1>1. Stuffed(b) \in {<<b>>, <<125, 93>>, <<125, 94>>}
  BY DEF Stuffed
<1>2. b \in Int /\ 125 \in Int /\ 93 \in Int /\ 94 \in Int
  OBVIOUS
<1>3. <<b>> \in Seq(Int) /\ <<125, 93>> \in Seq(Int) /\ <<125, 94>> \in Seq(Int)
  BY <1>2
<1> QED BY <1>1, <1>3

(* So is a message, byte by byte. *)
LEMMA MessageIsRead ==
  ASSUME NEW body \in Seq(0..255), Len(body) > 0, NEW flat, flat = FlattenSeq([i \in DOMAIN body |-> Stuffed(body[i])])
  PROVE  Good(flat, body)
<1> DEFINE L == Len(body)
           ss == [i \in 1..L |-> Stuffed(body[i])]
<1>1. L \in Nat /\ L > 0 /\ DOMAIN body = 1..L /\ \A i \in 1..L : body[i] \in 0..255
  <2>1. \A i \in 1..Len(body) : body[i] \in 0..255
    BY ElementOfSeq
  <2> QED BY <2>1
<1>2. flat = FlattenSeq(ss)
  BY <1>1
<1> HIDE DEF L
<1>3. ss \in Seq(Seq(Int)) /\ Len(ss) = L /\ \A i \in 1..L : ss[i] = Stuffed(body[i])
  <2>1. ASSUME NEW i \in 1..L PROVE Stuffed(body[i]) \in Seq(Int)
    BY <1>1, StuffedBytes
  <2> QED BY <1>1, <2>1
<1> HIDE DEF ss
<1>4. PICK f : /\ f \in [1..L -> Seq(Int)] /\ f[1] = ss[1]
               /\ \A i \in 2..L : f[i] = f[i - 1] \o ss[i]
               /\ flat = f[L]
  <2>1. Len(ss) > 0
    BY <1>1, <1>3
  <2>2. \E f : /\ f \in [1..Len(ss) -> Seq(Int)] /\ f[1] = ss[1]
               /\ \A i \in 2..Len(ss) : f[i] = f[i - 1] \o ss[i]
               /\ FlattenSeq(ss) = f[Len(ss)]
    BY <1>3, <2>1, FlattenIs
  <2> QED BY <1>2, <1>3, <2>2
<1>5. ASSUME NEW s, NEW r, Good(s, r), NEW i \in 1..L PROVE Good(s \o ss[i], Append(r, body[i]))
  BY <1>1, <1>3, <1>5, StuffedIsRead
<1> DEFINE u(i) == SubSeq(body, 1, i)
           P(i) == Good(f[i], u(i))
           T == {i \in 1..L : ~ P(i)}
<1>6. \A i \in 1..L : u(i) = Append(u(i - 1), body[i])
  BY SubSeqGrows DEF L
<1>7. P(1)
  <2>1. u(0) = <<>>
    BY SubSeqEmpty
  <2> HIDE DEF u
  <2>2. Good(<<>>, <<>>)
    BY NothingRead DEF Good
  <2>3. 1 \in 1..L /\ 1 - 1 = 0
    BY <1>1
  <2>4. u(1) = Append(<<>>, body[1])
    BY <1>6, <2>1, <2>3
  <2>5. <<>> \o ss[1] = ss[1]
    <3>1. ss[1] \in Seq(Int)
      BY <1>3, <2>3
    <3> QED BY <3>1
  <2>6. Good(<<>> \o ss[1], Append(<<>>, body[1]))
    BY <1>5, <2>2, <2>3
  <2> QED BY <1>4, <2>4, <2>5, <2>6
<1> HIDE DEF u
<1>8. T = {}
  <2> SUFFICES ASSUME T # {} PROVE FALSE
    OBVIOUS
  <2> HIDE DEF P
  <2>1. PICK x \in T : \A y \in T : x <= y
    <3>1. T \subseteq Nat
      OBVIOUS
    <3> HIDE DEF T
    <3> QED BY <3>1, LeastNatural
  <2>2. x \in 2..L /\ x \in 1..L /\ x - 1 \notin T /\ x - 1 \in 1..L
    BY <1>1, <1>7, <2>1
  <2>3. P(x - 1)
    BY <2>2
  <2>4. Good(f[x - 1] \o ss[x], Append(u(x - 1), body[x]))
    BY <1>5, <2>2, <2>3 DEF P
  <2>5. P(x)
    BY <1>4, <1>6, <2>2, <2>4 DEF P
  <2> QED BY <2>1, <2>5
<1>9. P(L)
  <2>1. L \in 1..L
    BY <1>1
  <2> HIDE DEF P
  <2> QED BY <1>8, <2>1
<1>10. u(L) = body
  BY SubSeqFull DEF u, L
<1> QED BY <1>4, <1>9, <1>10

(* What Unstuffed computes is what is read. *)
LEMMA UnstuffedIs ==
  ASSUME NEW s \in Seq(Int), NEW r, IsRead(s, r)
  PROVE  Unstuffed(s) = r
<1> DEFINE L == Len(s)
           step(f) == [i \in 0..L |->
                         CASE i = 0 -> <<>>
                           [] i > 0 /\ s[i] = 125 -> f[i - 1]
                           [] OTHER -> Append(f[i - 1], IF i > 1 /\ s[i - 1] = 125 THEN Turned(s[i]) ELSE s[i])]
           turn(f) == [i \in 0..L |-> IF i = 0 THEN <<>> ELSE Got(f[i - 1], Before(s, i), s[i])]
           F == CHOOSE f : f = step(f)
<1>1. PICK g : Reads(s, g) /\ r = g[L]
  BY DEF IsRead
<1>2. g = [i \in 0..L |-> g[i]] /\ g[0] = <<>> /\ L \in Nat /\ \A i \in 1..L : g[i] = Got(g[i - 1], Before(s, i), s[i])
  BY <1>1 DEF Reads
<1>3. ASSUME NEW f PROVE step(f) = turn(f)
  <2>1. ASSUME NEW i \in 0..L PROVE step(f)[i] = turn(f)[i]
    <3>1. CASE i = 0
      BY <3>1
    <3>2. CASE i > 0 /\ s[i] = 125
      BY <3>2 DEF Got
    <3>3. CASE i > 0 /\ s[i] # 125
      <4>1. (i > 1 /\ s[i - 1] = 125) <=> Before(s, i) = 125
        BY <3>3 DEF Before
      <4>2. step(f)[i] = Append(f[i - 1], IF i > 1 /\ s[i - 1] = 125 THEN Turned(s[i]) ELSE s[i])
        BY <3>3
      <4>3. turn(f)[i] = Got(f[i - 1], Before(s, i), s[i])
        BY <3>3
      <4> QED BY <3>3, <4>1, <4>2, <4>3 DEF Got
    <3> QED BY <1>2, <3>1, <3>2, <3>3
  <2> QED BY <2>1
<1>4. Unstuffed(s) = F[L]
  BY DEF Unstuffed
<1> HIDE DEF step, L
<1>5. g = turn(g)
  <2>1. ASSUME NEW i \in 0..L PROVE g[i] = turn(g)[i]
    <3>1. i = 0 \/ i \in 1..L
      BY <1>2
    <3> QED BY <1>2, <3>1
  <2> QED BY <1>2, <2>1
<1>6. F = turn(F)
  BY <1>3, <1>5
<1> HIDE DEF F
<1>7. F[0] = <<>> /\ \A i \in 1..L : F[i] = Got(F[i - 1], Before(s, i), s[i])
  <2>1. ASSUME NEW f, NEW i \in 0..L PROVE turn(f)[i] = IF i = 0 THEN <<>> ELSE Got(f[i - 1], Before(s, i), s[i])
    OBVIOUS
  <2> HIDE DEF turn
  <2>2. \A i \in 0..L : F[i] = IF i = 0 THEN <<>> ELSE Got(F[i - 1], Before(s, i), s[i])
    BY <1>6, <2>1
  <2>3. 0 \in 0..L /\ \A i \in 1..L : i \in 0..L /\ i # 0
    BY <1>2
  <2> QED BY <2>2, <2>3
<1> HIDE DEF turn
<1>8. \A i \in 0..L : F[i] = g[i]
  <2> DEFINE T == {i \in 0..L : F[i] # g[i]}
  <2> SUFFICES ASSUME T # {} PROVE FALSE
    OBVIOUS
  <2>1. PICK x \in T : \A y \in T : x <= y
    <3>1. T \subseteq Nat
      BY <1>2
    <3> HIDE DEF T
    <3> QED BY <3>1, LeastNatural
  <2>2. x \in 1..L /\ x - 1 \notin T /\ x - 1 \in 0..L
    BY <1>2, <1>7, <2>1
  <2>3. F[x - 1] = g[x - 1]
    BY <2>2
  <2> QED BY <1>2, <1>7, <2>1, <2>2, <2>3
<1>9. F[L] = g[L]
  BY <1>2, <1>8
<1> QED BY <1>1, <1>4, <1>9

Framed(datagram, payload) ==
  /\ datagram[1] = 126 /\ Latest(datagram) = 126
  /\ \A i \in DOMAIN Inside(datagram) : Inside(datagram)[i] # 126
  /\ Intact(Body(datagram))
  /\ Body(datagram) \in Seq(0..255) /\ Len(Body(datagram)) = Len(payload) + 2
  /\ \A i \in 1..Len(payload) : Body(datagram)[i] = payload[i]

Flagged(flat) == <<126>> \o flat \o <<126>>

(* A sequence between flags is what is inside them. *)
LEMMA FlagsEnclose ==
  ASSUME NEW flat \in Seq(Int), NEW d, d = Flagged(flat)
  PROVE  d[1] = 126 /\ Latest(d) = 126 /\ Inside(d) = flat
<1> DEFINE s == <<126>> \o flat
           L == Len(flat)
<1>0. L \in Nat /\ <<126>> \in Seq(Int) /\ Len(<<126>>) = 1 /\ <<126>>[1] = 126
  OBVIOUS
<1>1. s \in Seq(Int) /\ Len(s) = 1 + L /\ s[1] = 126 /\ \A i \in 1..L : s[1 + i] = flat[i]
  <2>1. /\ s \in Seq(Int) /\ Len(s) = Len(<<126>>) + L /\ (\A i \in 1..Len(<<126>>) : s[i] = <<126>>[i])
        /\ (\A i \in 1..L : s[Len(<<126>>) + i] = flat[i])
    BY <1>0, ConcatIs
  <2> QED BY <1>0, <2>1
<1>2. d = s \o <<126>>
  BY DEF Flagged
<1> HIDE DEF s
<1>3. d \in Seq(Int) /\ Len(d) = L + 2 /\ (\A i \in 1..L + 1 : d[i] = s[i]) /\ d[L + 2] = 126
  <2>1. /\ d \in Seq(Int) /\ Len(d) = Len(s) + Len(<<126>>) /\ (\A i \in 1..Len(s) : d[i] = s[i])
        /\ (\A i \in 1..Len(<<126>>) : d[Len(s) + i] = <<126>>[i])
    BY <1>0, <1>1, <1>2, ConcatIs
  <2> QED BY <1>0, <1>1, <2>1
<1>4. d[1] = 126 /\ Latest(d) = 126
  BY <1>0, <1>1, <1>3 DEF Latest
<1>5. Inside(d) = [i \in 1..L |-> d[i + 1]]
  <2>1. Inside(d) = SubSeq(d, 2, L + 1)
    BY <1>0, <1>3 DEF Inside
  <2>2. SubSeq(d, 2, L + 1) = [i \in 1..L |-> d[i + 1]]
    BY <1>0, <1>3
  <2> QED BY <2>1, <2>2
<1>6. ASSUME NEW i \in 1..L PROVE d[i + 1] = flat[i]
  <2>1. i + 1 \in 1..L + 1 /\ 1 + i = i + 1
    BY <1>0
  <2>2. d[i + 1] = s[i + 1] /\ s[1 + i] = flat[i]
    BY <1>1, <1>3, <2>1
  <2> QED BY <2>1, <2>2
<1>7. flat = [i \in 1..L |-> flat[i]]
  OBVIOUS
<1> HIDE DEF L
<1>8. [i \in 1..L |-> d[i + 1]] = [i \in 1..L |-> flat[i]]
  BY <1>6
<1>9. Inside(d) = flat
  BY ONLY <1>5, <1>7, <1>8, Zenon
<1> QED BY <1>4, <1>9

(* Whatever a message holds, it is found between the flags, and intact. *)
LEMMA FrameIs == ASSUME NEW payload \in Seq(0..255) PROVE Framed(frame(payload), payload)
<1> DEFINE crc == Value(crc16_ccitt(payload))
           tail == <<crc % 256, crc \div 256>>
           body == payload \o tail
           flat == FlattenSeq([i \in DOMAIN body |-> Stuffed(body[i])])
           d == frame(payload)
           L == Len(payload)
<1>1. d = Flagged(flat)
  BY DEF frame, Flagged
<1>2. crc \in Nat /\ crc <= 65535
  BY ValueIs
<1> HIDE DEF crc
<1>3. crc % 256 \in 0..255 /\ crc \div 256 \in 0..255 /\ (crc % 256) + 256 * (crc \div 256) = crc
  BY ONLY <1>2, SMT
<1>4. tail \in Seq(0..255) /\ Len(tail) = 2 /\ tail[1] = crc % 256 /\ tail[2] = crc \div 256
  BY <1>3
<1> HIDE DEF tail
<1>5. body \in Seq(0..255) /\ Len(body) = L + 2 /\ (\A i \in 1..L : body[i] = payload[i])
      /\ body[L + 1] = tail[1] /\ body[L + 2] = tail[2] /\ L \in Nat
  <2> DEFINE B == 0..255
  <2>1. payload \in Seq(B) /\ tail \in Seq(B)
    BY <1>4
  <2>2. L \in Nat
    OBVIOUS
  <2> HIDE DEF B
  <2>3. /\ payload \o tail \in Seq(B) /\ Len(payload \o tail) = Len(payload) + Len(tail)
        /\ (\A i \in 1..Len(payload) : (payload \o tail)[i] = payload[i])
        /\ (\A i \in 1..Len(tail) : (payload \o tail)[Len(payload) + i] = tail[i])
    BY ONLY <2>1, ConcatIs
  <2>4. body \in Seq(B)
    BY <2>3
  <2>5. Len(body) = L + 2 /\ (\A i \in 1..L : body[i] = payload[i])
        /\ body[L + 1] = tail[1] /\ body[L + 2] = tail[2]
    BY <1>4, <2>2, <2>3
  <2> QED BY <2>2, <2>4, <2>5 DEF B
<1> HIDE DEF body
<1>6. Good(flat, body)
  BY <1>5, MessageIsRead
<1> HIDE DEF flat, d
<1>7. flat \in Seq(Int) /\ IsRead(flat, body) /\ NoFlag(flat)
  BY <1>6 DEF Good
<1>8. d[1] = 126 /\ Latest(d) = 126 /\ Inside(d) = flat
  BY ONLY <1>1, <1>7, FlagsEnclose
<1>9. Body(d) = body
  <2>1. Unstuffed(flat) = body
    BY <1>7, UnstuffedIs
  <2> QED BY <1>8, <2>1 DEF Body
<1>10. Intact(body)
  <2>1. body[L + 1] + 256 * body[L + 2] = Value(crc16_ccitt(payload))
    BY <1>3, <1>4, <1>5 DEF crc
  <2> QED BY <1>5, <2>1, ChecksumsMatch
<1>11. \A i \in DOMAIN Inside(d) : Inside(d)[i] # 126
  BY <1>7, <1>8 DEF NoFlag
<1>12. Framed(d, payload)
  BY <1>5, <1>8, <1>9, <1>10, <1>11 DEF Framed
<1> QED BY <1>12 DEF d

-----------------------------------------------------------------------------
(*                          The datagrams: fields                          *)

LEMMA MaxIs ==
  ASSUME NEW a \in Int, NEW b \in Int
  PROVE  Max({a, b}) = IF a >= b THEN a ELSE b
<1> DEFINE m == IF a >= b THEN a ELSE b
           P(x) == x \in {a, b} /\ \A y \in {a, b} : x >= y
<1>1. P(m)
  OBVIOUS
<1>2. \A x : P(x) => x = m
  OBVIOUS
<1>3. Max({a, b}) = CHOOSE x : P(x)
  BY DEF Max
<1> HIDE DEF P, m
<1>4. P(CHOOSE x : P(x))
  BY <1>1
<1> QED BY <1>2, <1>3, <1>4 DEF m

LEMMA ClampIs ==
  ASSUME NEW n \in Int, NEW low \in Int, NEW high \in Int, low <= high
  PROVE  Clamp(n, low, high) = IF n < low THEN low ELSE IF n > high THEN high ELSE n
<1>1. Min({n, high}) = IF n <= high THEN n ELSE high
  BY MinIs
<1> DEFINE m == Min({n, high})
<1>2. m \in Int
  BY <1>1
<1> HIDE DEF m
<1>3. Max({low, m}) = IF low >= m THEN low ELSE m
  BY ONLY <1>2, low \in Int, MaxIs
<1>4. Clamp(n, low, high) = Max({low, m})
  BY DEF Clamp, m
<1>5. m = IF n <= high THEN n ELSE high
  BY <1>1 DEF m
<1> QED BY ONLY <1>3, <1>4, <1>5, low \in Int, high \in Int, n \in Int, low <= high, SMT

Counts(s) == 65536 * s[1] + 256 * s[2] + s[3]

LEMMA BigThree ==
  ASSUME NEW n \in Nat, n < 16777216, NEW s, s = BigEndian(n, 3)
  PROVE  s \in Seq(0..255) /\ Len(s) = 3 /\ Counts(s) = n
<1> DEFINE a == n \div 256
           b == a \div 256
<1>1. 256^(3 - 3) = 1 /\ 256^(3 - 2) = 256 /\ 256^(3 - 1) = 65536
  BY SMT
<1>2. /\ s[1] = (n \div 256^(3 - 1)) % 256 /\ s[2] = (n \div 256^(3 - 2)) % 256 /\ s[3] = (n \div 256^(3 - 3)) % 256
      /\ s = [i \in 1..3 |-> s[i]]
  BY SMT DEF BigEndian
<1>3. a \in Nat /\ b \in Nat /\ n = 256 * a + (n % 256) /\ a = 256 * b + (a % 256) /\ n \div 65536 = b /\ n \div 1 = n
  BY SMT
<1>4. b <= 255
  BY <1>3, SMT
<1>5. s[1] = b % 256 /\ s[2] = a % 256 /\ s[3] = n % 256
  BY <1>1, <1>2, <1>3, SMT
<1>6. n % 256 \in 0..255 /\ a % 256 \in 0..255 /\ b % 256 \in 0..255 /\ b % 256 = b
  BY <1>3, <1>4, SMT
<1> HIDE DEF a, b
<1>7. s[1] \in 0..255 /\ s[2] \in 0..255 /\ s[3] \in 0..255
  BY ONLY <1>5, <1>6, SMT
<1>8. Counts(s) = n
  BY ONLY <1>3, <1>5, <1>6, n \in Nat, SMT DEF Counts
<1>9. s \in Seq(0..255) /\ Len(s) = 3
  <2>1. \A i \in 1..3 : s[i] \in 0..255
    BY ONLY <1>7, SMT
  <2>2. [i \in 1..3 |-> s[i]] \in Seq(0..255) /\ Len([i \in 1..3 |-> s[i]]) = 3
    BY ONLY <2>1
  <2>3. s = [i \in 1..3 |-> s[i]]
    BY <1>2, SMT
  <2> QED BY ONLY <2>2, <2>3
<1> QED BY ONLY <1>8, <1>9, Zenon

(* A sign in the highest bit, of 24 and of 12. *)
LEMMA SignedIs ==
  ASSUME NEW n
  PROVE  /\ Signed(n, 24) = IF n >= 8388608 THEN n - 16777216 ELSE n
         /\ Signed(n, 12) = IF n >= 2048 THEN n - 4096 ELSE n
<1>1. 24 - 1 = 23 /\ 2^23 = 8388608 /\ 2^24 = 16777216 /\ 12 - 1 = 11 /\ 2^11 = 2048 /\ 2^12 = 4096
  BY SMT
<1>2. Signed(n, 24) = IF n >= 2^(24 - 1) THEN n - 2^24 ELSE n
  BY SMT DEF Signed
<1>3. Signed(n, 12) = IF n >= 2^(12 - 1) THEN n - 2^12 ELSE n
  BY SMT DEF Signed
<1> QED BY ONLY <1>1, <1>2, <1>3, SMT

LEMMA SemicircleIs ==
  ASSUME NEW deg \in Int, -23592960 <= deg, deg <= 23592960, NEW n, n = encode_semicircle(deg)
  PROVE  n \in Nat /\ n < 16777216 /\ Near(n, deg)
<1> DEFINE x == 32 * deg
           r == Rounded(x, 45)
<1>1. x \in Int
  BY SMT
<1>2. n = r % 16777216
  BY SMT DEF encode_semicircle
<1> HIDE DEF x
<1>3. r \in Int /\ -22 <= 45 * r - x /\ 45 * r - x <= 22
  <2>1. CASE x >= 0
    <3>1. r = (2 * x + 45) \div 90
      BY ONLY <1>1, <2>1, SMT DEF Rounded
    <3> HIDE DEF r
    <3> QED BY ONLY <1>1, <2>1, <3>1, SMT
  <2>2. CASE x < 0
    <3>1. r = - ((45 - 2 * x) \div 90)
      BY ONLY <1>1, <2>2, SMT DEF Rounded
    <3> HIDE DEF r
    <3> QED BY ONLY <1>1, <2>2, <3>1, SMT
  <2> QED BY ONLY <1>1, <2>1, <2>2, SMT
<1> HIDE DEF r
<1>4. n \in Nat /\ n < 16777216
  BY ONLY <1>2, <1>3, SMT
<1> DEFINE g == Signed(n, 24)
           off == (45 * g - x) % 754974720
<1>5. \E k \in Int : g = r + 16777216 * k
  <2>1. g = IF n >= 8388608 THEN n - 16777216 ELSE n
    BY ONLY SignedIs, SMT DEF g
  <2> HIDE DEF g
  <2>2. n = r - 16777216 * (r \div 16777216) /\ r \div 16777216 \in Int
    BY ONLY <1>2, <1>3, SMT
  <2>3. CASE n >= 8388608
    <3>1. g = r + 16777216 * (- (r \div 16777216) - 1) /\ - (r \div 16777216) - 1 \in Int
      BY ONLY <2>1, <2>2, <2>3, <1>3, <1>4, SMT
    <3> QED BY ONLY <3>1, SMT
  <2>4. CASE ~ (n >= 8388608)
    <3>1. g = r + 16777216 * (- (r \div 16777216)) /\ - (r \div 16777216) \in Int
      BY ONLY <2>1, <2>2, <2>4, <1>3, <1>4, SMT
    <3> QED BY ONLY <3>1, SMT
  <2> QED BY ONLY <2>3, <2>4, SMT
<1>6. PICK k \in Int : g = r + 16777216 * k
  BY <1>5, SMT
<1> HIDE DEF g
<1>7. off <= 22 \/ off >= 754974698
  <2> DEFINE e == 45 * r - x
  <2>1. e \in Int /\ -22 <= e /\ e <= 22
    BY ONLY <1>1, <1>3, SMT
  <2>2. 45 * g - x = e + 754974720 * k
    BY ONLY <1>1, <1>3, <1>6, SMT
  <2> HIDE DEF e
  <2>3. off = (e + 754974720 * k) % 754974720
    BY ONLY <2>2, SMT DEF off
  <2> HIDE DEF off
  <2>4. CASE e >= 0
    <3>1. off = e
      BY ONLY <2>1, <2>3, <2>4, <1>6, SMT
    <3> QED BY ONLY <2>1, <3>1, SMT
  <2>5. CASE e < 0
    <3>1. off = e + 754974720
      BY ONLY <2>1, <2>3, <2>5, <1>6, SMT
    <3> QED BY ONLY <2>1, <3>1, SMT
  <2> QED BY ONLY <2>1, <2>4, <2>5, SMT
<1>8. Near(n, deg)
  <2>1. 2^24 = 16777216
    BY SMT
  <2>2. 45 * 2^24 = 754974720 /\ 45 * 2^24 - 22 = 754974698
    BY ONLY <2>1, SMT
  <2>3. (45 * Signed(n, 24) - 32 * deg) % (45 * 2^24) = off
    BY ONLY <2>2, SMT DEF g, off, x
  <2> HIDE DEF off
  <2> QED BY ONLY <1>7, <2>2, <2>3, SMT DEF Near
<1> QED BY ONLY <1>4, <1>8, SMT

LEMMA UnknownIsNone == ASSUME NEW low \in Int, NEW high \in Int, -23592960 <= low, high <= 23592960 PROVE Unknown \notin Span(low, high)
<1>1. Unknown \notin Longitude
  BY AirspaceAssumption, SMT
<1> QED BY <1>1, SMT DEF Longitude, Span

LEMMA FeetAreTold ==
  ASSUME NEW ft, ft \in Altitude \cup {Unknown}, NEW n, n = encode_altitude(ft)
  PROVE  n \in Nat /\ n <= 4095 /\ FeetTell(n, ft)
<1>1. CASE ft = Unknown
  BY <1>1, SMT DEF encode_altitude, FeetTell
<1>2. CASE ft # Unknown
  <2> DEFINE x == ft + 1000
             q == x \div 25
             t == Truncated(x, 25)
  <2>1. ft \in Int /\ ft >= -1000
    BY <1>2, SMT DEF Altitude, Span
  <2>2. x \in Int /\ x >= 0 /\ ft = x - 1000
    BY <2>1, SMT
  <2>3. n = Clamp(t, 0, 4094)
    BY <1>2, SMT DEF encode_altitude
  <2> HIDE DEF x
  <2>4. t = q
    BY <2>2, SMT DEF Truncated
  <2>5. q \in Nat /\ x - 25 * q \in 0..24
    BY ONLY <2>2, SMT
  <2> HIDE DEF q, t
  <2>6. Clamp(t, 0, 4094) = IF t < 0 THEN 0 ELSE IF t > 4094 THEN 4094 ELSE t
    <3>1. t \in Int /\ 0 \in Int /\ 4094 \in Int /\ 0 <= 4094
      BY ONLY <2>4, <2>5, SMT
    <3> QED BY ONLY <3>1, ClampIs, SMT
  <2>7. n = IF q > 4094 THEN 4094 ELSE q
    BY ONLY <2>3, <2>4, <2>5, <2>6, SMT
  <2>8. n \in Nat /\ n <= 4094
    BY ONLY <2>5, <2>7, SMT
  <2>9. ft - (25 * n - 1000) \in 0..24 \/ (n = 4094 /\ ft - (25 * n - 1000) > 0)
    BY ONLY <2>2, <2>5, <2>7, SMT
  <2> QED BY ONLY <1>2, <2>8, <2>9, SMT DEF FeetTell
<1> QED BY ONLY <1>1, <1>2, SMT

LEMMA KnotsAreTold ==
  ASSUME NEW gs, gs \in Span(0, 3000) \cup {Unknown}, NEW n, n = Knots(gs)
  PROVE  n \in Nat /\ n <= 4095 /\ KnotsTell(n, gs)
<1>1. CASE gs = Unknown
  BY <1>1, SMT DEF Knots, KnotsTell
<1>2. CASE gs # Unknown
  <2> DEFINE x == gs * 194384
             q == Rounded(x, 100000)
             off == 100000 * n - 194384 * gs
  <2>1. gs \in Nat
    BY <1>2, SMT DEF Span
  <2>2. x \in Nat /\ x = 194384 * gs
    BY ONLY <2>1, SMT
  <2>3. n = Clamp(q, 0, 4094)
    BY <1>2, SMT DEF Knots
  <2> HIDE DEF x
  <2>4. q = (2 * x + 100000) \div 200000
    BY ONLY <2>2, SMT DEF Rounded
  <2> HIDE DEF q
  <2>5. q \in Nat /\ -50000 <= 100000 * q - x /\ 100000 * q - x <= 50000
    BY ONLY <2>2, <2>4, SMT
  <2>6. Clamp(q, 0, 4094) = IF q < 0 THEN 0 ELSE IF q > 4094 THEN 4094 ELSE q
    <3>1. q \in Int /\ 0 \in Int /\ 4094 \in Int /\ 0 <= 4094
      BY ONLY <2>5, SMT
    <3> QED BY ONLY <3>1, ClampIs, SMT
  <2>7. n = IF q > 4094 THEN 4094 ELSE q
    BY ONLY <2>3, <2>5, <2>6, SMT
  <2>8. n \in Nat /\ n <= 4094
    BY ONLY <2>5, <2>7, SMT
  <2>9. off = 100000 * n - x /\ off \in Int
    BY ONLY <2>2, <2>8, SMT
  <2> HIDE DEF off
  <2>10. (-50000 <= off /\ off <= 50000) \/ (n = 4094 /\ off < 0)
    BY ONLY <2>2, <2>5, <2>7, <2>9, SMT
  <2>11. off \in Span(-50000, 50000) \/ (n = 4094 /\ off < 0)
    BY ONLY <2>9, <2>10, SMT DEF Span
  <2> QED BY ONLY <1>2, <2>8, <2>11, SMT DEF KnotsTell, off
<1> QED BY ONLY <1>1, <1>2, SMT

LEMMA ClimbIsTold ==
  ASSUME NEW vr, vr \in Span(-32640, 32640) \cup {Unknown}, NEW n, n = Climb(vr)
  PROVE  n \in Nat /\ n <= 4095 /\ ClimbTells(Signed(n, 12), vr)
<1>0. Signed(n, 12) = IF n >= 2048 THEN n - 4096 ELSE n
  BY ONLY SignedIs, SMT
<1>1. CASE vr = Unknown
  <2>1. n = 2048
    BY <1>1, SMT DEF Climb
  <2>2. Signed(n, 12) = -2048
    BY ONLY <1>0, <2>1, SMT
  <2> QED BY ONLY <1>1, <2>1, <2>2, SMT DEF ClimbTells
<1>2. CASE vr # Unknown
  <2> DEFINE y == -2 * vr
             fpm == vr + Rounded(y, 1000000)
             t == Truncated(fpm, 64)
             told == Signed(n, 12)
             climb == vr - 64 * told
  <2>1. vr \in Int /\ -32640 <= vr /\ vr <= 32640
    BY <1>2, SMT DEF Span
  <2>2. n = Masked(Clamp(t, -510, 510))
    BY <1>2, SMT DEF Climb
  <2>3. y \in Int /\ -65280 <= y /\ y <= 65280
    BY ONLY <2>1, SMT
  <2> HIDE DEF y
  <2>4. Rounded(y, 1000000) = 0
    <3>1. CASE y >= 0
      <4>1. Rounded(y, 1000000) = (2 * y + 1000000) \div 2000000
        BY ONLY <2>3, <3>1, SMT DEF Rounded
      <4> QED BY ONLY <2>3, <3>1, <4>1, SMT
    <3>2. CASE y < 0
      <4>1. Rounded(y, 1000000) = - ((1000000 - 2 * y) \div 2000000)
        BY ONLY <2>3, <3>2, SMT DEF Rounded
      <4> QED BY ONLY <2>3, <3>2, <4>1, SMT
    <3> QED BY ONLY <2>3, <3>1, <3>2, SMT
  <2>5. fpm = vr
    BY ONLY <2>1, <2>4, SMT
  <2> HIDE DEF fpm
  <2>6. t = IF vr >= 0 THEN vr \div 64 ELSE - ((- vr) \div 64)
    BY ONLY <2>1, <2>5, SMT DEF Truncated
  <2> HIDE DEF t
  <2>7. /\ t \in Int /\ -510 <= t /\ t <= 510 /\ vr - 64 * t \in -63..63
        /\ t > 0 => vr - 64 * t >= 0
        /\ t < 0 => vr - 64 * t <= 0
    BY ONLY <2>1, <2>6, SMT
  <2>8. Clamp(t, -510, 510) = IF t < -510 THEN -510 ELSE IF t > 510 THEN 510 ELSE t
    <3>1. t \in Int /\ -510 \in Int /\ 510 \in Int /\ -510 <= 510
      BY ONLY <2>7, SMT
    <3> QED BY ONLY <3>1, ClampIs, SMT
  <2>9. n = t % 4096
    BY ONLY <2>2, <2>7, <2>8, SMT DEF Masked
  <2>10. n \in Nat /\ n <= 4095 /\ n = IF t >= 0 THEN t ELSE t + 4096
    BY ONLY <2>7, <2>9, SMT
  <2>11. told = t
    BY ONLY <1>0, <2>7, <2>10, SMT
  <2> HIDE DEF told
  <2>12. climb \in -63..63 /\ told # -2048 /\ told \in Int /\ climb \in Int
         /\ (told > 0 => climb >= 0) /\ (told < 0 => climb <= 0)
    BY ONLY <2>7, <2>11, <2>1, SMT
  <2> HIDE DEF climb
  <2>13. climb * told >= 0
    BY ONLY <2>12, SMT
  <2>14. ClimbTells(told, vr)
    BY ONLY <1>2, <2>12, <2>13, SMT DEF ClimbTells, climb
  <2> QED BY ONLY <2>10, <2>14, SMT DEF told
<1> QED BY ONLY <1>1, <1>2, SMT

LEMMA TurnIsTold ==
  ASSUME NEW t, t \in Bearing \cup {Unknown}, NEW c, c = Circle(t)
  PROVE  c \in Nat /\ c <= 255 /\ TurnTells(c, t)
<1>1. CASE t = Unknown
  BY <1>1, SMT DEF Circle, TurnTells
<1>2. CASE t # Unknown
  <2> DEFINE x == t * 256
             q == Rounded(x, 3600)
  <2>1. t \in Nat /\ t <= 3600
    BY <1>2, SMT DEF Bearing, Span
  <2>2. x \in Nat /\ x = 256 * t /\ x <= 921600
    BY ONLY <2>1, SMT
  <2>3. c = q % 256
    BY <1>2, SMT DEF Circle
  <2> HIDE DEF x
  <2>4. q = (2 * x + 3600) \div 7200
    BY ONLY <2>2, SMT DEF Rounded
  <2> HIDE DEF q
  <2>5. q \in Nat /\ q <= 256 /\ -1800 <= 3600 * q - x /\ 3600 * q - x <= 1800
    BY ONLY <2>2, <2>4, SMT
  <2>6. c \in Nat /\ c <= 255 /\ (c = q \/ (q = 256 /\ c = 0))
    BY ONLY <2>3, <2>5, SMT
  <2> DEFINE off == (3600 * c - x) % 921600
  <2>7. off <= 1800 \/ off >= 919800
    <3>1. CASE c = q
      BY ONLY <2>2, <2>5, <3>1, SMT
    <3>2. CASE q = 256 /\ c = 0
      BY ONLY <2>2, <2>5, <3>2, SMT
    <3> QED BY ONLY <2>6, <3>1, <3>2, SMT
  <2>8. (3600 * c - 256 * t) % (3600 * 256) = off
    BY ONLY <2>2, SMT
  <2> HIDE DEF off
  <2>9. TurnTells(c, t)
    BY ONLY <2>7, <2>8, SMT DEF TurnTells
  <2> QED BY ONLY <2>6, <2>9, SMT
<1> QED BY ONLY <1>1, <1>2, SMT

(* The bytes a twelve-bit number is in, and those it shares. *)
LEMMA TwelveBits ==
  ASSUME NEW n \in Nat, n <= 4095
  PROVE  /\ n \div 16 \in 0..255 /\ n % 16 \in 0..15 /\ 16 * (n \div 16) + (n % 16) = n
         /\ n \div 256 \in 0..15 /\ n % 256 \in 0..255 /\ 256 * (n \div 256) + (n % 256) = n
  BY SMT
LEMMA SharedByte ==
  ASSUME NEW high \in 0..15, NEW low \in 0..15, NEW b, b = 16 * high + low
  PROVE  b \in 0..255 /\ b \div 16 = high /\ b % 16 = low
  BY SMT

LEMMA PlainIs ==
  ASSUME NEW c
  PROVE  /\ Plain(c) \in 0..255
         /\ c \in Letters => Plain(c) = IF c \in 48..90 THEN c ELSE 32
<1>1. Plain(c) \in 0..255
  BY DEF Plain
<1>2. c \in Letters => Plain(c) = IF c \in 48..90 THEN c ELSE 32
  BY DEF Plain, Letters
<1> QED BY <1>1, <1>2

(* Sequences on end: t stands in s from byte n on. *)
Octets == Seq(0..255)
Holds(s, n, t) ==
  /\ s \in Octets /\ t \in Octets /\ n \in Nat /\ n + Len(t) <= Len(s)
  /\ \A i \in 1..Len(t) : s[n + i] = t[i]

LEMMA GrownHolds ==
  ASSUME NEW s \in Octets, NEW t \in Octets, NEW w, w = s \o t
  PROVE  /\ w \in Octets /\ Len(w) = Len(s) + Len(t) /\ Holds(w, Len(s), t)
         /\ \A n, u : Holds(s, n, u) => Holds(w, n, u)
<1> DEFINE B == 0..255
<1>1. s \in Seq(B) /\ t \in Seq(B) /\ Octets = Seq(B)
  BY DEF Octets
<1> HIDE DEF B
<1>2. /\ w \in Seq(B) /\ Len(w) = Len(s) + Len(t) /\ (\A i \in 1..Len(s) : w[i] = s[i])
      /\ (\A i \in 1..Len(t) : w[Len(s) + i] = t[i])
  BY ONLY <1>1, w = s \o t, ConcatIs
<1>3. Len(s) \in Nat /\ Len(t) \in Nat
  BY ONLY <1>1
<1>4. ASSUME NEW n, NEW u, Holds(s, n, u) PROVE Holds(w, n, u)
  <2>1. /\ u \in Seq(B) /\ n \in Nat /\ n + Len(u) <= Len(s) /\ \A i \in 1..Len(u) : s[n + i] = u[i]
    BY <1>1, <1>4 DEF Holds
  <2>2. Len(u) \in Nat
    BY ONLY <2>1
  <2>3. ASSUME NEW i \in 1..Len(u) PROVE w[n + i] = u[i]
    <3>1. n + i \in 1..Len(s)
      BY ONLY <1>3, <2>1, <2>2, i \in 1..Len(u)
    <3>2. w[n + i] = s[n + i] /\ s[n + i] = u[i]
      BY ONLY <1>2, <2>1, <3>1, i \in 1..Len(u)
    <3> QED BY ONLY <3>2
  <2>4. n + Len(u) <= Len(w)
    BY ONLY <1>2, <1>3, <2>1, <2>2
  <2> QED BY ONLY <1>1, <1>2, <2>1, <2>3, <2>4 DEF Holds
<1>5. Holds(w, Len(s), t)
  BY ONLY <1>1, <1>2, <1>3 DEF Holds
<1> QED BY ONLY <1>1, <1>2, <1>4, <1>5

(* The nine parts of a report. *)
Parts(h, a, u, v, x, y, z, c, e) == h \o a \o u \o v \o x \o y \o z \o c \o e

PartsAre(h, a, u, v, x, y, z, c, e) ==
  /\ h \in Octets /\ Len(h) = 2 /\ a \in Octets /\ Len(a) = 3
  /\ u \in Octets /\ Len(u) = 3 /\ v \in Octets /\ Len(v) = 3
  /\ x \in Octets /\ Len(x) = 3 /\ y \in Octets /\ Len(y) = 3
  /\ z \in Octets /\ Len(z) = 2 /\ c \in Octets /\ Len(c) = 8
  /\ e \in Octets /\ Len(e) = 1

Placed(s, h, a, u, v, x, y, z, c) ==
  /\ Holds(s, 0, h) /\ Holds(s, 2, a) /\ Holds(s, 5, u) /\ Holds(s, 8, v)
  /\ Holds(s, 11, x) /\ Holds(s, 14, y) /\ Holds(s, 17, z) /\ Holds(s, 19, c)

LEMMA PartsHeld ==
  ASSUME NEW h, NEW a, NEW u, NEW v, NEW x, NEW y, NEW z, NEW c, NEW e, PartsAre(h, a, u, v, x, y, z, c, e),
         NEW w, w = Parts(h, a, u, v, x, y, z, c, e)
  PROVE  w \in Octets /\ Len(w) = 28 /\ Placed(w, h, a, u, v, x, y, z, c)
<1> DEFINE w2 == h \o a
           w3 == w2 \o u
           w4 == w3 \o v
           w5 == w4 \o x
           w6 == w5 \o y
           w7 == w6 \o z
           w8 == w7 \o c
<1>0. w = w8 \o e
  BY DEF Parts
<1>1. /\ h \in Octets /\ Len(h) = 2 /\ a \in Octets /\ Len(a) = 3
      /\ u \in Octets /\ Len(u) = 3 /\ v \in Octets /\ Len(v) = 3
      /\ x \in Octets /\ Len(x) = 3 /\ y \in Octets /\ Len(y) = 3
      /\ z \in Octets /\ Len(z) = 2 /\ c \in Octets /\ Len(c) = 8
      /\ e \in Octets /\ Len(e) = 1
  BY DEF PartsAre
<1>2. Holds(h, 0, h)
  BY <1>1 DEF Holds, Octets
<1>3. w2 \in Octets /\ Len(w2) = 5
      /\ Holds(w2, 0, h) /\ Holds(w2, 2, a)
  <2>0. w2 = h \o a
    OBVIOUS
  <2> HIDE DEF w2
  <2>1. h \in Octets /\ a \in Octets /\ Len(h) = 2 /\ Len(a) = 3
    BY ONLY <1>1, <1>2
  <2>2. /\ w2 \in Octets /\ Len(w2) = Len(h) + Len(a) /\ Holds(w2, Len(h), a)
        /\ \A m, q : Holds(h, m, q) => Holds(w2, m, q)
    BY ONLY <2>0, <2>1, GrownHolds
  <2>3. Len(w2) = 5 /\ Holds(w2, 2, a)
    BY ONLY <2>1, <2>2
  <2> QED BY ONLY <1>2, <2>2, <2>3, Zenon
<1> HIDE DEF w2
<1>4. w3 \in Octets /\ Len(w3) = 8
      /\ Holds(w3, 0, h) /\ Holds(w3, 2, a) /\ Holds(w3, 5, u)
  <2>0. w3 = w2 \o u
    OBVIOUS
  <2> HIDE DEF w3
  <2>1. w2 \in Octets /\ u \in Octets /\ Len(w2) = 5 /\ Len(u) = 3
    BY ONLY <1>1, <1>3
  <2>2. /\ w3 \in Octets /\ Len(w3) = Len(w2) + Len(u) /\ Holds(w3, Len(w2), u)
        /\ \A m, q : Holds(w2, m, q) => Holds(w3, m, q)
    BY ONLY <2>0, <2>1, GrownHolds
  <2>3. Len(w3) = 8 /\ Holds(w3, 5, u)
    BY ONLY <2>1, <2>2
  <2> QED BY ONLY <1>3, <2>2, <2>3, Zenon
<1> HIDE DEF w3
<1>5. w4 \in Octets /\ Len(w4) = 11
      /\ Holds(w4, 0, h) /\ Holds(w4, 2, a) /\ Holds(w4, 5, u) /\ Holds(w4, 8, v)
  <2>0. w4 = w3 \o v
    OBVIOUS
  <2> HIDE DEF w4
  <2>1. w3 \in Octets /\ v \in Octets /\ Len(w3) = 8 /\ Len(v) = 3
    BY ONLY <1>1, <1>4
  <2>2. /\ w4 \in Octets /\ Len(w4) = Len(w3) + Len(v) /\ Holds(w4, Len(w3), v)
        /\ \A m, q : Holds(w3, m, q) => Holds(w4, m, q)
    BY ONLY <2>0, <2>1, GrownHolds
  <2>3. Len(w4) = 11 /\ Holds(w4, 8, v)
    BY ONLY <2>1, <2>2
  <2> QED BY ONLY <1>4, <2>2, <2>3, Zenon
<1> HIDE DEF w4
<1>6. w5 \in Octets /\ Len(w5) = 14
      /\ Holds(w5, 0, h) /\ Holds(w5, 2, a) /\ Holds(w5, 5, u) /\ Holds(w5, 8, v) /\ Holds(w5, 11, x)
  <2>0. w5 = w4 \o x
    OBVIOUS
  <2> HIDE DEF w5
  <2>1. w4 \in Octets /\ x \in Octets /\ Len(w4) = 11 /\ Len(x) = 3
    BY ONLY <1>1, <1>5
  <2>2. /\ w5 \in Octets /\ Len(w5) = Len(w4) + Len(x) /\ Holds(w5, Len(w4), x)
        /\ \A m, q : Holds(w4, m, q) => Holds(w5, m, q)
    BY ONLY <2>0, <2>1, GrownHolds
  <2>3. Len(w5) = 14 /\ Holds(w5, 11, x)
    BY ONLY <2>1, <2>2
  <2> QED BY ONLY <1>5, <2>2, <2>3, Zenon
<1> HIDE DEF w5
<1>7. w6 \in Octets /\ Len(w6) = 17
      /\ Holds(w6, 0, h) /\ Holds(w6, 2, a) /\ Holds(w6, 5, u) /\ Holds(w6, 8, v) /\ Holds(w6, 11, x) /\ Holds(w6, 14, y)
  <2>0. w6 = w5 \o y
    OBVIOUS
  <2> HIDE DEF w6
  <2>1. w5 \in Octets /\ y \in Octets /\ Len(w5) = 14 /\ Len(y) = 3
    BY ONLY <1>1, <1>6
  <2>2. /\ w6 \in Octets /\ Len(w6) = Len(w5) + Len(y) /\ Holds(w6, Len(w5), y)
        /\ \A m, q : Holds(w5, m, q) => Holds(w6, m, q)
    BY ONLY <2>0, <2>1, GrownHolds
  <2>3. Len(w6) = 17 /\ Holds(w6, 14, y)
    BY ONLY <2>1, <2>2
  <2> QED BY ONLY <1>6, <2>2, <2>3, Zenon
<1> HIDE DEF w6
<1>8. w7 \in Octets /\ Len(w7) = 19
      /\ Holds(w7, 0, h) /\ Holds(w7, 2, a) /\ Holds(w7, 5, u) /\ Holds(w7, 8, v) /\ Holds(w7, 11, x) /\ Holds(w7, 14, y) /\ Holds(w7, 17, z)
  <2>0. w7 = w6 \o z
    OBVIOUS
  <2> HIDE DEF w7
  <2>1. w6 \in Octets /\ z \in Octets /\ Len(w6) = 17 /\ Len(z) = 2
    BY ONLY <1>1, <1>7
  <2>2. /\ w7 \in Octets /\ Len(w7) = Len(w6) + Len(z) /\ Holds(w7, Len(w6), z)
        /\ \A m, q : Holds(w6, m, q) => Holds(w7, m, q)
    BY ONLY <2>0, <2>1, GrownHolds
  <2>3. Len(w7) = 19 /\ Holds(w7, 17, z)
    BY ONLY <2>1, <2>2
  <2> QED BY ONLY <1>7, <2>2, <2>3, Zenon
<1> HIDE DEF w7
<1>9. w8 \in Octets /\ Len(w8) = 27
      /\ Holds(w8, 0, h) /\ Holds(w8, 2, a) /\ Holds(w8, 5, u) /\ Holds(w8, 8, v) /\ Holds(w8, 11, x) /\ Holds(w8, 14, y) /\ Holds(w8, 17, z) /\ Holds(w8, 19, c)
  <2>0. w8 = w7 \o c
    OBVIOUS
  <2> HIDE DEF w8
  <2>1. w7 \in Octets /\ c \in Octets /\ Len(w7) = 19 /\ Len(c) = 8
    BY ONLY <1>1, <1>8
  <2>2. /\ w8 \in Octets /\ Len(w8) = Len(w7) + Len(c) /\ Holds(w8, Len(w7), c)
        /\ \A m, q : Holds(w7, m, q) => Holds(w8, m, q)
    BY ONLY <2>0, <2>1, GrownHolds
  <2>3. Len(w8) = 27 /\ Holds(w8, 19, c)
    BY ONLY <2>1, <2>2
  <2> QED BY ONLY <1>8, <2>2, <2>3, Zenon
<1> HIDE DEF w8
<1>10. w \in Octets /\ Len(w) = 28
      /\ Holds(w, 0, h) /\ Holds(w, 2, a) /\ Holds(w, 5, u) /\ Holds(w, 8, v) /\ Holds(w, 11, x) /\ Holds(w, 14, y) /\ Holds(w, 17, z) /\ Holds(w, 19, c)
  <2>0. w = w8 \o e
    BY <1>0
  <2>1. w8 \in Octets /\ e \in Octets /\ Len(w8) = 27 /\ Len(e) = 1
    BY ONLY <1>1, <1>9
  <2>2. /\ w \in Octets /\ Len(w) = Len(w8) + Len(e) /\ Holds(w, Len(w8), e)
        /\ \A m, q : Holds(w8, m, q) => Holds(w, m, q)
    BY ONLY <2>0, <2>1, GrownHolds
  <2>3. Len(w) = 28 /\ Holds(w, 27, e)
    BY ONLY <2>1, <2>2
  <2> QED BY ONLY <1>9, <2>2, <2>3, Zenon
<1> QED BY ONLY <1>10, Zenon DEF Placed

(* What a report may be made of. *)
LEMMA LookHas ==
  ASSUME NEW p \in Plane, NEW look \in Looks[p], look.position # Unknown
  PROVE  /\ look.position.lat \in Latitude /\ look.position.lon \in Longitude
         /\ look.position.alt \in Altitude \cup {Unknown}
         /\ Field(look, "gs") \in Span(0, 3000) \cup {Unknown}
         /\ Field(look, "vr") \in Span(-32640, 32640) \cup {Unknown}
         /\ Direction(look) \in Bearing \cup {Unknown}
         /\ look.callsign \in Seq(Letters) \cup {Unknown}
<1>1. look \in Look
  BY AirspaceAssumption, SMT
<1>2. look.position \in [lat : Latitude, lon : Longitude, alt : Altitude \cup {Unknown}]
  BY <1>1, SMT DEF Look
<1>3. look.position.lat \in Latitude /\ look.position.lon \in Longitude /\ look.position.alt \in Altitude \cup {Unknown}
  BY ONLY <1>2, SMT
<1>4. \/ look.velocity = Unknown
      \/ /\ look.velocity.gs \in Span(0, 3000) \cup {Unknown} /\ look.velocity.vr \in Span(-32640, 32640) \cup {Unknown}
         /\ look.velocity.track \in Bearing \cup {Unknown} /\ look.velocity.heading \in Bearing \cup {Unknown}
  BY <1>1, SMT DEF Look
<1>5. Field(look, "gs") \in Span(0, 3000) \cup {Unknown} /\ Field(look, "vr") \in Span(-32640, 32640) \cup {Unknown}
  BY ONLY <1>4, SMT DEF Field
<1>6. Direction(look) \in Bearing \cup {Unknown}
  BY ONLY <1>4, SMT DEF Direction, Either, Field
<1>7. look.callsign \in Seq(Letters) \cup {Unknown}
  BY <1>1, SMT DEF Look
<1> QED BY ONLY <1>3, <1>5, <1>6, <1>7

LEMMA TuplesAre ==
  ASSUME NEW B
  PROVE  /\ \A x \in B : <<x>> \in Seq(B) /\ Len(<<x>>) = 1
         /\ \A x, y \in B : <<x, y>> \in Seq(B) /\ Len(<<x, y>>) = 2
         /\ \A x, y, z \in B : <<x, y, z>> \in Seq(B) /\ Len(<<x, y, z>>) = 3
  BY SMTT(30)

LEMMA OctetsAre ==
  /\ \A x \in 0..255 : <<x>> \in Octets /\ Len(<<x>>) = 1
  /\ \A x, y \in 0..255 : <<x, y>> \in Octets /\ Len(<<x, y>>) = 2
  /\ \A x, y, z \in 0..255 : <<x, y, z>> \in Octets /\ Len(<<x, y, z>>) = 3
<1> SUFFICES ASSUME NEW B, B = 0..255
             PROVE  /\ \A x \in B : <<x>> \in Octets /\ Len(<<x>>) = 1
                    /\ \A x, y \in B : <<x, y>> \in Octets /\ Len(<<x, y>>) = 2
                    /\ \A x, y, z \in B : <<x, y, z>> \in Octets /\ Len(<<x, y, z>>) = 3
  BY Zenon
<1>1. Octets = Seq(B)
  BY ONLY B = 0..255, Zenon DEF Octets
<1> QED BY ONLY <1>1, TuplesAre, Zenon

Spelling(name) == [i \in 1..8 |-> IF i <= Len(name) THEN Plain(name[i]) ELSE 32]

LEMMA SpellingIs ==
  ASSUME NEW name
  PROVE  Spelling(name) \in Octets /\ Len(Spelling(name)) = 8
<1> DEFINE n == 8
           B == 0..255
           f == [i \in 1..n |-> IF i <= Len(name) THEN Plain(name[i]) ELSE 32]
<1>1. ASSUME NEW i \in 1..n PROVE (IF i <= Len(name) THEN Plain(name[i]) ELSE 32) \in B
  <2>1. Plain(name[i]) \in B /\ 32 \in B
    BY PlainIs
  <2> QED BY ONLY <2>1
<1> HIDE DEF B
<1>2. n \in Nat
  OBVIOUS
<1> HIDE DEF n
<1>3. f \in Seq(B) /\ Len(f) = n
  BY ONLY <1>1, <1>2
<1> QED BY ONLY <1>3 DEF f, n, B, Spelling, Octets

(* Letters and digits are told as they are, the rest as spaces. *)
LEMMA SpellingTells ==
  ASSUME NEW look, look.callsign \in Seq(Letters)
  PROVE  Spelling(look.callsign) = [i \in 1..8 |-> IF Letter(look, i) \in 48..90 THEN Letter(look, i) ELSE 32]
<1> DEFINE s == look.callsign
<1>1. s \in Seq(Letters) /\ Len(s) \in Nat /\ DOMAIN s = 1..Len(s) /\ \A i \in 1..Len(s) : s[i] \in Letters
  <2>1. s \in Seq(Letters)
    OBVIOUS
  <2> HIDE DEF s
  <2>2. \A i \in 1..Len(s) : s[i] \in Letters
    BY ONLY <2>1, ElementOfSeq
  <2> QED BY ONLY <2>1, <2>2
<1>2. ASSUME NEW i \in 1..8 PROVE Letter(look, i) = IF i \in DOMAIN s THEN s[i] ELSE 32
  BY DEF Letter
<1> HIDE DEF s
<1>3. ASSUME NEW i \in 1..8
      PROVE  (IF i <= Len(s) THEN Plain(s[i]) ELSE 32) = (IF Letter(look, i) \in 48..90 THEN Letter(look, i) ELSE 32)
  <2>1. CASE i <= Len(s)
    <3>1. i \in 1..Len(s)
      BY ONLY <1>1, <2>1, i \in 1..8
    <3>2. Letter(look, i) = s[i] /\ s[i] \in Letters
      BY ONLY <1>1, <1>2, <3>1, i \in 1..8
    <3>3. Plain(s[i]) = IF s[i] \in 48..90 THEN s[i] ELSE 32
      BY ONLY <3>2, PlainIs
    <3> QED BY ONLY <2>1, <3>2, <3>3
  <2>2. CASE ~ (i <= Len(s))
    <3>1. i \notin DOMAIN s
      BY ONLY <1>1, <2>2, i \in 1..8
    <3>2. Letter(look, i) = 32
      BY ONLY <1>2, <3>1, i \in 1..8
    <3> QED BY ONLY <2>2, <3>2
  <2> QED BY ONLY <2>1, <2>2
<1>4. Spelling(s) = [i \in 1..8 |-> IF Letter(look, i) \in 48..90 THEN Letter(look, i) ELSE 32]
  BY ONLY <1>3 DEF Spelling
<1> QED BY ONLY <1>4 DEF s

(* What was placed in the payload is found in the body. *)
Found(b, n, t) == \A i \in 1..Len(t) : b[n + i] = t[i]

LEMMA FoundAt ==
  ASSUME NEW d, NEW w, Framed(d, w), NEW n, NEW t, Holds(w, n, t)
  PROVE  Found(Body(d), n, t)
<1>1. /\ w \in Seq(0..255) /\ t \in Seq(0..255) /\ n \in Nat /\ n + Len(t) <= Len(w)
      /\ \A i \in 1..Len(t) : w[n + i] = t[i]
  BY DEF Holds, Octets
<1>2. Len(w) \in Nat /\ Len(t) \in Nat
  BY ONLY <1>1
<1>3. \A i \in 1..Len(w) : Body(d)[i] = w[i]
  BY DEF Framed
<1>4. ASSUME NEW i \in 1..Len(t) PROVE Body(d)[n + i] = t[i]
  <2>1. n + i \in 1..Len(w)
    BY ONLY <1>1, <1>2, i \in 1..Len(t)
  <2> QED BY ONLY <1>1, <1>3, <2>1, i \in 1..Len(t)
<1> QED BY <1>4 DEF Found

LEMMA AddressOctets == ASSUME NEW p \in Plane PROVE Address[p] \in Octets /\ Len(Address[p]) = 3
<1> DEFINE B == 0..255
           n == 3
           f == Address[p]
<1>1. f \in [1..3 -> B]
  BY AirspaceAssumption
<1> HIDE DEF B, f
<1>2. n \in Nat /\ f \in [1..n -> B] /\ n = 3
  BY ONLY <1>1
<1> HIDE DEF n
<1>3. f \in Seq(B) /\ Len(f) = n
  BY ONLY <1>2, ListIs
<1>4. f \in Octets
  BY ONLY <1>3, Zenon DEF Octets, B
<1>5. Len(f) = 3
  BY ONLY <1>2, <1>3, Zenon
<1> QED BY ONLY <1>4, <1>5, Zenon DEF f

(* The bytes of a report, and what each field counts. *)
Fields(b, a, u, v, alt, gs, vr, c) ==
  /\ b[1] = 20 /\ b[2] = 0 /\ b[3] = a[1] /\ b[4] = a[2] /\ b[5] = a[3]
  /\ Number(b, 6) = u /\ Number(b, 9) = v
  /\ 16 * b[12] + b[13] \div 16 = alt
  /\ 16 * b[15] + b[16] \div 16 = gs
  /\ 256 * (b[16] % 16) + b[17] = vr
  /\ b[18] = c

LEMMA FieldsAre ==
  ASSUME NEW b, NEW h, NEW a, NEW u, NEW v, NEW x, NEW y, NEW z,
         NEW alt \in Nat, alt <= 4095, NEW gs \in Nat, gs <= 4095, NEW vr \in Nat, vr <= 4095, NEW c,
         h = <<20, 0>>, Len(a) = 3, Len(u) = 3, Len(v) = 3,
         x = <<alt \div 16, 16 * (alt % 16) + 9, 136>>,
         y = <<gs \div 16, 16 * (gs % 16) + vr \div 256, vr % 256>>, z = <<c, 0>>,
         Found(b, 0, h),
         Found(b, 2, a),
         Found(b, 5, u),
         Found(b, 8, v),
         Found(b, 11, x),
         Found(b, 14, y),
         Found(b, 17, z)
  PROVE  Fields(b, a, Counts(u), Counts(v), alt, gs, vr, c)
<1>1. b[1] = 20 /\ b[2] = 0
  <2>1. 1 \in 1..Len(h) /\ 2 \in 1..Len(h) /\ h[1] = 20 /\ h[2] = 0 /\ 0 + 1 = 1 /\ 0 + 2 = 2
    BY ONLY h = <<20, 0>>
  <2> QED BY ONLY <2>1, Found(b, 0, h) DEF Found
<1>2. b[3] = a[1] /\ b[4] = a[2] /\ b[5] = a[3]
  BY ONLY Len(a) = 3, Found(b, 2, a) DEF Found
<1>3. b[6] = u[1] /\ b[7] = u[2] /\ b[8] = u[3]
  BY ONLY Len(u) = 3, Found(b, 5, u) DEF Found
<1>4. b[9] = v[1] /\ b[10] = v[2] /\ b[11] = v[3]
  BY ONLY Len(v) = 3, Found(b, 8, v) DEF Found
<1>5. b[12] = alt \div 16 /\ b[13] = 16 * (alt % 16) + 9
  <2>1. 1 \in 1..Len(x) /\ 2 \in 1..Len(x) /\ x[1] = alt \div 16 /\ x[2] = 16 * (alt % 16) + 9 /\ 11 + 1 = 12 /\ 11 + 2 = 13
    BY ONLY x = <<alt \div 16, 16 * (alt % 16) + 9, 136>>
  <2> QED BY ONLY <2>1, Found(b, 11, x) DEF Found
<1>6. b[15] = gs \div 16 /\ b[16] = 16 * (gs % 16) + vr \div 256 /\ b[17] = vr % 256
  <2>1. /\ 1 \in 1..Len(y) /\ 2 \in 1..Len(y) /\ 3 \in 1..Len(y) /\ 14 + 1 = 15 /\ 14 + 2 = 16 /\ 14 + 3 = 17
        /\ y[1] = gs \div 16 /\ y[2] = 16 * (gs % 16) + vr \div 256 /\ y[3] = vr % 256
    BY ONLY y = <<gs \div 16, 16 * (gs % 16) + vr \div 256, vr % 256>>
  <2> QED BY ONLY <2>1, Found(b, 14, y) DEF Found
<1>7. b[18] = c
  <2>1. 1 \in 1..Len(z) /\ z[1] = c /\ 17 + 1 = 18
    BY ONLY z = <<c, 0>>
  <2> QED BY ONLY <2>1, Found(b, 17, z) DEF Found
<1>8. Number(b, 6) = Counts(u)
  <2>1. 6 + 1 = 7 /\ 6 + 2 = 8
    OBVIOUS
  <2> QED BY ONLY <1>3, <2>1, SMT DEF Number, Counts
<1>9. Number(b, 9) = Counts(v)
  <2>1. 9 + 1 = 10 /\ 9 + 2 = 11
    OBVIOUS
  <2> QED BY ONLY <1>4, <2>1, SMT DEF Number, Counts
<1>10. alt % 16 \in 0..15 /\ gs % 16 \in 0..15 /\ vr \div 256 \in 0..15 /\ 16 * (alt \div 16) + (alt % 16) = alt
       /\ 16 * (gs \div 16) + (gs % 16) = gs /\ 256 * (vr \div 256) + (vr % 256) = vr
  BY ONLY TwelveBits, alt \in Nat, alt <= 4095, gs \in Nat, gs <= 4095, vr \in Nat, vr <= 4095, SMT
<1>11. 16 * b[12] + b[13] \div 16 = alt
  <2>1. b[13] \div 16 = alt % 16
    <3>1. 9 \in 0..15
      OBVIOUS
    <3> QED BY ONLY <1>5, <1>10, <3>1, SharedByte
  <2> QED BY ONLY <1>5, <1>10, <2>1, SMT
<1>12. 16 * b[15] + b[16] \div 16 = gs /\ b[16] % 16 = vr \div 256
  <2>1. b[16] \div 16 = gs % 16 /\ b[16] % 16 = vr \div 256
    BY ONLY <1>6, <1>10, SharedByte
  <2> QED BY ONLY <1>6, <1>10, <2>1, SMT
<1>13. 256 * (b[16] % 16) + b[17] = vr
  BY ONLY <1>6, <1>10, <1>12, SMT
<1> QED BY ONLY <1>1, <1>2, <1>7, <1>8, <1>9, <1>11, <1>12, <1>13, SMT DEF Fields

Enclosed(d, n) ==
  /\ d[1] = 126 /\ Latest(d) = 126
  /\ \A i \in DOMAIN Inside(d) : Inside(d)[i] # 126
  /\ Intact(Body(d)) /\ Len(Body(d)) = n

LEMMA FramedIs ==
  ASSUME NEW w \in Octets, NEW n, n = Len(w) + 2, NEW d, d = frame(w)
  PROVE  Enclosed(d, n) /\ Framed(d, w)
<1>1. Framed(d, w)
  BY FrameIs DEF Octets
<1> QED BY ONLY <1>1, n = Len(w) + 2, Zenon DEF Framed, Enclosed

(* What the fields count makes a report tell what was known. *)
LEMMA FieldsTell ==
  ASSUME NEW p \in Plane, NEW look, NEW b, NEW u, NEW v, NEW alt \in Nat, NEW gs \in Nat, NEW vr \in Nat, NEW c \in Nat,
         Fields(b, Address[p], u, v, alt, gs, vr, c), Len(b) = 30, b \in Seq(0..255),
         Near(u, look.position.lat), Near(v, look.position.lon),
         FeetTell(alt, look.position.alt), KnotsTell(gs, Field(look, "gs")),
         ClimbTells(Signed(vr, 12), Field(look, "vr")), TurnTells(c, Direction(look)),
         look.callsign # Unknown =>
           SubSeq(b, 20, 27) = [i \in 1..8 |-> IF Letter(look, i) \in 48..90 THEN Letter(look, i) ELSE 32]
  PROVE  ReportTells(p, look, b)
<1>1. SubSeq(b, 1, 5) = <<20, 0>> \o Address[p]
  <2> DEFINE a == Address[p]
             s == SubSeq(b, 1, 5)
             h == <<20, 0>>
             t == h \o a
  <2>1. Three(a)
    BY AddressIs, Zenon
  <2> HIDE DEF a
  <2>2. a \in Seq(Int) /\ Len(a) = 3
    BY ONLY <2>1 DEF Three
  <2>3. b[1] = 20 /\ b[2] = 0 /\ b[3] = a[1] /\ b[4] = a[2] /\ b[5] = a[3]
    BY SMT DEF Fields, a
  <2>4. s = [i \in 1..5 |-> b[i]]
    BY ONLY Len(b) = 30, b \in Seq(0..255)
  <2>5. h \in Seq(Int) /\ Len(h) = 2 /\ h[1] = 20 /\ h[2] = 0
    OBVIOUS
  <2> HIDE DEF h
  <2>6. t \in Seq(Int) /\ Len(t) = 5 /\ t[1] = 20 /\ t[2] = 0 /\ t[3] = a[1] /\ t[4] = a[2] /\ t[5] = a[3]
    <3>1. t \in Seq(Int) /\ Len(t) = Len(h) + Len(a) /\ (\A i \in 1..Len(h) : t[i] = h[i])
          /\ (\A i \in 1..Len(a) : t[Len(h) + i] = a[i])
      <4>1. a \in Seq(Int) /\ h \in Seq(Int)
        BY ONLY <2>2, <2>5
      <4> QED BY ONLY <4>1, ConcatIs
    <3> HIDE DEF t
    <3>2. t[1] = 20 /\ t[2] = 0
      BY ONLY <2>5, <3>1
    <3>3. \A i \in 1..3 : t[2 + i] = a[i]
      BY ONLY <2>2, <2>5, <3>1
    <3>4. t[3] = a[1] /\ t[4] = a[2] /\ t[5] = a[3]
      BY ONLY <3>3
    <3> QED BY ONLY <2>2, <2>5, <3>1, <3>2, <3>4
  <2> HIDE DEF t
  <2>7. t = [i \in 1..5 |-> t[i]] /\ \A i \in 1..5 : t[i] = b[i]
    <3>1. \A i \in 1..5 : i = 1 \/ i = 2 \/ i = 3 \/ i = 4 \/ i = 5
      OBVIOUS
    <3>2. t = [i \in 1..5 |-> t[i]]
      BY ONLY <2>6
    <3> QED BY ONLY <2>3, <2>6, <3>1, <3>2
  <2>8. s = t
    BY ONLY <2>4, <2>7
  <2> QED BY ONLY <2>8 DEF a, h, t
<1>2. Near(Number(b, 6), look.position.lat) /\ Near(Number(b, 9), look.position.lon)
  <2>1. Number(b, 6) = u /\ Number(b, 9) = v
    BY SMT DEF Fields
  <2> QED BY ONLY <2>1, Near(u, look.position.lat), Near(v, look.position.lon), Zenon
<1>3. 16 * b[12] + b[13] \div 16 = alt /\ 16 * b[15] + b[16] \div 16 = gs /\ 256 * (b[16] % 16) + b[17] = vr /\ b[18] = c
  BY SMT DEF Fields
<1>4. FeetTell(16 * b[12] + b[13] \div 16, look.position.alt)
  BY ONLY <1>3, FeetTell(alt, look.position.alt), Zenon
<1>5. KnotsTell(16 * b[15] + b[16] \div 16, Field(look, "gs"))
  BY ONLY <1>3, KnotsTell(gs, Field(look, "gs")), Zenon
<1>6. ClimbTells(Signed(256 * (b[16] % 16) + b[17], 12), Field(look, "vr"))
  BY ONLY <1>3, ClimbTells(Signed(vr, 12), Field(look, "vr")), Zenon
<1>7. TurnTells(b[18], Direction(look))
  BY ONLY <1>3, TurnTells(c, Direction(look)), Zenon
<1> QED BY ONLY <1>1, <1>2, <1>4, <1>5, <1>6, <1>7,
         look.callsign # Unknown =>
           SubSeq(b, 20, 27) = [i \in 1..8 |-> IF Letter(look, i) \in 48..90 THEN Letter(look, i) ELSE 32], Zenon
         DEF ReportTells

(* A report tells of its aircraft. *)
LEMMA ReportIs ==
  ASSUME NEW p \in Plane, NEW look \in Looks[p], look.position # Unknown, NEW d, d = encode_traffic(p, look)
  PROVE  Enclosed(d, 30) /\ ReportTells(p, look, Body(d))
<1> DEFINE lat == encode_semicircle(look.position.lat)
           lon == encode_semicircle(look.position.lon)
           alt == encode_altitude(look.position.alt)
           gs == Knots(Field(look, "gs"))
           vr == Climb(Field(look, "vr"))
           turn == Circle(Direction(look))
           h == <<20, 0>>
           a == Address[p]
           u == BigEndian(lat, 3)
           v == BigEndian(lon, 3)
           x == <<alt \div 16, 16 * (alt % 16) + 9, 136>>
           y == <<gs \div 16, 16 * (gs % 16) + vr \div 256, vr % 256>>
           z == <<turn, 0>>
           c == Spelling(Name(p, look))
           e == <<0>>
           w == Parts(h, a, u, v, x, y, z, c, e)
           b == Body(d)
<1>1. d = frame(w)
  BY ONLY d = encode_traffic(p, look), Zenon DEF encode_traffic, Parts, Spelling
<1>2. lat \in Nat /\ lat < 16777216 /\ Near(lat, look.position.lat)
  <2>1. look.position.lat \in Latitude
    BY LookHas
  <2> QED BY ONLY <2>1, LatitudeIs, SemicircleIs, SMT
<1>3. lon \in Nat /\ lon < 16777216 /\ Near(lon, look.position.lon)
  <2>1. look.position.lon \in Longitude
    BY LookHas
  <2> QED BY ONLY <2>1, LongitudeIs, SemicircleIs, SMT
<1>4. alt \in Nat /\ alt <= 4095 /\ FeetTell(alt, look.position.alt)
  BY LookHas, FeetAreTold, SMT
<1>5. gs \in Nat /\ gs <= 4095 /\ KnotsTell(gs, Field(look, "gs"))
  BY LookHas, KnotsAreTold, SMT
<1>6. vr \in Nat /\ vr <= 4095 /\ ClimbTells(Signed(vr, 12), Field(look, "vr"))
  BY LookHas, ClimbIsTold, SMT
<1>7. turn \in Nat /\ turn <= 255 /\ TurnTells(turn, Direction(look))
  BY LookHas, TurnIsTold, SMT
<1> HIDE DEF lat, lon, alt, gs, vr, turn
<1>8. u \in Octets /\ Len(u) = 3 /\ Counts(u) = lat
  BY ONLY <1>2, BigThree, SMT DEF Octets
<1>9. v \in Octets /\ Len(v) = 3 /\ Counts(v) = lon
  BY ONLY <1>3, BigThree, SMT DEF Octets
<1>10. a \in Octets /\ Len(a) = 3
  BY AddressOctets
<1>11. c \in Octets /\ Len(c) = 8
  BY SpellingIs
<1>12. x \in Octets /\ Len(x) = 3
  <2>1. alt \div 16 \in 0..255 /\ 16 * (alt % 16) + 9 \in 0..255 /\ 136 \in 0..255
    <3>1. alt \div 16 \in 0..255 /\ alt % 16 \in 0..15
      BY ONLY <1>4, TwelveBits, SMT
    <3> QED BY ONLY <3>1, SMT
  <2> QED BY ONLY <2>1, OctetsAre
<1>13. y \in Octets /\ Len(y) = 3
  <2>1. gs \div 16 \in 0..255 /\ 16 * (gs % 16) + vr \div 256 \in 0..255 /\ vr % 256 \in 0..255
    <3>1. gs \div 16 \in 0..255 /\ gs % 16 \in 0..15 /\ vr \div 256 \in 0..15 /\ vr % 256 \in 0..255
      BY ONLY <1>5, <1>6, TwelveBits, SMT
    <3> QED BY ONLY <3>1, SMT
  <2> QED BY ONLY <2>1, OctetsAre
<1>14. z \in Octets /\ Len(z) = 2
  <2>1. turn \in 0..255 /\ 0 \in 0..255
    BY ONLY <1>7
  <2> QED BY ONLY <2>1, OctetsAre
<1>15. h \in Octets /\ Len(h) = 2 /\ e \in Octets /\ Len(e) = 1
  <2>1. 20 \in 0..255 /\ 0 \in 0..255
    OBVIOUS
  <2> QED BY ONLY <2>1, OctetsAre
<1> HIDE DEF h, a, u, v, x, y, z, c, e
<1>16. PartsAre(h, a, u, v, x, y, z, c, e)
  BY ONLY <1>8, <1>9, <1>10, <1>11, <1>12, <1>13, <1>14, <1>15, Zenon DEF PartsAre
<1>17. w \in Octets /\ Len(w) = 28 /\ Placed(w, h, a, u, v, x, y, z, c)
  BY ONLY <1>16, PartsHeld
<1> HIDE DEF w
<1>18. Enclosed(d, 30) /\ Framed(d, w)
  <2>1. 30 = Len(w) + 2 /\ w \in Octets
    BY ONLY <1>17
  <2> QED BY ONLY <1>1, <2>1, FramedIs, Zenon
<1>19. /\ Holds(w, 0, h) /\ Holds(w, 2, a) /\ Holds(w, 5, u) /\ Holds(w, 8, v)
       /\ Holds(w, 11, x) /\ Holds(w, 14, y) /\ Holds(w, 17, z) /\ Holds(w, 19, c)
  BY ONLY <1>17, Zenon DEF Placed
<1>20. /\ Found(b, 0, h)
       /\ Found(b, 2, a)
       /\ Found(b, 5, u)
       /\ Found(b, 8, v)
  BY ONLY <1>18, <1>19, FoundAt, Zenon
<1>21. /\ Found(b, 11, x)
       /\ Found(b, 14, y)
       /\ Found(b, 17, z)
       /\ Found(b, 19, c)
  BY ONLY <1>18, <1>19, FoundAt, Zenon
<1>22. b \in Seq(0..255) /\ Len(b) = 30
  <2>1. b \in Seq(0..255)
    BY ONLY <1>18, Zenon DEF Framed
  <2>2. Len(b) = 30
    BY ONLY <1>18, Zenon DEF Enclosed
  <2> QED BY ONLY <2>1, <2>2, Zenon
<1> HIDE DEF b
<1>23. Fields(b, a, lat, lon, alt, gs, vr, turn)
  <2>1. h = <<20, 0>> /\ z = <<turn, 0>>
    BY ONLY Zenon DEF h, z
  <2>2. x = <<alt \div 16, 16 * (alt % 16) + 9, 136>>
    BY ONLY Zenon DEF x
  <2>3. y = <<gs \div 16, 16 * (gs % 16) + vr \div 256, vr % 256>>
    BY ONLY Zenon DEF y
  <2>4. Fields(b, a, Counts(u), Counts(v), alt, gs, vr, turn)
    <3>1. alt \in Nat /\ alt <= 4095 /\ gs \in Nat /\ gs <= 4095 /\ vr \in Nat /\ vr <= 4095
      BY ONLY <1>4, <1>5, <1>6
    <3>2. Len(a) = 3 /\ Len(u) = 3 /\ Len(v) = 3
      BY ONLY <1>8, <1>9, <1>10, Zenon
    <3> QED BY ONLY <1>20, <1>21, <2>1, <2>2, <2>3, <3>1, <3>2, FieldsAre
  <2>5. Counts(u) = lat /\ Counts(v) = lon
    BY ONLY <1>8, <1>9, Zenon
  <2> QED BY ONLY <2>4, <2>5, Zenon
<1>24. SubSeq(b, 20, 27) = c
  <2>1. SubSeq(b, 20, 27) = [i \in 1..8 |-> b[19 + i]]
    BY ONLY <1>22
  <2>2. c \in Seq(0..255) /\ Len(c) = 8
    BY ONLY <1>11 DEF Octets
  <2>3. c = [i \in 1..8 |-> c[i]]
    BY ONLY <2>2
  <2>4. \A i \in 1..8 : b[19 + i] = c[i]
    BY ONLY <1>21, <2>2 DEF Found
  <2> QED BY ONLY <2>1, <2>3, <2>4
<1>25. look.callsign # Unknown =>
         SubSeq(b, 20, 27) = [i \in 1..8 |-> IF Letter(look, i) \in 48..90 THEN Letter(look, i) ELSE 32]
  <2> SUFFICES ASSUME look.callsign # Unknown
               PROVE  SubSeq(b, 20, 27) = [i \in 1..8 |-> IF Letter(look, i) \in 48..90 THEN Letter(look, i) ELSE 32]
    OBVIOUS
  <2>1. look.callsign \in Seq(Letters)
    BY LookHas
  <2>2. c = Spelling(look.callsign)
    BY ONLY look.callsign # Unknown, Zenon DEF c, Name, Either
  <2>3. Spelling(look.callsign) = [i \in 1..8 |-> IF Letter(look, i) \in 48..90 THEN Letter(look, i) ELSE 32]
    BY ONLY <2>1, SpellingTells
  <2> QED BY ONLY <1>24, <2>2, <2>3
<1>26. ReportTells(p, look, b)
  <2>1. alt \in Nat /\ gs \in Nat /\ vr \in Nat /\ turn \in Nat
    BY ONLY <1>4, <1>5, <1>6, <1>7
  <2>2. Near(lat, look.position.lat) /\ Near(lon, look.position.lon)
    BY ONLY <1>2, <1>3
  <2>3. FeetTell(alt, look.position.alt) /\ KnotsTell(gs, Field(look, "gs"))
        /\ ClimbTells(Signed(vr, 12), Field(look, "vr")) /\ TurnTells(turn, Direction(look))
    BY ONLY <1>4, <1>5, <1>6, <1>7
  <2>4. Fields(b, Address[p], lat, lon, alt, gs, vr, turn)
    BY ONLY <1>23, Zenon DEF a
  <2> QED BY ONLY <1>22, <1>25, <2>1, <2>2, <2>3, <2>4, p \in Plane, FieldsTell
<1> QED BY ONLY <1>18, <1>26, Zenon DEF b

LEMMA HeartbeatIs ==
  ASSUME NEW s \in Nat, NEW d, d = encode_heartbeat(s)
  PROVE  Enclosed(d, 9) /\ SecondTells(s, Body(d))
<1> DEFINE x == s % 256
           y == (s \div 256) % 256
           w == <<0, 129, 1, x, y, 0, 0>>
<1>1. d = frame(w)
  BY ONLY d = encode_heartbeat(s), Zenon DEF encode_heartbeat
<1>2. x \in 0..255 /\ y \in 0..255 /\ 256 * y + x = s % 65536
  BY ONLY s \in Nat, SMT
<1> HIDE DEF x, y
<1>3. w \in Octets /\ Len(w) = 7 /\ w[4] = x /\ w[5] = y
  <2> DEFINE B == 0..255
  <2>1. 0 \in B /\ 129 \in B /\ 1 \in B /\ x \in B /\ y \in B /\ Octets = Seq(B)
    BY <1>2 DEF Octets
  <2> HIDE DEF B
  <2> QED BY ONLY <2>1
<1> HIDE DEF w
<1>4. Enclosed(d, 9) /\ Framed(d, w)
  <2>1. 9 = Len(w) + 2 /\ w \in Octets
    BY ONLY <1>3
  <2> QED BY ONLY <1>1, <2>1, FramedIs, Zenon
<1>5. Body(d)[4] = x /\ Body(d)[5] = y
  <2>1. \A i \in 1..Len(w) : Body(d)[i] = w[i]
    BY ONLY <1>4, Zenon DEF Framed
  <2> QED BY ONLY <1>3, <2>1
<1> QED BY ONLY <1>2, <1>4, <1>5, SMT DEF SecondTells

LEMMA IdentificationIs == Enclosed(encode_foreflight_id, 41)
<1>1. ForeFlight \in Octets /\ Len(ForeFlight) = 39
  BY DEF ForeFlight, Octets
<1>2. 41 = Len(ForeFlight) + 2
  BY <1>1
<1>3. encode_foreflight_id = frame(ForeFlight)
  BY DEF encode_foreflight_id
<1> QED BY ONLY <1>1, <1>2, <1>3, FramedIs, Zenon

(* What the body of a datagram of each kind says, and what a receiver makes of *)
(* the datagram around it.                                                     *)
Says(of, at, look, body) ==
  CASE of = "heartbeat" -> Len(body) = 9 /\ SecondTells(at, body)
    [] of = "identification" -> Len(body) = 41
    [] OTHER -> Len(body) = 30 /\ ReportTells(of, look, body)

Heard(of, at, look, d) ==
  /\ d[1] = 126 /\ Latest(d) = 126
  /\ \A i \in DOMAIN Inside(d) : Inside(d)[i] # 126
  /\ Intact(Body(d))
  /\ Says(of, at, look, Body(d))

LEMMA EnclosedIsHeard ==
  ASSUME NEW d, NEW n, Enclosed(d, n), NEW of, NEW at, NEW look, Says(of, at, look, Body(d))
  PROVE  Heard(of, at, look, d)
  BY Zenon DEF Enclosed, Heard

LEMMA HeartbeatIsHeard ==
  ASSUME NEW of, of = "heartbeat", NEW at \in Nat, NEW look, NEW d, d = encode_heartbeat(at)
  PROVE  Heard(of, at, look, d)
<1>1. Enclosed(d, 9) /\ SecondTells(at, Body(d))
  BY HeartbeatIs, Zenon
<1>2. Len(Body(d)) = 9
  BY ONLY <1>1, Zenon DEF Enclosed
<1>3. Says(of, at, look, Body(d))
  BY ONLY of = "heartbeat", <1>1, <1>2, Zenon DEF Says
<1> QED BY ONLY <1>1, <1>3, EnclosedIsHeard, Zenon

LEMMA IdentificationIsHeard ==
  ASSUME NEW of, of = "identification", NEW at, NEW look, NEW d, d = encode_foreflight_id
  PROVE  Heard(of, at, look, d)
<1>1. Enclosed(d, 41)
  BY IdentificationIs, Zenon
<1>2. Len(Body(d)) = 41
  BY ONLY <1>1, Zenon DEF Enclosed
<1>3. of # "heartbeat"
  BY ONLY of = "identification"
<1>4. Says(of, at, look, Body(d))
  BY ONLY of = "identification", <1>2, <1>3, Zenon DEF Says
<1> QED BY ONLY <1>1, <1>4, EnclosedIsHeard, Zenon

LEMMA ReportIsHeard ==
  ASSUME NEW p \in Plane, NEW at, NEW look \in Looks[p], look.position # Unknown,
         NEW d, d = encode_traffic(p, look)
  PROVE  Heard(p, at, look, d)
<1>1. Enclosed(d, 30) /\ ReportTells(p, look, Body(d))
  BY ReportIs, Zenon
<1>2. Len(Body(d)) = 30
  BY ONLY <1>1, Zenon DEF Enclosed
<1>3. p # "heartbeat" /\ p # "identification"
  BY PlaneNames
<1>4. Says(p, at, look, Body(d))
  BY ONLY <1>1, <1>2, <1>3, Zenon DEF Says
<1> QED BY ONLY <1>1, <1>4, EnclosedIsHeard, Zenon

(* The invariant is what a receiver makes of the latest message of the tick. *)
LEMMA TellsIfHeard ==
  aired # <<>> /\ Heard(Latest(aired).of, Latest(aired).at, copy[Latest(aired).of], Datagram(Latest(aired)))
    => DatagramsTell
  BY Zenon DEF DatagramsTell, Heard, Says

LEMMA LatestIsOne ==
  ASSUME GdlInv, aired # <<>>
  PROVE  Latest(aired).of \in Kinds /\ Latest(aired).at \in Nat /\ Latest(aired).of \in OfAll(aired)
<1> DEFINE M == [of : Kinds, at : Seconds \cup {0}]
           L == Len(aired)
<1>1. aired \in Seq(M)
  BY Zenon DEF GdlInv, AiredIs
<1> HIDE DEF M
<1>2. L \in 1..L /\ aired[L] \in M
  <2>1. L \in Nat /\ L # 0
    BY <1>1, EmptySeq
  <2>2. L \in 1..L
    BY ONLY <2>1
  <2> QED BY ONLY <1>1, <2>2, ElementOfSeq
<1>3. Latest(aired) = aired[L]
  BY DEF Latest
<1>4. aired[L].of \in OfAll(aired)
  BY ONLY <1>2, Zenon DEF OfAll
<1>5. aired[L].of \in Kinds /\ aired[L].at \in Seconds \cup {0}
  BY ONLY <1>2 DEF M
<1> HIDE DEF L
<1>6. Seconds \subseteq Nat
  BY GdlAssumption
<1>7. aired[L].at \in Nat
  <2>1. \A n \in Seconds \cup {0} : n \in Nat
    BY ONLY <1>6
  <2> QED BY ONLY <1>5, <2>1, Zenon
<1> QED BY ONLY <1>3, <1>4, <1>5, <1>7, Zenon

(* The latest message of a tick is of a kind whose datagram tells what it should. *)
LEMMA GdlTells == GdlInv => DatagramsTell
<1> SUFFICES ASSUME GdlInv, aired # <<>> PROVE DatagramsTell
  BY Zenon DEF DatagramsTell
<1> SUFFICES ASSUME NEW m, m = Latest(aired), NEW d, d = Datagram(m), NEW look, look = copy[m.of]
             PROVE  Heard(m.of, m.at, look, d)
  BY TellsIfHeard, Zenon
<1>1. m.of \in Kinds /\ m.at \in Nat /\ m.of \in OfAll(aired)
  BY LatestIsOne, Zenon
<1>2. CASE m.of = "heartbeat"
  <2>1. d = encode_heartbeat(m.at)
    BY ONLY <1>2, d = Datagram(m), Zenon DEF Datagram
  <2> QED BY ONLY <1>1, <1>2, <2>1, HeartbeatIsHeard, Zenon
<1>3. CASE m.of = "identification"
  <2>1. m.of # "heartbeat"
    BY ONLY <1>3
  <2>2. d = encode_foreflight_id
    BY ONLY <1>3, <2>1, d = Datagram(m), Zenon DEF Datagram
  <2> QED BY ONLY <1>3, <2>2, IdentificationIsHeard, Zenon
<1>4. CASE m.of \in Plane
  <2>1. m.of # "heartbeat" /\ m.of # "identification"
    BY ONLY <1>4, PlaneNames
  <2>2. d = encode_traffic(m.of, look)
    BY ONLY <2>1, d = Datagram(m), look = copy[m.of], Zenon DEF Datagram
  <2>3. look \in Looks[m.of] /\ look.position # Unknown
    <3>1. m.of \in Fixed(copy)
      BY <1>1, <1>4 DEF GdlInv
    <3>2. copy[m.of].position # Unknown
      BY ONLY <3>1 DEF Fixed
    <3>3. copy[m.of] \in Looks[m.of]
      BY <1>4, <3>1 DEF GdlInv, Fixed
    <3> QED BY ONLY <3>2, <3>3, look = copy[m.of], Zenon
  <2> QED BY ONLY <1>4, <2>2, <2>3, ReportIsHeard, Zenon
<1> QED BY ONLY <1>1, <1>2, <1>3, <1>4 DEF Kinds

(* Whatever a message of the GDL90 feed holds, escape bytes and flags in any  *)
(* field or in the checksum, a receiver finds it whole between two flags,     *)
(* undoes the stuffing, finds its checksum right and reads what the snapshot  *)
(* knew when it was copied (frame, crc16_ccitt and the encode functions of    *)
(* gdl90.rs).                                                                 *)
THEOREM DatagramsTellHolds == OutSpec => []DatagramsTell
<1>1. OutInit => AirInv /\ GdlInv
  BY AirInvInit, GdlInvInit DEF OutInit
<1>2. AirInv /\ GdlInv /\ [OutNext]_outVars => AirInv' /\ GdlInv'
  BY AirInvNext, GdlInvNext
<1>3. GdlInv => DatagramsTell
  BY GdlTells
<1> QED BY <1>1, <1>2, <1>3, PTL DEF OutSpec

=============================================================================
