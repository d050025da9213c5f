------------------------------- MODULE Tracker -------------------------------
(***************************************************************************)
(* The aircraft table of crates/rs1090/src/state.rs (StateTracker).        *)
(*                                                                         *)
(* The code keeps a LinkedHashMap: a map from addresses to aircraft that   *)
(* also remembers an order, least recently seen first.  Here the map is    *)
(* the function byIcao and the order is the sequence order.  One call of   *)
(* ingest is one step; out holds the events that call pushed.              *)
(*                                                                         *)
(* Abstractions.                                                           *)
(*  - A frame is what ingest tells apart: its CRC outcome, the address it  *)
(*    resolves to and its decoded payload.  For a frame whose CRC failed   *)
(*    the code looks for an address with crc24(address) = syndrome; crc24  *)
(*    of three bytes is a bijection, so such a frame carries the single    *)
(*    address that its syndrome stands for.                                *)
(*  - Time is counted in units; the windows are constants in those units.  *)
(*  - A latitude/longitude is the CPR halves it was computed from, and     *)
(*    whether a pair of halves decodes is the constant GlobalDecode.       *)
(*  - Altitudes are left out: ingest only copies them.                     *)
(***************************************************************************)
EXTENDS Integers, Sequences, FiniteSets

CONSTANTS
  Icao,              \* the addresses in use
  Callsign,          \* callsigns an aircraft may send
  Category,          \* emitter categories
  Velocity,          \* velocity vectors
  Cpr,               \* encoded CPR halves, up to what GlobalDecode tells apart
  GlobalDecode,      \* outcome of cpr::global_decode on <<even, odd>>
  Capacity,          \* the table's capacity
  CprPairWindow,     \* longest gap between two halves that may be paired
  ActiveIcaoWindow,  \* age from which an aircraft is not an address candidate
  StaleAfter,        \* age above which an eviction pass drops an aircraft
  HasReference,      \* whether a receiver location is configured
  Frames,            \* the frames the detector may hand over
  None,              \* stands for Rust's None
  MaxTime,           \* bound on the clock
  MaxFrames          \* bound on the number of frames

(* What ingest distinguishes in a decoded message. *)
Payload ==
       [kind : {"allcall", "raw"}]
  \cup [kind : {"ident"}, callsign : Callsign, category : Category]
  \cup [kind : {"airborne"}, odd : BOOLEAN, cpr : Cpr]
  \cup [kind : {"surface"}, velocity : Velocity \cup {None}]
  \cup [kind : {"velocity"}, velocity : Velocity]

(* Decodable frames, frames without an address (surveillance replies with a *)
(* zero syndrome, undecodable messages), and frames whose CRC failed.       *)
FrameType ==
       [crc : {"clean", "corrected"}, icao : Icao, payload : Payload]
  \cup [crc : {"clean", "corrected"}, icao : {None}, payload : [kind : {"raw"}]]
  \cup [crc : {"failed"}, icao : Icao \cup {None}, payload : {None}]

Time == 0 .. MaxTime

Half == [at : Time, cpr : Cpr]

ASSUME TrackerAssumption ==
  /\ Capacity \in Nat \ {0}
  /\ CprPairWindow \in Nat
  /\ ActiveIcaoWindow \in Nat
  /\ StaleAfter \in Nat
  /\ HasReference \in BOOLEAN
  /\ GlobalDecode \in [Cpr \X Cpr -> {"ok", "zone", "range"}]
  /\ Frames \subseteq FrameType
  /\ None \notin Icao \cup Callsign \cup Category \cup Velocity \cup Half
  /\ MaxTime \in Nat
  /\ MaxFrames \in Nat

VARIABLES
  order,   \* addresses, least recently seen first
  byIcao,  \* the aircraft, by address
  now,     \* the instant passed to ingest
  out,     \* events pushed by the last call
  frames   \* frames ingested so far (bound only)

vars == <<order, byIcao, now, out, frames>>

-----------------------------------------------------------------------------
(* Records *)

Halves == Half \cup {None}

Position ==
  [at : Time, source : {"global", "local", "surface"}, even : Halves, odd : Halves]

Counters ==
  [total : Nat, clean : Nat, corrected : Nat, recovered : Nat]

Aircraft ==
  [callsign : Callsign \cup {None}, category : Category \cup {None},
   position : Position \cup {None}, velocity : Velocity \cup {None},
   counters : Counters, lastSeen : Time, even : Halves, odd : Halves]

StateEvent ==
       [kind : {"acquired", "identification", "position", "velocity", "lost",
                "address_recovered"}, icao : Icao]
  \cup [kind : {"orphan"}, icao : {None}]

Event(k, a) == [kind |-> k, icao |-> a]

NewAircraft(at) ==
  [callsign |-> None, category |-> None, position |-> None, velocity |-> None,
   counters |-> [total |-> 0, clean |-> 0, corrected |-> 0, recovered |-> 0],
   lastSeen |-> at, even |-> None, odd |-> None]

(* Instant::saturating_duration_since *)
Age(at, t) == IF at >= t THEN at - t ELSE 0

Tracked == DOMAIN byIcao

-----------------------------------------------------------------------------
(* resolve_icao *)

Active(a, at) == Age(at, byIcao[a].lastSeen) < ActiveIcaoWindow

(* Mutant: the table is scanned from its front. *)
ScanFromFront(a, at) ==
  \E i \in 1 .. Len(order) :
     /\ order[i] = a
     /\ \A j \in 1 .. i : Active(order[j], at)

(* The scan goes from the most recently seen entry backwards and gives up at *)
(* the first entry that is not active.                                       *)
ScanFinds(a, at) ==
  \E i \in 1 .. Len(order) :
     /\ order[i] = a
     /\ \A j \in i .. Len(order) : Active(order[j], at)

Resolve(f, at) ==
  IF f.crc # "failed" THEN f.icao
  ELSE IF f.icao # None /\ ScanFinds(f.icao, at) THEN f.icao ELSE None

-----------------------------------------------------------------------------
(* Eviction.  Both passes pop from the front, so what they drop is a prefix *)
(* of order, given by its length.                                           *)

Stale(a, at) == Age(at, byIcao[a].lastSeen) > StaleAfter

(* evict_stale after k entries have been popped: it pops while the front *)
(* entry is stale, so it stops with n popped.                            *)
StopsAt(k, n, at) ==
  /\ n >= k
  /\ \A i \in k + 1 .. n : Stale(order[i], at)
  /\ n < Len(order) => ~ Stale(order[n + 1], at)

(* Mutants: the table may exceed its capacity by one; no pass behind the pop. *)
OverflowLate(n, at) ==
  IF Len(order) <= Capacity THEN n = 0 ELSE StopsAt(1, n, at)

OverflowOnlyOldest(n, at) ==
  IF Len(order) < Capacity THEN n = 0 ELSE n = 1

(* evict_if_needed: nothing below capacity; else the oldest entry, then *)
(* whatever is stale behind it.                                         *)
Overflow(n, at) ==
  IF Len(order) < Capacity THEN n = 0 ELSE StopsAt(1, n, at)

Drop(n) == SubSeq(order, n + 1, Len(order))

(* Mutant: only the first entry dropped is reported. *)
LostEventsFirst(n) == [i \in 1 .. (IF n > 1 THEN 1 ELSE n) |-> Event("lost", order[i])]

LostEvents(n) == [i \in 1 .. n |-> Event("lost", order[i])]

Survivors(n) == {order[i] : i \in n + 1 .. Len(order)}

(* Mutant: an aircraft that is heard again keeps its place. *)
ToBackForgotten(a) == order

(* LinkedHashMap::to_back *)
ToBack(a) ==
  LET i == CHOOSE i \in 1 .. Len(order) : order[i] = a
  IN  [j \in 1 .. Len(order) |->
         IF j < i THEN order[j] ELSE IF j < Len(order) THEN order[j + 1] ELSE a]

-----------------------------------------------------------------------------
(* Applying a decoded message to an aircraft.  Each operator returns the     *)
(* aircraft afterwards and the kinds of the events pushed.                   *)

Result(ac, kinds) == [ac |-> ac, kinds |-> kinds]

ApplyIdent(ac, p) ==
  Result([ac EXCEPT !.callsign = p.callsign, !.category = p.category],
         IF ac.callsign = p.callsign THEN <<>> ELSE <<"identification">>)

ApplyVelocity(ac, p) ==
  Result([ac EXCEPT !.velocity = p.velocity], <<"velocity">>)

Fix(ac, at, source, e, o) ==
  Result([ac EXCEPT !.position = [at |-> at, source |-> source, even |-> e, odd |-> o]],
         <<"position">>)

(* "Freshest fragment": the even half wins a tie. *)
LocalFix(ac, at) ==
  IF ~ HasReference \/ (ac.even = None /\ ac.odd = None) THEN Result(ac, <<>>)
  ELSE IF ac.even # None /\ (ac.odd # None => ac.even.at >= ac.odd.at)
       THEN Fix(ac, at, "local", ac.even, None)
       ELSE Fix(ac, at, "local", None, ac.odd)

(* Mutants: the fresher half is dropped; none is. *)
DropFresher(ac) ==
  IF ac.odd.at >= ac.even.at THEN [ac EXCEPT !.odd = None] ELSE [ac EXCEPT !.even = None]

DropNeither(ac) == ac

DropOlder(ac) ==
  IF ac.odd.at >= ac.even.at THEN [ac EXCEPT !.even = None] ELSE [ac EXCEPT !.odd = None]

Gap(s, t) == IF s >= t THEN s - t ELSE t - s

Verdict(ac) == GlobalDecode[<<ac.even.cpr, ac.odd.cpr>>]

(* try_resolve_position *)
ResolvePosition(ac, at) ==
  IF ac.even = None \/ ac.odd = None THEN LocalFix(ac, at)
  ELSE IF Gap(ac.even.at, ac.odd.at) > CprPairWindow \/ Verdict(ac) = "zone"
       THEN LocalFix(DropOlder(ac), at)
  ELSE IF Verdict(ac) = "range"
       THEN LocalFix([ac EXCEPT !.even = None, !.odd = None], at)
       ELSE Fix(ac, at, "global", ac.even, ac.odd)

ApplyAirborne(ac, p, at) ==
  LET half == [at |-> at, cpr |-> p.cpr]
  IN  ResolvePosition(IF p.odd THEN [ac EXCEPT !.odd = half] ELSE [ac EXCEPT !.even = half], at)

(* try_resolve_surface: the halves are neither read nor stored. *)
ApplySurface(ac, p, at) ==
  LET moving == p.velocity # None
      ac2 == IF moving THEN [ac EXCEPT !.velocity = p.velocity] ELSE ac
      vel == IF moving THEN <<"velocity">> ELSE <<>>
  IN  IF HasReference
      THEN LET r == Fix(ac2, at, "surface", None, None) IN Result(r.ac, vel \o r.kinds)
      ELSE Result(ac2, vel)

Apply(ac, p, at) ==
  CASE p.kind = "ident"    -> ApplyIdent(ac, p)
    [] p.kind = "airborne" -> ApplyAirborne(ac, p, at)
    [] p.kind = "surface"  -> ApplySurface(ac, p, at)
    [] p.kind = "velocity" -> ApplyVelocity(ac, p)
    [] OTHER               -> Result(ac, <<>>)

-----------------------------------------------------------------------------
(* ingest *)

Tally(c, crc) ==
  [total     |-> c.total + 1,
   clean     |-> c.clean + (IF crc = "clean" THEN 1 ELSE 0),
   corrected |-> c.corrected + (IF crc = "corrected" THEN 1 ELSE 0),
   recovered |-> c.recovered + (IF crc = "failed" THEN 1 ELSE 0)]

Touch(ac, f, at) == [ac EXCEPT !.lastSeen = at, !.counters = Tally(@, f.crc)]

Hear(ac, f, at) ==
  IF f.crc = "failed" THEN Result(Touch(ac, f, at), <<"address_recovered">>)
  ELSE Apply(Touch(ac, f, at), f.payload, at)

EventsOf(a, kinds) == [i \in 1 .. Len(kinds) |-> Event(kinds[i], a)]

(* Mutant: a decoded message without an address is not sent away. *)
UnresolvedOnlyIfFailed(f, at) == f.crc = "failed" /\ Resolve(f, at) = None

(* The early return of ingest. *)
Unresolved(f, at) == Resolve(f, at) = None

IngestOrphan(f, at) ==
  /\ Unresolved(f, at)
  /\ out' = <<Event("orphan", None)>>
  /\ UNCHANGED <<order, byIcao>>

IngestKnown(f, at) ==
  LET a == Resolve(f, at) IN
  /\ ~ Unresolved(f, at)
  /\ a \in Tracked
  /\ LET r == Hear(byIcao[a], f, at) IN
       /\ order' = ToBack(a)
       /\ byIcao' = [byIcao EXCEPT ![a] = r.ac]
       /\ out' = EventsOf(a, r.kinds)

(* Mutant: the newcomer is announced before the aircraft that made room. *)
AnnounceFirst(n, a) == <<Event("acquired", a)>> \o LostEvents(n)

Announce(n, a) == LostEvents(n) \o <<Event("acquired", a)>>

IngestNew(f, at) ==
  LET a == Resolve(f, at) IN
  /\ ~ Unresolved(f, at)
  /\ a \notin Tracked
  /\ \E n \in 0 .. Len(order) :
       LET r == Hear(NewAircraft(at), f, at) IN
       /\ Overflow(n, at)
       /\ order' = Append(Drop(n), a)
       /\ byIcao' = [x \in Survivors(n) \cup {a} |-> IF x = a THEN r.ac ELSE byIcao[x]]
       /\ out' = Announce(n, a) \o EventsOf(a, r.kinds)

Ingest(f, at) ==
  \/ IngestOrphan(f, at)
  \/ IngestKnown(f, at)
  \/ IngestNew(f, at)

(* evict_stale as called from outside (the CLI, at the end of a recording) *)
EvictStale(at) ==
  \E n \in 0 .. Len(order) :
    /\ StopsAt(0, n, at)
    /\ order' = Drop(n)
    /\ byIcao' = [x \in Survivors(n) |-> byIcao[x]]
    /\ out' = LostEvents(n)

-----------------------------------------------------------------------------
(* The tracker under a caller whose clock does not run backwards.  All      *)
(* frames of one chunk of samples carry the same instant, so several calls  *)
(* may happen between two ticks.                                            *)

Init ==
  /\ order = <<>>
  /\ byIcao = [x \in {} |-> None]
  /\ now = 0
  /\ out = <<>>
  /\ frames = 0

Receive ==
  /\ frames < MaxFrames
  /\ frames' = frames + 1
  /\ \E f \in Frames : Ingest(f, now)
  /\ UNCHANGED now

Sweep ==
  /\ EvictStale(now)
  /\ UNCHANGED <<now, frames>>

Tick ==
  /\ now' \in now + 1 .. MaxTime
  /\ out' = <<>>
  /\ UNCHANGED <<order, byIcao, frames>>

Next == Receive \/ Sweep \/ Tick

Spec == Init /\ [][Next]_vars

-----------------------------------------------------------------------------
(* Properties *)

(* Type invariant of the tracker's state. *)
TypeOK ==
  /\ order \in Seq(Icao)
  /\ Tracked \subseteq Icao
  /\ byIcao \in [Tracked -> Aircraft]
  /\ now \in Time
  /\ out \in Seq(StateEvent)
  /\ frames \in 0 .. MaxFrames

(* The order lists exactly the tracked aircraft, each once, and eviction      *)
(* keeps the table within its capacity: the LinkedHashMap's two views agree   *)
(* whatever sequence of touches, insertions and evictions happened.           *)
TableWellFormed ==
  /\ \A i, j \in 1 .. Len(order) : order[i] = order[j] => i = j
  /\ Tracked = {order[i] : i \in 1 .. Len(order)}
  /\ Len(order) <= Capacity

(* "The table is ordered by last_seen" (state.rs, resolve_icao): the early    *)
(* exits of the recovery scan and of evict_stale both rest on it.             *)
Sorted ==
  \A i, j \in 1 .. Len(order) :
     i <= j => byIcao[order[i]].lastSeen <= byIcao[order[j]].lastSeen

(* The scan that stops at the first inactive entry misses nobody: it finds    *)
(* an address exactly when that aircraft is tracked and was heard within the  *)
(* active window, so no reply of an active aircraft is reported as an orphan  *)
(* and no ghost is revived.                                                   *)
ScanComplete ==
  \A a \in Icao :
     ScanFinds(a, now) <=> (a \in Tracked /\ Active(a, now))

(* Two halves stay side by side only while they pair: a stored even/odd pair  *)
(* is always within the pairing window and decodes.  A stale or mismatched    *)
(* partner never lingers to be paired with a later half.                      *)
StoredPairDecodes ==
  \A a \in Tracked :
     LET ac == byIcao[a] IN
     ac.even # None /\ ac.odd # None =>
        /\ Gap(ac.even.at, ac.odd.at) <= CprPairWindow
        /\ Verdict(ac) = "ok"

(* A fix is as old as it claims: a global fix contains a half received at the *)
(* instant of the fix and none older than the pairing window, and a local fix *)
(* is computed from a half received at that very instant.                     *)
FixIsCurrent ==
  \A a \in Tracked :
     LET p == byIcao[a].position IN
     p # None =>
       CASE p.source = "global" ->
              /\ p.at \in {p.even.at, p.odd.at}
              /\ p.at - p.even.at <= CprPairWindow
              /\ p.at - p.odd.at <= CprPairWindow
         [] p.source = "local" ->
              \A h \in {p.even, p.odd} \ {None} : h.at = p.at
         [] OTHER -> TRUE

(* An aircraft reported lost was heard no later than any aircraft that the    *)
(* same call keeps: eviction never drops a fresher aircraft than it leaves.   *)
LostAreOldest ==
  [][\A x \in Tracked \ Tracked', y \in Tracked \cap Tracked' :
        byIcao[x].lastSeen <= byIcao[y].lastSeen]_vars

(* The addresses that a sequence of events names with a kind. *)
Named(s, k) == {s[i].icao : i \in {j \in 1 .. Len(s) : s[j].kind = k}}

MirrorsTable == Tracked' = (Tracked \ Named(out', "lost")) \cup Named(out', "acquired")

(* Acquired and lost events account for every change of the table: after a    *)
(* call, the tracked set is the old one less the lost plus the acquired, so a *)
(* consumer that mirrors the table from the events never drifts from it.      *)
EventsMirrorTable == [][MirrorsTable]_vars

LeavesNoneStale ==
  (Len(out') > 0 /\ out'[1].kind = "lost") =>
     \A a \in Tracked' : Age(now', byIcao'[a].lastSeen) <= StaleAfter

(* A pass that drops a stale aircraft drops all of them: stopping at the      *)
(* first fresh entry leaves no stale aircraft behind it.                      *)
SweepIsComplete == [][LeavesNoneStale]_vars

=============================================================================
