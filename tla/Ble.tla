--------------------------------- MODULE Ble ---------------------------------
(***************************************************************************)
(* The Bluetooth feed (ble.rs in rs1090-serve): a supervisor turns the     *)
(* snapshot into three values when an event tells of a change, at most     *)
(* every 250 ms, and one task per subscription polls its value once a      *)
(* second and notifies the client of a new one.                            *)
(*                                                                         *)
(* The channel keeps the latest Retained events; whoever was overtaken     *)
(* gets one error more, which the supervisor takes for an event.  The      *)
(* third value, a line of text about the nearest aircraft, is left out.    *)
(***************************************************************************)
EXTENDS Airspace

CONSTANTS
  Retained,  \* DEFAULT_BROADCAST_CAPACITY
  Polled     \* the values there may be subscriptions to

VARIABLES
  stage,    \* the supervisor: "off", "starting", "receiving", "reading" or "writing"
  unread,   \* what recv has still to return
  pushed,   \* last_push: "never", "recent" or "past" the limit
  derived,  \* new_latest
  latest,   \* the values the tasks read
  passed,   \* history: an event was passed over since the last push
  shown     \* by subscription, what its client was notified of; None without a task

bleVars == <<snapshot, untold, stage, unread, pushed, derived, latest, passed, shown>>

ASSUME BleAssumption == Retained \in Nat \ {0} /\ Polled \subseteq {"count", "nearest"}

-----------------------------------------------------------------------------
(* derive_latest *)

(* Bytes of a number in two's complement, least significant first. *)
LittleEndian(n, width) == [i \in 1..width |-> (n \div 256^(i - 1)) % 256]

(* Mutant: a cast that wraps round. *)
Wrapping16(n) == n % 65536

(* u16::try_from, with 65535 for what does not fit. *)
Unsigned16(n) == IF 0 <= n /\ n <= 65535 THEN n ELSE 65535

(* 10^6 of a degree, cut off; the fraction of 65536 apart, to fit 32 bits. *)
Micro(deg) ==
  LET size == IF deg < 0 THEN - deg ELSE deg
      micro == (size \div 65536) * 1000000 + ((size % 65536) * 15625) \div 1024
  IN  LittleEndian(IF deg < 0 THEN - micro ELSE micro, 4)

pack_nearest(p, look) ==
  Address[p]
    \o LittleEndian(Unsigned16(Truncated(look.position.alt, 25)), 2)
    \o Micro(look.position.lat) \o Micro(look.position.lon)
    \o LittleEndian(IF Direction(look) = Unknown THEN 65535 ELSE Unsigned16(Direction(look)), 2)

WithAltitude(map) ==
  {p \in DOMAIN map : map[p].position # Unknown /\ map[p].position.alt # Unknown}

(* min_by_key over the arbitrary order of the map. *)
Lowest(map) ==
  {p \in WithAltitude(map) :
     \A q \in WithAltitude(map) : map[p].position.alt <= map[q].position.alt}

Nothing == [i \in 1..15 |-> 0]

Derivable(map) ==
  LET nearest == IF Lowest(map) = {} THEN {Nothing} ELSE {pack_nearest(p, map[p]) : p \in Lowest(map)}
  IN  {[count |-> LittleEndian(Unsigned16(Cardinality(DOMAIN map)), 2), nearest |-> bytes] : bytes \in nearest}

Default == [count |-> <<0, 0>>, nearest |-> <<>>]

-----------------------------------------------------------------------------
(* The supervisor *)

(* The adapter is powered up and the service advertised; only then does rx exist. *)
Start ==
  /\ stage = "starting" /\ stage' = "receiving"
  /\ UNCHANGED <<snapshot, untold, unread, pushed, derived, latest, passed, shown>>

Listening == stage \in {"receiving", "reading", "writing"}

Kept == Min({unread + 1, Retained + 1})

TellBle ==
  /\ Tell
  /\ unread' = IF Listening THEN Kept ELSE unread
  /\ UNCHANGED <<stage, pushed, derived, latest, passed, shown>>

PassOver ==
  /\ stage = "receiving" /\ unread > 0 /\ pushed = "recent"
  /\ unread' = unread - 1
  /\ passed' = TRUE
  /\ UNCHANGED <<snapshot, untold, stage, pushed, derived, latest, shown>>

(* Mutant: the error ends the loop. *)
EndsOnLag == IF unread > Retained THEN "ended" ELSE "reading"

AfterRecv == "reading"

TakeUp ==
  /\ stage = "receiving" /\ unread > 0 /\ pushed # "recent"
  /\ unread' = unread - 1
  /\ pushed' = "recent"
  /\ stage' = AfterRecv /\ passed' = FALSE
  /\ UNCHANGED <<snapshot, untold, derived, latest, shown>>

(* The lock on the snapshot is held while it is copied. *)
Derive ==
  /\ stage = "reading"
  /\ derived' \in Derivable(snapshot)
  /\ stage' = "writing"
  /\ UNCHANGED <<snapshot, untold, unread, pushed, latest, passed, shown>>

Publish ==
  /\ stage = "writing"
  /\ latest' = derived /\ derived' = Default
  /\ stage' = "receiving"
  /\ UNCHANGED <<snapshot, untold, unread, pushed, passed, shown>>

(* 250 ms have passed since the last push. *)
Age ==
  /\ pushed = "recent" /\ pushed' = "past"
  /\ UNCHANGED <<snapshot, untold, stage, unread, derived, latest, passed, shown>>

-----------------------------------------------------------------------------
(* The tasks of the subscriptions *)

Subscribe(v) ==
  /\ stage # "off" /\ shown[v] = Unknown
  /\ shown' = [shown EXCEPT ![v] = <<>>]
  /\ UNCHANGED <<snapshot, untold, stage, unread, pushed, derived, latest, passed>>

(* A value equal to the last one is not notified again. *)
Poll(v) ==
  /\ shown[v] # Unknown /\ latest[v] # shown[v]
  /\ shown' = [shown EXCEPT ![v] = latest[v]]
  /\ UNCHANGED <<snapshot, untold, stage, unread, pushed, derived, latest, passed>>

(* The client has unsubscribed or gone: the next notification fails. *)
NotifyFails(v) ==
  /\ shown[v] # Unknown /\ latest[v] # shown[v]
  /\ shown' = [shown EXCEPT ![v] = Unknown]
  /\ UNCHANGED <<snapshot, untold, stage, unread, pushed, derived, latest, passed>>

BleInit ==
  /\ stage \in {"off", "starting"}
  /\ unread = 0 /\ pushed = "never" /\ passed = FALSE
  /\ derived = Default /\ latest = Default
  /\ shown = [v \in Polled |-> Unknown]

Supervise == Start \/ PassOver \/ TakeUp \/ Derive \/ Publish

BleNext ==
  \/ Supervise \/ Age
  \/ \E v \in Polled : Subscribe(v) \/ Poll(v) \/ NotifyFails(v)

(* The runtime polls each task, and time passes. *)
BleFairness ==
  /\ WF_bleVars(Supervise) /\ WF_bleVars(Age)
  /\ \A v \in Polled : WF_bleVars(Poll(v) \/ NotifyFails(v))

-----------------------------------------------------------------------------
(* What a client reads *)

Natural(bytes, i, width) ==
  LET sum[k \in 0..width] == IF k = 0 THEN 0 ELSE 256 * sum[k - 1] + bytes[i + width - k]
  IN  sum[width]

(* The top byte first, so that the sign is known before 2^31 is reached. *)
Integer(bytes, i) == (IF bytes[i + 3] > 127 THEN bytes[i + 3] - 256 ELSE bytes[i + 3]) * 2^24 + Natural(bytes, i, 3)

(* Less than a millionth of a degree apart, towards zero. *)
CloseTo(micro, deg) ==
  LET size == IF deg < 0 THEN - deg ELSE deg
      told == IF deg < 0 THEN - micro ELSE micro
  IN  1024 * (told - 15625 * (size \div 1024)) - 15625 * (size % 1024) \in -1023..0

(* An altitude below sea level reads as unknown. *)
NearestTells(bytes, p, look) ==
  LET alt == Natural(bytes, 4, 2)
      turn == Natural(bytes, 14, 2)
  IN  /\ Len(bytes) = 15 /\ SubSeq(bytes, 1, 3) = Address[p]
      /\ IF look.position.alt <= -25 THEN alt = 65535 ELSE look.position.alt - 25 * alt \in -24..24
      /\ CloseTo(Integer(bytes, 6), look.position.lat) /\ CloseTo(Integer(bytes, 10), look.position.lon)
      /\ turn = Either(Direction(look), 65535)

NearestFits(bytes, map) ==
  IF \A p \in DOMAIN map : map[p].position = Unknown \/ map[p].position.alt = Unknown
  THEN bytes = Nothing
  ELSE \E p \in Lowest(map) : NearestTells(bytes, p, map[p])

Fits(value, bytes, map) ==
  IF value = "count" THEN Natural(bytes, 1, 2) = Min({Cardinality(DOMAIN map), 65535}) ELSE NearestFits(bytes, map)

-----------------------------------------------------------------------------
(* Properties *)

(* Whatever overlaps with copying, writing and lagging: once the events are   *)
(* taken up, the values tell of the snapshot as it is, down to a 25 ft step   *)
(* and a millionth of a degree.  Only the limit may leave them behind, or an  *)
(* event that came before the supervisor listened.                            *)
StaleOnlyByLimit ==
  stage = "receiving" /\ unread = 0 /\ ~ untold /\ pushed # "never" =>
    passed \/ \A v \in {"count", "nearest"} : Fits(v, latest[v], snapshot)

(* If the aircraft change no more but events go on coming, however many the   *)
(* limit or a lag swallows, every client ends up seeing them as they are.     *)
ClientsSettle ==
  <>[][FALSE]_snapshot /\ []<><<TellBle>>_bleVars =>
    \A v \in Polled :
      <>[](shown[v] \in {Unknown, <<>>} \/ Fits(v, shown[v], snapshot))

=============================================================================
