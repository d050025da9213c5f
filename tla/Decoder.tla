------------------------------- MODULE Decoder -------------------------------
(***************************************************************************)
(* The decoder thread of rs1090-serve (run_decoder in main.rs): it reads   *)
(* samples chunk by chunk, hands each frame found to the aircraft table,   *)
(* and refreshes the shared snapshot event by event.  Other tasks (GET     *)
(* /aircraft, the stream filters, GDL90, BLE) read the snapshot between    *)
(* any two of these steps.                                                 *)
(*                                                                         *)
(* The table is that of Tracker; its variable out is events_buf here, which *)
(* the loop drains.  The thread never calls evict_stale itself.  What      *)
(* becomes of an event that is published is the subject of EventStream.    *)
(*                                                                         *)
(* Time is virtual: the samples consumed so far times a billion, over the  *)
(* sample rate, in 64 bits that wrap.  Here one chunk is one unit of time  *)
(* and the product overflows after ClockWrap chunks.                       *)
(***************************************************************************)
EXTENDS Tracker

CONSTANTS
  ClockWrap,  \* chunks after which the nanoseconds no longer fit 64 bits
  MaxChunks   \* bound on the chunks read

ASSUME DecoderAssumption ==
  /\ ClockWrap \in Nat \ {0}
  /\ MaxChunks \in Nat
  /\ MaxTime >= MaxChunks

VARIABLES
  chunks,   \* chunks of samples read
  snapshot  \* AppState::snapshot: the summaries, by address

decoderVars == <<vars, chunks, snapshot>>

-----------------------------------------------------------------------------

(* snapshot_from *)
Summary(ac) ==
  [callsign |-> ac.callsign, category |-> ac.category, position |-> ac.position,
   velocity |-> ac.velocity, counters |-> ac.counters]

Shown == DOMAIN snapshot

Put(a) ==
  [x \in Shown \cup {a} |-> IF x = a THEN Summary(byIcao[a]) ELSE snapshot[x]]

Remove(a) == [x \in Shown \ {a} |-> snapshot[x]]

(* Mutants: only a newcomer is written; a loss leaves the summary. *)
RefreshOnAcquire(e) ==
  CASE e.kind = "orphan"   -> snapshot
    [] e.kind = "lost"     -> Remove(e.icao)
    [] e.kind = "acquired" -> Put(e.icao)
    [] OTHER               -> snapshot

KeepLost(e) ==
  IF e.kind \notin {"orphan", "lost"} /\ e.icao \in Tracked THEN Put(e.icao) ELSE snapshot

(* update_snapshot *)
Refreshed(e) ==
  CASE e.kind = "orphan" -> snapshot
    [] e.kind = "lost"   -> Remove(e.icao)
    [] OTHER             -> IF e.icao \in Tracked THEN Put(e.icao) ELSE snapshot

(* A chunk of samples is read, and with it the virtual clock moves. *)
ReadChunk ==
  /\ out = <<>>
  /\ chunks < MaxChunks
  /\ chunks' = chunks + 1
  /\ now' = chunks' % ClockWrap
  /\ UNCHANGED <<order, byIcao, out, frames, snapshot>>

(* A frame is found in the chunk and ingested. *)
DecodeFrame ==
  /\ out = <<>>
  /\ chunks > 0
  /\ Receive
  /\ UNCHANGED <<chunks, snapshot>>

(* The oldest event of events_buf is published. *)
Publish ==
  /\ out # <<>>
  /\ snapshot' = Refreshed(Head(out))
  /\ out' = Tail(out)
  /\ UNCHANGED <<order, byIcao, now, frames, chunks>>

DecoderInit ==
  /\ Init
  /\ chunks = 0
  /\ snapshot = [x \in {} |-> None]

DecoderNext == ReadChunk \/ DecodeFrame \/ Publish

DecoderSpec == DecoderInit /\ [][DecoderNext]_decoderVars

-----------------------------------------------------------------------------
(* Properties *)

(* Between two frames the snapshot names exactly the tracked aircraft and     *)
(* agrees with the table on callsign, position and velocity: every path of    *)
(* ingest that changes one of these pushes an event that names the aircraft.  *)
(* (Category and counters may lag: a frame that pushes no event refreshes no  *)
(* summary.)                                                                  *)
SnapshotInStep ==
  out = <<>> =>
    /\ Shown = Tracked
    /\ \A a \in Shown :
         /\ snapshot[a].callsign = byIcao[a].callsign
         /\ snapshot[a].position = byIcao[a].position
         /\ snapshot[a].velocity = byIcao[a].velocity

(* A reader of the snapshot never finds more aircraft than the table may      *)
(* hold, not even while an eviction is being published.                       *)
SnapshotBounded == Cardinality(Shown) <= Capacity

(* The published events tell one story of each aircraft: it is acquired when  *)
(* it is not shown, lost or updated only while it is; the decoder satisfies   *)
(* what EventStream assumes of the events it is given (Possible).             *)
EventsTellLives ==
  [][out # <<>> /\ out' = Tail(out) =>
       LET e == Head(out) IN
       CASE e.kind = "orphan"   -> Shown' = Shown
         [] e.kind = "acquired" -> e.icao \notin Shown /\ e.icao \in Shown'
         [] e.kind = "lost"     -> e.icao \in Shown /\ e.icao \notin Shown'
         [] OTHER               -> e.icao \in Shown /\ e.icao \in Shown']_decoderVars

=============================================================================
