------------------------------ MODULE Outputs ------------------------------
(***************************************************************************)
(* The optional outputs of rs1090-serve beside the HTTP server: the AVR    *)
(* and Beast ports, the GDL90 broadcast and the Bluetooth peripheral, as   *)
(* main.rs starts them by its command line or configuration.               *)
(*                                                                         *)
(* Each only reads what the decoder thread writes, the frame channel, the  *)
(* snapshot and the event channel, and none is read by another.  So one    *)
(* kind of output is switched on at a time, in every behaviour.            *)
(***************************************************************************)
EXTENDS Feeds, Gdl90, Ble

gdlOwn == <<phase, copy, rest, aired, broken>>
bleOwn == <<stage, unread, pushed, derived, latest, passed, shown>>
outVars == <<feedVars, airVars, gdlOwn, bleOwn>>

FeedsOn == phase = "off" /\ stage = "off"

OutInit ==
  /\ FeedInit /\ AirInit /\ GdlInit /\ BleInit
  /\ phase = "off" \/ stage = "off"

(* The decoder thread is never held up by an output. *)
Decode ==
  /\ ~ FeedsOn
  /\ \/ Refresh /\ UNCHANGED bleOwn
     \/ TellBle
  /\ UNCHANGED <<feedVars, gdlOwn>>

OutNext ==
  \/ Decode
  \/ FeedsOn /\ FeedNext /\ UNCHANGED <<airVars, gdlOwn, bleOwn>>
  \/ Tick /\ UNCHANGED <<feedVars, bleOwn>>
  \/ BleNext /\ UNCHANGED <<feedVars, gdlOwn>>

OutSpec == OutInit /\ [][OutNext]_outVars /\ FeedFairness /\ GdlFairness /\ BleFairness

=============================================================================
