-------------------------------- MODULE Serve --------------------------------
(***************************************************************************)
(* The life of the rs1090-serve process (main and shutdown_signal in       *)
(* main.rs): the decoder thread with its LivenessGuard, the HTTP server    *)
(* with its graceful shutdown, and the systemd unit around them.           *)
(*                                                                         *)
(* Abstractions.                                                           *)
(*  - What the decoder does while it runs is left out; EventStream has it. *)
(*  - Of the HTTP connections only the streams are kept: any other request *)
(*    ends by itself, a stream only when its client goes.                  *)
(***************************************************************************)
EXTENDS FiniteSets, Integers

CONSTANTS
  Client,   \* clients that may hold a stream open
  None      \* the process has not exited

ASSUME ServeAssumption == None \notin {0, 1}

VARIABLES
  live,       \* the source is a radio, and not a file
  decoder,    \* the decoder thread
  alive,      \* AppState::decoder_alive, what /healthz answers by
  permit,     \* the permit stored in AppState::decoder_died
  http,       \* the main thread
  streams,    \* clients with an open stream
  interrupt,  \* Ctrl-C was pressed
  exit,       \* exit code of the process
  unit        \* the systemd unit

vars == <<live, decoder, alive, permit, http, streams, interrupt, exit, unit>>

Running == unit = "active" /\ exit = None

-----------------------------------------------------------------------------
(* The decoder thread *)

(* End of a file: Ok(()) disarms the guard. *)
DecoderFinishes ==
  /\ Running /\ ~ live
  /\ decoder = "running"
  /\ decoder' = "finished"
  /\ UNCHANGED <<alive, permit, http, streams, interrupt, exit, unit, live>>

(* Err or a panic; a radio that delivers no more samples is an error. *)
DecoderFails ==
  /\ Running
  /\ decoder = "running"
  /\ decoder' = "failed"
  /\ UNCHANGED <<alive, permit, http, streams, interrupt, exit, unit, live>>

(* Mutant: the waiter is woken before the flag is stored. *)
DropSwapped == <<"wake", "flag">>

(* LivenessGuard::drop: the flag first, then the waiter. *)
DropOrder == <<"flag", "wake">>

(* The guard's first and second statement. *)
DropStep(s) ==
  \/ s = DropOrder[1] /\ decoder = "failed" /\ decoder' = "dropping"
  \/ s = DropOrder[2] /\ decoder = "dropping" /\ decoder' = "dropped"

GuardStoresFlag ==
  /\ Running
  /\ DropStep("flag")
  /\ alive' = FALSE
  /\ UNCHANGED <<permit, http, streams, interrupt, exit, unit, live>>

(* Mutant: notify_waiters, which wakes only who already waits. *)
WakeWaiters == permit \/ http = "serving"

(* notify_one: the permit is kept for a waiter that comes later. *)
Wake == TRUE

GuardNotifies ==
  /\ Running
  /\ DropStep("wake")
  /\ permit' = Wake
  /\ UNCHANGED <<alive, http, streams, interrupt, exit, unit, live>>

-----------------------------------------------------------------------------
(* The main thread *)

Bind ==
  /\ Running
  /\ http = "binding"
  /\ http' = "serving"
  /\ UNCHANGED <<decoder, alive, permit, streams, interrupt, exit, unit, live>>

(* The address is in use: main returns an error. *)
BindFails ==
  /\ Running
  /\ http = "binding"
  /\ exit' = 1
  /\ UNCHANGED <<decoder, alive, permit, http, streams, interrupt, unit, live>>

(* shutdown_signal; the listener closes and takes no new connection. *)
ShutDown ==
  /\ Running
  /\ http = "serving"
  /\ interrupt \/ permit
  /\ permit' \in IF interrupt /\ permit THEN BOOLEAN ELSE {FALSE}
  /\ http' = "draining"
  /\ UNCHANGED <<decoder, alive, streams, interrupt, exit, unit, live>>

(* axum::serve returns when the last connection is gone. *)
Drained ==
  /\ Running
  /\ http = "draining"
  /\ streams = {}
  /\ http' = "returned"
  /\ UNCHANGED <<decoder, alive, permit, streams, interrupt, exit, unit, live>>

ExitCode == IF alive THEN 0 ELSE 1

Exit ==
  /\ Running
  /\ http = "returned"
  /\ exit' = ExitCode
  /\ UNCHANGED <<decoder, alive, permit, http, streams, interrupt, unit, live>>

-----------------------------------------------------------------------------
(* Clients, the operator and systemd *)

OpenStream(c) ==
  /\ Running
  /\ http = "serving"
  /\ streams' = streams \cup {c}
  /\ UNCHANGED <<decoder, alive, permit, http, interrupt, exit, unit, live>>

CloseStream(c) ==
  /\ Running
  /\ c \in streams
  /\ streams' = streams \ {c}
  /\ UNCHANGED <<decoder, alive, permit, http, interrupt, exit, unit, live>>

Interrupt ==
  /\ Running
  /\ http # "binding"
  /\ interrupt' = TRUE
  /\ UNCHANGED <<decoder, alive, permit, http, streams, exit, unit, live>>

(* systemctl stop: SIGTERM is not handled and ends the process at once. *)
Stop ==
  /\ unit = "active"
  /\ unit' = "stopped"
  /\ UNCHANGED <<decoder, alive, permit, http, streams, interrupt, exit, live>>

(* Restart=on-failure *)
Restart ==
  /\ unit = "active" /\ exit = 1
  /\ decoder' = "running"
  /\ alive' = TRUE
  /\ permit' = FALSE
  /\ http' = "binding"
  /\ streams' = {}
  /\ interrupt' = FALSE
  /\ exit' = None
  /\ UNCHANGED <<unit, live>>

(* A clean exit is not followed by a restart. *)
Deactivate ==
  /\ unit = "active" /\ exit = 0
  /\ unit' = "inactive"
  /\ UNCHANGED <<decoder, alive, permit, http, streams, interrupt, exit, live>>

Init ==
  /\ live \in BOOLEAN
  /\ decoder = "running"
  /\ alive = TRUE
  /\ permit = FALSE
  /\ http = "binding"
  /\ streams = {}
  /\ interrupt = FALSE
  /\ exit = None
  /\ unit = "active"

Progress ==
  \/ GuardStoresFlag \/ GuardNotifies
  \/ Bind \/ BindFails \/ ShutDown \/ Drained \/ Exit
  \/ Restart \/ Deactivate

Next ==
  \/ Progress
  \/ DecoderFinishes \/ DecoderFails
  \/ Interrupt \/ Stop
  \/ \E c \in Client : OpenStream(c) \/ CloseStream(c)

(* The threads run, the tokio runtime polls, and systemd does its work;      *)
(* nothing makes a decoder fail, an operator act or a client leave.          *)
Fairness ==
  /\ WF_vars(GuardStoresFlag) /\ WF_vars(GuardNotifies)
  /\ WF_vars(Bind \/ BindFails) /\ WF_vars(ShutDown) /\ WF_vars(Drained) /\ WF_vars(Exit)
  /\ WF_vars(Restart) /\ WF_vars(Deactivate)

Spec == Init /\ [][Next]_vars /\ Fairness

-----------------------------------------------------------------------------
(* Properties *)

(* Type invariant of the process. *)
TypeOK ==
  /\ live \in BOOLEAN
  /\ decoder \in {"running", "finished", "failed", "dropping", "dropped"}
  /\ alive \in BOOLEAN
  /\ permit \in BOOLEAN
  /\ http \in {"binding", "serving", "draining", "returned"}
  /\ streams \subseteq Client
  /\ interrupt \in BOOLEAN
  /\ exit \in {None, 0, 1}
  /\ unit \in {"active", "stopped", "inactive"}

(* A process that ends because its decoder died never exits with zero, so     *)
(* systemd restarts it: only Ctrl-C leads to exit code zero.  This needs the  *)
(* guard's flag to be visible before its wakeup is.                           *)
ZeroOnlyByInterrupt == exit = 0 => interrupt

(* If the clients always leave at some time, a dead decoder is followed by a  *)
(* new process with a running one, unless an operator ends the service.       *)
DeathIsFollowedByRestart ==
  []<>(streams = {}) =>
     (decoder = "failed" ~> (decoder = "running" \/ interrupt \/ unit = "stopped"))

=============================================================================
