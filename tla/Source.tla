------------------------------- MODULE Source -------------------------------
(***************************************************************************)
(* Where the samples come from (rs1090/source.rs) and what the decoder     *)
(* thread makes of their end (run_decoder in rs1090-serve/main.rs): a file *)
(* that is replayed or a radio, read call by call.  Serve leaves open when *)
(* the decoder ends; here it ends because a read said so, and the whole is *)
(* shown to implement Serve.                                               *)
(*                                                                         *)
(* Bytes are numbered from one, so that a sample, which is a pair of       *)
(* bytes, tells where it was cut out of the stream.  A transfer holds      *)
(* whole samples, as the driver asks for 32 KiB at a time; an odd one      *)
(* would leave a byte for which read returns 0.                            *)
(***************************************************************************)
EXTENDS Serve, SequencesExt

CONSTANTS
  Files,      \* lengths in bytes of the files that may be replayed
  Transfers,  \* lengths in bytes of what a radio delivers at once
  Room,       \* samples the caller has room for (65536)
  Scratch,    \* samples byte_buf has room for (2048)
  MaxBytes    \* bound on the bytes a radio delivers

ASSUME SourceAssumption ==
  /\ Files \subseteq Nat
  /\ \A n \in Transfers : n \in Nat \ {0} /\ n % 2 = 0
  /\ {Room, Scratch} \subseteq Nat \ {0}
  /\ MaxBytes \in Nat

VARIABLES
  size,      \* length of the file
  taken,     \* bytes taken from the file or the radio
  byte_buf,  \* IqFileSource::byte_buf, as far as this call has filled it
  leftover,  \* RtlSdrSource::leftover
  cursor,    \* RtlSdrSource::cursor
  gone,      \* the streaming thread has exited
  samples,   \* the samples handed on
  result     \* what the last read returned

sourceVars == <<size, taken, byte_buf, leftover, cursor, gone, samples, result>>
allVars == <<vars, sourceVars>>

Bytes(n) == [k \in 1..n |-> taken + k]

(* The first n samples of some bytes. *)
Samples(bytes, n) == [k \in 1..n |-> <<bytes[2 * k - 1], bytes[2 * k]>>]

-----------------------------------------------------------------------------
(* The decoder thread *)

(* Mutant: the end of a radio's stream is taken for the end of a file. *)
AlwaysFinished == "finished"

(* What a read of nothing means depends on the source. *)
EndOfSource == IF live THEN "failed" ELSE "finished"

DecoderEnds(how) ==
  /\ decoder' = how
  /\ UNCHANGED <<live, alive, permit, http, streams, interrupt, exit, unit>>

(* The loop goes on with the samples read, or ends. *)
TakeIn(bytes, n) ==
  /\ result' = n
  /\ samples' = samples \o Samples(bytes, n)
  /\ IF n = 0 THEN DecoderEnds(EndOfSource) ELSE UNCHANGED vars

(* The source cannot be opened, or the decoder panics. *)
Break == DecoderFails /\ UNCHANGED sourceVars

-----------------------------------------------------------------------------
(* IqFileSource::read *)

Replaying == Running /\ decoder = "running" /\ ~ live

max_bytes == 2 * Min({Room, Scratch})

(* Mutant: the first bytes end the call. *)
AnyBytes == byte_buf # <<>> \/ taken = size

Filled == Len(byte_buf) = max_bytes \/ taken = size

(* The reader may return fewer bytes than asked for, or be interrupted and asked again. *)
FileReads(n) ==
  /\ Replaying /\ ~ Filled
  /\ n <= Min({max_bytes - Len(byte_buf), size - taken})
  /\ byte_buf' = byte_buf \o Bytes(n)
  /\ taken' = taken + n
  /\ UNCHANGED <<vars, size, leftover, cursor, gone, samples, result>>

(* Half a sample at the end of the file is dropped. *)
FileReturns ==
  /\ Replaying /\ Filled
  /\ TakeIn(byte_buf, Len(byte_buf) \div 2)
  /\ byte_buf' = <<>>
  /\ UNCHANGED <<size, taken, leftover, cursor, gone>>

FileErrs ==
  /\ Replaying /\ ~ Filled
  /\ DecoderEnds("failed")
  /\ UNCHANGED sourceVars

-----------------------------------------------------------------------------
(* RtlSdrSource::read *)

Receiving == Running /\ decoder = "running" /\ live

(* Mutant: the last sample of a transfer is waited for. *)
OneShort(available) == Min({Room, (available - 1) \div 2})

max_pairs(available) == Min({Room, available \div 2})

Advanced(from, pairs) == from + 2 * pairs

Convert(bytes, from) ==
  LET pairs == max_pairs(Len(bytes) - from)
  IN  /\ TakeIn(SubSeq(bytes, from + 1, Len(bytes)), pairs)
      /\ leftover' = bytes
      /\ cursor' = Advanced(from, pairs)
      /\ UNCHANGED <<size, byte_buf, gone>>

RadioGoesOn ==
  /\ Receiving /\ cursor < Len(leftover)
  /\ Convert(leftover, cursor)
  /\ UNCHANGED taken

RadioReceives(n) ==
  /\ Receiving /\ cursor >= Len(leftover)
  /\ ~ gone /\ taken + n <= MaxBytes
  /\ Convert(Bytes(n), 0)
  /\ taken' = taken + n

(* The channel is closed and empty. *)
RadioEnds ==
  /\ Receiving /\ cursor >= Len(leftover)
  /\ gone
  /\ TakeIn(<<>>, 0)
  /\ UNCHANGED <<size, taken, byte_buf, leftover, cursor, gone>>

(* The dongle is pulled, or five transfers in a row have failed. *)
Unplug ==
  /\ Receiving /\ ~ gone
  /\ gone' = TRUE
  /\ UNCHANGED <<vars, size, taken, byte_buf, leftover, cursor, samples, result>>

-----------------------------------------------------------------------------
(* Specification *)

SourceInit ==
  /\ Init
  /\ size \in Files /\ taken = 0 /\ byte_buf = <<>>
  /\ leftover = <<>> /\ cursor = 0 /\ gone = FALSE
  /\ samples = <<>> /\ result = None

(* A new process opens the source again. *)
Reopen ==
  /\ Restart
  /\ taken' = 0 /\ byte_buf' = <<>>
  /\ leftover' = <<>> /\ cursor' = 0 /\ gone' = FALSE
  /\ samples' = <<>> /\ result' = None
  /\ UNCHANGED size

Read ==
  \/ \E n \in 1..max_bytes : FileReads(n)
  \/ FileReturns
  \/ RadioGoesOn \/ RadioEnds

Around ==
  \/ GuardStoresFlag \/ GuardNotifies
  \/ Bind \/ BindFails \/ ShutDown \/ Drained \/ Exit
  \/ Deactivate \/ Interrupt \/ Stop
  \/ \E c \in Client : OpenStream(c) \/ CloseStream(c)

SourceNext ==
  \/ Read \/ FileErrs \/ Break
  \/ \E n \in Transfers : RadioReceives(n)
  \/ Unplug
  \/ Around /\ UNCHANGED sourceVars
  \/ Reopen

(* A file answers; a radio need not deliver. *)
SourceSpec == SourceInit /\ [][SourceNext]_allVars /\ Fairness /\ WF_allVars(Read)

-----------------------------------------------------------------------------
(* Properties *)

(* However a file is read in pieces and a radio's transfers in parts, the     *)
(* samples handed on are the bytes in pairs, from the first one on: none is   *)
(* torn, lost or handed on twice.  A file that was read out was read to its   *)
(* last whole sample.                                                         *)
SamplesAligned ==
  /\ \A k \in DOMAIN samples : samples[k] = <<2 * k - 1, 2 * k>>
  /\ decoder = "finished" => Len(samples) = size \div 2

(* "For a live RTL-SDR, Ok(0) means the rs-rtl streaming thread gave up"      *)
(* (main.rs:505), and for a file "we've reached the end": a read of nothing   *)
(* comes from nothing else.                                                   *)
ZeroMeansEnd == result = 0 => IF live THEN gone ELSE taken = size

(* The sources and the loop around them implement the process of Serve: a     *)
(* radio's end is a failure and a file's end is none.                         *)
ImplementsServe == Spec

=============================================================================
