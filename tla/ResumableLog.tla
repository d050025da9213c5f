---------------------------- MODULE ResumableLog ----------------------------
(***************************************************************************)
(* What GET /stream of crates/rs1090-serve promises a client that asks for *)
(* no area: the events of one life of the server form a log, and a client  *)
(* reads it in order.  It may pass over an event that its filters exclude  *)
(* and one that has fallen out of the window of retained events; it passes *)
(* over nothing else, however often it is disconnected, and no event       *)
(* reaches it twice.  Between two lives of the server nothing is promised  *)
(* but that a client may find its way back.                                *)
(***************************************************************************)
EXTENDS Integers, Sequences

CONSTANTS
  Client,   \* the readers
  Event,    \* what may be published
  Wanted,   \* Wanted[c]: the events the filters of reader c let through
  Window,   \* events retained
  None

VARIABLES
  life,   \* which life of the server this is
  log,    \* events of this life; an event's id is its index
  due,    \* the id each reader is owed next, 0 if it does not follow yet
  heard   \* the last event each reader got, with the life it came from

vars == <<life, log, due, heard>>

Skippable(c, i) == log[i] \notin Wanted[c] \/ i <= Len(log) - Window

Init ==
  /\ life = 1
  /\ log = <<>>
  /\ due = [c \in Client |-> 0]
  /\ heard = [c \in Client |-> None]

Publish ==
  /\ \E e \in Event : log' = Append(log, e)
  /\ UNCHANGED <<life, due, heard>>

(* A reader joins at the end; an event being published may be its first. *)
Follow(c) ==
  /\ heard[c] = None /\ due[c] = 0
  /\ \E i \in {Len(log), Len(log) + 1} \ {0} : due' = [due EXCEPT ![c] = i]
  /\ UNCHANGED <<life, log, heard>>

(* A reader that goes before it heard anything has no place to return to. *)
Leave(c) ==
  /\ heard[c] = None
  /\ due' = [due EXCEPT ![c] = 0]
  /\ UNCHANGED <<life, log, heard>>

Skip(c) ==
  /\ due[c] # 0
  /\ \E i \in due[c] + 1 .. Len(log) + 1 :
       /\ \A j \in due[c] .. i - 1 : Skippable(c, j)
       /\ due' = [due EXCEPT ![c] = i]
  /\ UNCHANGED <<life, log, heard>>

Hand(c, i) ==
  /\ log[i] \in Wanted[c]
  /\ heard' = [heard EXCEPT ![c] = [life |-> life, id |-> i]]
  /\ due' = [due EXCEPT ![c] = i + 1]
  /\ UNCHANGED <<life, log>>

Deliver(c) ==
  /\ due[c] # 0
  /\ \E i \in due[c] .. Len(log) :
       /\ \A j \in due[c] .. i - 1 : Skippable(c, j)
       /\ Hand(c, i)

(* The place a reader remembers is from an earlier life. *)
Resume(c) ==
  /\ heard[c] # None /\ due[c] = 0
  /\ \E i \in 1 .. Len(log) : Hand(c, i)

Restart ==
  /\ life' = life + 1
  /\ log' = <<>>
  /\ due' = [c \in Client |-> 0]
  /\ UNCHANGED heard

Next ==
  \/ Publish
  \/ Restart
  \/ \E c \in Client : Follow(c) \/ Leave(c) \/ Skip(c) \/ Deliver(c) \/ Resume(c)

Spec == Init /\ [][Next]_vars

=============================================================================
