-------------------------------- MODULE Feeds --------------------------------
(***************************************************************************)
(* The two feeds of raw frames (avr.rs and beast.rs in rs1090-serve): one  *)
(* task per client takes frames from the broadcast channel and writes them *)
(* to its socket, as lines of hexadecimal digits or in the Beast format.   *)
(*                                                                         *)
(* The channel keeps the latest Capacity frames; a task that falls behind  *)
(* is told so and goes on with the oldest one kept.  It is never closed    *)
(* while the listeners run, because their AppState holds a sender.         *)
(* Time is counted in the 12 MHz ticks of the Beast format since t0, and   *)
(* stays far below the 2^48 at which the counter starts again.             *)
(***************************************************************************)
EXTENDS Integers, SequencesExt

CONSTANTS
  Client,     \* connections
  Beast,      \* those to the Beast port; the others are to the AVR port
  Frames,     \* frames of the detector: [bytes, outcome, confidence]
  Capacity,   \* DEFAULT_BROADCAST_CAPACITY
  Pieces,     \* how many bytes a socket may take at once
  Ticks,      \* how far the clock may move on
  MaxFrames,  \* bound on the frames sent
  MaxTime     \* bound on the clock; four bytes of the six

ASSUME FeedsAssumption ==
  /\ Beast \subseteq Client
  /\ \A f \in Frames : f.bytes \in Seq(0..255) /\ Len(f.bytes) \in {7, 14} /\ f.confidence \in 0..255
  /\ {Capacity, MaxFrames} \subseteq Nat \ {0}
  /\ Pieces \cup Ticks \subseteq Nat \ {0}
  /\ MaxTime \in Nat /\ MaxTime \div 256^3 < 256

VARIABLES
  time,    \* t0.elapsed(), in ticks
  sent,    \* frames sent into the channel: [frame, at]
  client,  \* a client's end: "away", "reading", "stalled" or "gone"
  task,    \* its task: "none", "receiving" or "writing"
  since,   \* the frame it was subscribed at: its number
  next,    \* the task's receiver: the number of the frame that is next
  buf,     \* what it has still to write
  wire,    \* what has arrived at the client
  owed     \* frames the client was, or is being, sent: their numbers

feedVars == <<time, sent, client, task, since, next, buf, wire, owed>>

Valid(f) == f.outcome \in {"Clean", "Corrected"}

-----------------------------------------------------------------------------
(* Formats *)

Esc == 26

(* Mutant: a byte that looks like the start of a message is sent as it is. *)
AsTheyAre(bytes) == bytes

push_escaped(bytes) == FlattenSeq([i \in DOMAIN bytes |-> IF bytes[i] = Esc THEN <<Esc, Esc>> ELSE <<bytes[i]>>])

mlat_timestamp(t) == [i \in 1..6 |-> IF i < 3 THEN 0 ELSE (t \div 256^(6 - i)) % 256]

encode_beast_frame(f) ==
  LET mode == IF Len(f.bytes) = 7 THEN 50 ELSE 51
  IN  <<Esc>> \o push_escaped(<<mode>> \o mlat_timestamp(time) \o <<f.confidence>>) \o push_escaped(f.bytes)

Digit(d) == IF d < 10 THEN 48 + d ELSE 55 + d

(* A star, two digits for each byte, a semicolon and the end of the line. *)
Line(f) ==
  <<42>> \o FlattenSeq([i \in DOMAIN f.bytes |-> <<Digit(f.bytes[i] \div 16), Digit(f.bytes[i] % 16)>>]) \o <<59, 13, 10>>

Written(c, f) == IF c \in Beast THEN encode_beast_frame(f) ELSE Line(f)

-----------------------------------------------------------------------------
(* What a client makes of the bytes *)

Fresh == [messages |-> <<>>, open |-> <<>>, escaped |-> FALSE]

(* A client of the Beast port: a lone escape byte starts a message, and the mode tells its length. *)
BeastByte(r, b) ==
  LET grown == Append(r.open, b)
      whole == IF grown[1] = 50 THEN 15 ELSE 22
  IN  CASE r.escaped /\ b # Esc -> [r EXCEPT !.open = <<b>>, !.escaped = FALSE]
        [] ~ r.escaped /\ b = Esc -> [r EXCEPT !.escaped = TRUE]
        [] OTHER -> IF Len(grown) = whole
                    THEN [messages |-> Append(r.messages, grown), open |-> <<>>, escaped |-> FALSE]
                    ELSE [r EXCEPT !.open = grown, !.escaped = FALSE]

(* A client of the AVR port: what is between a star and a semicolon. *)
AvrByte(r, b) ==
  CASE b = 42 -> [r EXCEPT !.open = <<>>]
    [] b = 59 -> [r EXCEPT !.messages = Append(@, r.open)]
    [] b \in {10, 13} -> r
    [] OTHER -> [r EXCEPT !.open = Append(@, IF b < 58 THEN b - 48 ELSE b - 55)]

Take(c, r, b) == IF c \in Beast THEN BeastByte(r, b) ELSE AvrByte(r, b)

Messages(c) ==
  LET read[i \in 0..Len(wire[c])] == IF i = 0 THEN Fresh ELSE Take(c, read[i - 1], wire[c][i])
  IN  read[Len(wire[c])].messages

-----------------------------------------------------------------------------
(* The channel and the tasks *)

Oldest == Max({1, Len(sent) - Capacity + 1})

(* run_decoder sends every frame, whatever its checksum says. *)
Send(f) ==
  /\ Len(sent) < MaxFrames
  /\ sent' = Append(sent, [frame |-> f, at |-> time])
  /\ UNCHANGED <<time, client, task, next, buf, wire, owed, since>>

Elapse(t) ==
  /\ time + t <= MaxTime
  /\ time' = time + t
  /\ UNCHANGED <<sent, client, task, next, buf, wire, owed, since>>

Accept(c) ==
  /\ client[c] = "away" /\ task[c] = "none"
  /\ client' = [client EXCEPT ![c] = "reading"]
  /\ task' = [task EXCEPT ![c] = "receiving"]
  /\ since' = [since EXCEPT ![c] = Len(sent) + 1]
  /\ next' = [next EXCEPT ![c] = Len(sent) + 1]
  /\ UNCHANGED <<time, sent, buf, wire, owed>>

(* A frame that failed its check is passed over. *)
Receive(c) ==
  LET f == sent[next[c]].frame
  IN  /\ task[c] = "receiving" /\ next[c] \in Oldest..Len(sent)
      /\ next' = [next EXCEPT ![c] = @ + 1]
      /\ IF Valid(f)
         THEN /\ buf' = [buf EXCEPT ![c] = Written(c, f)]
              /\ owed' = [owed EXCEPT ![c] = Append(@, next[c])]
              /\ task' = [task EXCEPT ![c] = "writing"]
         ELSE UNCHANGED <<buf, owed, task>>
      /\ UNCHANGED <<time, sent, client, wire, since>>

(* Mutants: the task ends, or clears the whole backlog. *)
EndTask == "none"
AtTheEnd == Len(sent) + 1

AfterLag == "receiving"
Resumed == Oldest

Lagged(c) ==
  /\ task[c] = "receiving" /\ next[c] < Oldest
  /\ next' = [next EXCEPT ![c] = Resumed]
  /\ task' = [task EXCEPT ![c] = AfterLag]
  /\ UNCHANGED <<time, sent, client, buf, wire, owed, since>>

AfterWrite(rest) == IF rest = <<>> THEN "receiving" ELSE "writing"

(* write_all, as far as the socket has room. *)
Write(c, n) ==
  LET taken == Min({n, Len(buf[c])})
      rest == SubSeq(buf[c], taken + 1, Len(buf[c]))
  IN  /\ task[c] = "writing" /\ client[c] = "reading"
      /\ wire' = [wire EXCEPT ![c] = @ \o SubSeq(buf[c], 1, taken)]
      /\ buf' = [buf EXCEPT ![c] = rest]
      /\ task' = [task EXCEPT ![c] = AfterWrite(rest)]
      /\ UNCHANGED <<time, sent, client, next, owed, since>>

(* The task learns that its client has gone when it writes. *)
WriteFails(c) ==
  /\ task[c] = "writing" /\ client[c] = "gone"
  /\ task' = [task EXCEPT ![c] = "none"]
  /\ buf' = [buf EXCEPT ![c] = <<>>]
  /\ UNCHANGED <<time, sent, client, next, wire, owed, since>>

Stall(c) ==
  /\ client[c] = "reading"
  /\ client' = [client EXCEPT ![c] = "stalled"]
  /\ UNCHANGED <<time, sent, task, next, buf, wire, owed, since>>

ReadOn(c) ==
  /\ client[c] = "stalled"
  /\ client' = [client EXCEPT ![c] = "reading"]
  /\ UNCHANGED <<time, sent, task, next, buf, wire, owed, since>>

Leave(c) ==
  /\ client[c] \in {"reading", "stalled"}
  /\ client' = [client EXCEPT ![c] = "gone"]
  /\ UNCHANGED <<time, sent, task, next, buf, wire, owed, since>>

FeedInit ==
  /\ time = 0 /\ sent = <<>>
  /\ client = [c \in Client |-> "away"] /\ task = [c \in Client |-> "none"]
  /\ since = [c \in Client |-> 1] /\ next = [c \in Client |-> 1]
  /\ buf = [c \in Client |-> <<>>] /\ wire = [c \in Client |-> <<>>]
  /\ owed = [c \in Client |-> <<>>]

Step(c) ==
  \/ Receive(c) \/ Lagged(c) \/ WriteFails(c)
  \/ \E n \in Pieces : Write(c, n)

FeedNext ==
  \/ \E f \in Frames : Send(f)
  \/ \E t \in Ticks : Elapse(t)
  \/ \E c \in Client : Step(c) \/ Accept(c) \/ Stall(c) \/ ReadOn(c) \/ Leave(c)

(* The runtime polls every task; nothing makes a client read, come or go. *)
FeedFairness == \A c \in Client : WF_feedVars(Step(c))

-----------------------------------------------------------------------------
Payload(c, m) ==
  IF c \in Beast THEN SubSeq(m, 9, Len(m)) ELSE [i \in 1..Len(m) \div 2 |-> 16 * m[2 * i - 1] + m[2 * i]]

(* What the bytes after the mode make in ticks. *)
Stamp(m) == LET sum[i \in 1..7] == IF i = 1 THEN 0 ELSE 256 * sum[i - 1] + m[i] IN  sum[7]

-----------------------------------------------------------------------------
(* Properties *)

(* Whatever bytes the frames and their headers are made of, and wherever the  *)
(* socket cuts, what a client reads are the frames its task took, whole; and  *)
(* the stamps of a Beast client, "stable and monotonically increasing within  *)
(* a session" (beast.rs:28), never decrease and none is earlier than its      *)
(* frame.                                                                     *)
ReaderRecovers ==
  \A c \in Client :
    LET messages == Messages(c)
        read == [k \in DOMAIN messages |-> Payload(c, messages[k])]
        stamp == [k \in DOMAIN messages |-> Stamp(messages[k])]
    IN  /\ IsPrefix(read, [k \in DOMAIN owed[c] |-> sent[owed[c][k]].frame.bytes])
        /\ task[c] = "receiving" => Len(read) = Len(owed[c])
        /\ c \in Beast => /\ \A k \in DOMAIN stamp : stamp[k] \in sent[owed[c][k]].at..time
                          /\ \A k \in 1..Len(stamp) - 1 : stamp[k] <= stamp[k + 1]

(* A client that lags loses frames without a word.  It loses only what the    *)
(* channel no longer keeps, and gets the rest once and in order.              *)
LagOnlySkips ==
  \A c \in Client :
    /\ \A k \in 1..Len(owed[c]) - 1 : owed[c][k] < owed[c][k + 1]
    /\ \A n \in since[c]..next[c] - 1 :
         Valid(sent[n].frame) /\ n > Len(sent) - Capacity => \E k \in DOMAIN owed[c] : owed[c][k] = n

(* A client that goes on reading is sent whatever it lags behind, though      *)
(* other clients stall or leave.                                              *)
FeedsCatchUp ==
  \A c \in Client :
    client[c] = "reading" ~> (client[c] # "reading" \/ (task[c] = "receiving" /\ next[c] > Len(sent)))

=============================================================================
