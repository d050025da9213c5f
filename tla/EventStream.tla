----------------------------- MODULE EventStream -----------------------------
(***************************************************************************)
(* The event feed of crates/rs1090-serve: the decoder thread publishing    *)
(* state events (run_decoder in main.rs), the replay ring and the          *)
(* broadcast channel (broadcaster.rs), the handler of GET /stream          *)
(* (server.rs) and a browser's EventSource at the other end.               *)
(*                                                                         *)
(* The decoder publishes an event in three steps that other tasks may see  *)
(* between: it refreshes the shared snapshot, pushes the envelope to the   *)
(* ring, and sends it to the channel.  A handler subscribes to the channel *)
(* first and copies the ring afterwards.                                   *)
(*                                                                         *)
(* Abstractions.                                                           *)
(*  - An event is its kind and its aircraft; identification, position,     *)
(*    velocity and address_recovered are the kind "update".                *)
(*  - An envelope is its id: its event is log[id].                         *)
(*  - What the snapshot says of an aircraft is whether it is there, has a  *)
(*    position, and whether that lies in the area a client may ask for     *)
(*    (bbox, radius and altitude are one predicate).                       *)
(*  - The bytes under way to a client are the queue wire, of bounded size; *)
(*    a lost connection loses them.                                        *)
(***************************************************************************)
EXTENDS Integers, Sequences, FiniteSets

CONSTANTS
  Client,             \* SSE clients
  Icao,               \* addresses
  Filter,             \* Filter[c]: the query parameters of client c
  ReplayCapacity,     \* envelopes in the replay ring
  BroadcastCapacity,  \* envelopes retained by the broadcast channel
  WireCapacity,       \* envelopes between a handler and its client
  MaxEvents,          \* bound on the ids given out in one life
  MaxLives,           \* bound on the lives of the server
  None                \* stands for Rust's None

Kind == {"acquired", "update", "lost"}

Event == [kind : Kind, icao : Icao]

Id == 1 .. MaxEvents

Mark == [life : 1 .. MaxLives, id : Id]

Connection ==
  [stage : {"subscribed", "streaming"}, cursor : Nat, replay : Seq(Id),
   maxEmitted : Nat, wire : Seq(Id)]

ASSUME EventStreamAssumption ==
  /\ ReplayCapacity \in Nat \ {0}
  /\ BroadcastCapacity \in Nat \ {0}
  /\ WireCapacity \in Nat \ {0}
  /\ MaxEvents \in Nat
  /\ MaxLives \in Nat \ {0}
  /\ Filter \in [Client -> [kinds : SUBSET Kind, icaos : SUBSET Icao, area : BOOLEAN]]
  /\ None \notin Mark \cup Connection

VARIABLES
  life,   \* lives of the server so far
  place,  \* the snapshot: where each aircraft is, or that it is not tracked
  log,    \* envelopes made in this life, by id
  ring,   \* ids in the replay ring, oldest first
  sent,   \* ids sent to the broadcast channel
  step,   \* which step of publishing the decoder takes next
  conn,   \* the handler's side of each connection
  last    \* the id each client would resume from, with its life

server == <<life, place, log, ring, sent, step>>
vars == <<life, place, log, ring, sent, step, conn, last>>

Place == {"absent", "nowhere", "inside", "outside"}

-----------------------------------------------------------------------------
(* The decoder thread *)

(* Mutant: the channel before the ring. *)
StepsSwapped == <<"refresh", "send", "push">>

(* The order of run_decoder's event loop. *)
Steps == <<"refresh", "push", "send">>

Turn(s) == Steps[step] = s /\ step' = (step % Len(Steps)) + 1

(* The tracker's events, as they may follow each other. *)
Possible(e, p) ==
  CASE e.kind = "acquired" -> place[e.icao] = "absent" /\ p # "absent"
    [] e.kind = "lost"     -> place[e.icao] # "absent" /\ p = "absent"
    [] e.kind = "update"   -> /\ place[e.icao] # "absent" /\ p # "absent"
                              /\ p = "nowhere" => place[e.icao] = "nowhere"

(* update_snapshot, and the envelope gets its id. *)
Refresh ==
  /\ Turn("refresh")
  /\ Len(log) < MaxEvents
  /\ \E e \in Event, p \in Place :
       /\ Possible(e, p)
       /\ place' = [place EXCEPT ![e.icao] = p]
       /\ log' = Append(log, e)
  /\ UNCHANGED <<life, ring, sent, conn, last>>

(* push_replay *)
Pushed(id) ==
  Append(IF Len(ring) >= ReplayCapacity THEN Tail(ring) ELSE ring, id)

Push ==
  /\ Turn("push")
  /\ ring' = Pushed(Len(log))
  /\ UNCHANGED <<life, place, log, sent, conn, last>>

(* broadcast::Sender::send *)
Send ==
  /\ Turn("send")
  /\ sent' = Len(log)
  /\ UNCHANGED <<life, place, log, ring, conn, last>>

-----------------------------------------------------------------------------
(* The handler of GET /stream *)

(* The oldest id the channel still holds. *)
Oldest == IF sent > BroadcastCapacity THEN sent - BroadcastCapacity + 1 ELSE 1

(* A receiver starts behind everything sent. *)
Connect(c) ==
  /\ conn[c] = None
  /\ conn' = [conn EXCEPT ![c] =
       [stage |-> "subscribed", cursor |-> sent + 1, replay |-> <<>>, maxEmitted |-> 0,
        wire |-> <<>>]]
  /\ UNCHANGED <<server, last>>

(* replay_after: the filter, entry by entry (SelectSeq is opaque to the provers). *)
ReplayAfter(id) ==
  LET kept[n \in 0 .. Len(ring)] ==
        IF n = 0 THEN <<>>
        ELSE IF ring[n] > id THEN Append(kept[n - 1], ring[n]) ELSE kept[n - 1]
  IN  kept[Len(ring)]

(* The ring is copied once, after the subscription. *)
CopyRing(c) ==
  /\ conn[c] # None
  /\ conn[c].stage = "subscribed"
  /\ conn' = [conn EXCEPT
       ![c].stage = "streaming",
       ![c].replay = IF last[c] = None THEN <<>> ELSE ReplayAfter(last[c].id),
       ![c].maxEmitted = IF last[c] = None THEN 0 ELSE last[c].id]
  /\ UNCHANGED <<server, last>>

(* Mutant: the filters see an event again when the channel repeats it. *)
SeenBefore(c, id) == id < conn[c].maxEmitted

Seen(c, id) == id <= conn[c].maxEmitted

(* The area is that of the aircraft now, not of the event. *)
Passes(c, e) ==
  /\ e.kind \in Filter[c].kinds
  /\ e.icao \in Filter[c].icaos
  /\ Filter[c].area => place[e.icao] = "inside"

(* The connection k of client c after its filter_map closure took id. *)
Taken(c, k, id) ==
  IF Seen(c, id) THEN k
  ELSE IF Passes(c, log[id])
       THEN [k EXCEPT !.maxEmitted = id, !.wire = Append(@, id)]
       ELSE [k EXCEPT !.maxEmitted = id]

Ready(c) ==
  /\ conn[c] # None
  /\ conn[c].stage = "streaming"
  /\ Len(conn[c].wire) < WireCapacity

(* The replay comes first. *)
ForwardReplay(c) ==
  /\ Ready(c)
  /\ conn[c].replay # <<>>
  /\ conn' = [conn EXCEPT ![c] =
       Taken(c, [conn[c] EXCEPT !.replay = Tail(@)], Head(conn[c].replay))]
  /\ UNCHANGED <<server, last>>

(* Then the channel, as long as the receiver has not been overtaken. *)
ForwardLive(c) ==
  /\ Ready(c)
  /\ conn[c].replay = <<>>
  /\ conn[c].cursor \in Oldest .. sent
  /\ conn' = [conn EXCEPT ![c] =
       Taken(c, [conn[c] EXCEPT !.cursor = @ + 1], conn[c].cursor)]
  /\ UNCHANGED <<server, last>>

(* A receiver that was overtaken gets Lagged, which the closure swallows, *)
(* and goes on with the oldest envelope still there.                      *)
Lag(c) ==
  /\ Ready(c)
  /\ conn[c].replay = <<>>
  /\ conn[c].cursor < Oldest
  /\ conn' = [conn EXCEPT ![c].cursor = Oldest]
  /\ UNCHANGED <<server, last>>

-----------------------------------------------------------------------------
(* The client and the world *)

(* EventSource remembers the id of what it dispatched last. *)
Receive(c) ==
  /\ conn[c] # None
  /\ conn[c].wire # <<>>
  /\ last' = [last EXCEPT ![c] = [life |-> life, id |-> Head(conn[c].wire)]]
  /\ conn' = [conn EXCEPT ![c].wire = Tail(@)]
  /\ UNCHANGED server

Disconnect(c) ==
  /\ conn[c] # None
  /\ conn' = [conn EXCEPT ![c] = None]
  /\ UNCHANGED <<server, last>>

(* The process ends and is started again; nothing of it is kept. *)
Restart ==
  /\ life < MaxLives
  /\ life' = life + 1
  /\ place' = [a \in Icao |-> "absent"]
  /\ log' = <<>>
  /\ ring' = <<>>
  /\ sent' = 0
  /\ step' = 1
  /\ conn' = [c \in Client |-> None]
  /\ UNCHANGED last

Init ==
  /\ life = 1
  /\ place = [a \in Icao |-> "absent"]
  /\ log = <<>>
  /\ ring = <<>>
  /\ sent = 0
  /\ step = 1
  /\ conn = [c \in Client |-> None]
  /\ last = [c \in Client |-> None]

Decode == Refresh \/ Push \/ Send

Handle(c) ==
  Connect(c) \/ CopyRing(c) \/ ForwardReplay(c) \/ ForwardLive(c) \/ Lag(c)

Next ==
  \/ Decode
  \/ Restart
  \/ \E c \in Client : Handle(c) \/ Receive(c) \/ Disconnect(c)

Spec == Init /\ [][Next]_vars

-----------------------------------------------------------------------------
(* Properties *)

(* What a client has got and what is under way to it ascend: no id twice and  *)
(* none out of order, although replay and channel overlap ("max_emitted       *)
(* dedupes the overlap", server.rs) and connections come and go.              *)
InOrder ==
  \A c \in Client :
     conn[c] # None =>
       LET w == conn[c].wire IN
       /\ \A i, j \in 1 .. Len(w) : i < j => w[i] < w[j]
       /\ (last[c] # None /\ w # <<>>) => last[c].id < w[1]

(* The clients without an area, and what their other filters let through. *)
Follower == {c \in Client : ~ Filter[c].area}

WantedBy ==
  [c \in Follower |-> {e \in Event : e.kind \in Filter[c].kinds /\ e.icao \in Filter[c].icaos}]

Retained == IF ReplayCapacity < BroadcastCapacity THEN ReplayCapacity ELSE BroadcastCapacity

(* The event a client is owed: the one behind its mark; before it has a mark, *)
(* the first one under way, or the one its receiver is at.                    *)
Due(c) ==
  IF last[c] # None
  THEN IF last[c].life = life THEN last[c].id + 1 ELSE 0
  ELSE IF conn[c] = None THEN 0
       ELSE IF conn[c].wire # <<>> THEN Head(conn[c].wire) ELSE conn[c].cursor

Promise == INSTANCE ResumableLog WITH
  Client <- Follower, Wanted <- WantedBy, Window <- Retained,
  due <- [c \in Follower |-> Due(c)], heard <- [c \in Follower |-> last[c]]

(* "Together those guarantee no event is missed" (server.rs): through any     *)
(* number of disconnections a client reads the log of events in order, and    *)
(* passes over an event only if its filters exclude it or if the event is     *)
(* further behind than the ring and the channel reach.                        *)
DeliversLog == Promise!Spec

-----------------------------------------------------------------------------
(* Statements of the documentation that the code does not keep *)

Step(c) == conn[c] # None /\ conn'[c] # None

(* The step of a handler that takes id from the channel. *)
TakesLive(c, id) ==
  /\ Step(c)
  /\ conn[c].cursor = id /\ id \in Oldest .. sent
  /\ conn'[c].cursor = id + 1

(* "then continue with the live stream from where the subscriber attached"    *)
(* (server.rs:295): a resumed client to which nothing of this life was sent   *)
(* yet is sent the first live event that its filters let through.             *)
ContinuesLive ==
  [][\A c \in Client, id \in Id :
        /\ TakesLive(c, id)
        /\ last[c] # None /\ last[c].life < life
        /\ conn[c].wire = <<>> /\ conn[c].maxEmitted = last[c].id
        /\ Passes(c, log[id])
        => conn'[c].wire # <<>>]_vars

(* "bbox + altitude apply to the *aircraft* the event refers to, not the      *)
(* event itself: a velocity event for an aircraft whose last position is      *)
(* inside the box passes" (server.rs:360): the loss of an aircraft passes, if *)
(* the event right before it was about that aircraft and passed.              *)
LossInAreaPasses ==
  [][\A c \in Client, id \in Id :
        /\ TakesLive(c, id)
        /\ last[c] = [life |-> life, id |-> id - 1]
        /\ log[id].kind = "lost" /\ log[id - 1].icao = log[id].icao
        => conn'[c].wire # <<>>]_vars

=============================================================================
