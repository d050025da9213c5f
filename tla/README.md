# rs1090 in TLA+

rs1090 receives Mode S and ADS-B transmissions of aircraft: samples from a radio or a file become
frames, frames become a table of aircraft, and a server publishes the table and its changes over
HTTP, server-sent events, TCP, UDP and Bluetooth. This directory holds TLA+ models of the parts
that keep state, the TLC configurations that check them on small instances, and proofs checked by
TLAPS. Paths below are relative to the repository; `rs1090/` and `serve/` stand for
`crates/rs1090/src/` and `crates/rs1090-serve/src/`.

## 1. Inventory

| component | state | operations | interacts with | hard behaviour | correct when |
|---|---|---|---|---|---|
| aircraft table, `rs1090/state.rs` | LinkedHashMap of aircraft (map and order), capacity, receiver location | `ingest`, `evict_stale`, address recovery, position resolution | called by the decoder loop and the CLI for each frame | order of touches, evictions and recoveries; pairs of position halves that go stale | order, map and capacity agree; early exits miss nobody; halves that are paired belong together; events account for every change |
| decoder loop, `serve/main.rs` `run_decoder` | samples consumed, virtual clock, next event id, reused event buffer | read a chunk, detect frames, ingest, publish each event | detector, table, snapshot, replay ring, channel | readers between two steps; a 64-bit product as clock | the snapshot agrees with the table between frames; time does not run backwards |
| snapshot, `serve/broadcaster.rs`, `serve/main.rs` `update_snapshot` | map of summaries under a lock | refresh by event, clone by readers | decoder; `/aircraft`, filters, GDL90, BLE | what changes without an event; evictions seen half-way | names exactly the tracked aircraft; never above capacity |
| event feed, `serve/broadcaster.rs`, `serve/server.rs` `stream` | replay ring, broadcast channel, per-connection cursor and `max_emitted` | push, send, subscribe, copy ring, forward, resume | decoder; any number of clients | subscribing while publishing; lag; reconnection; restart of the server | ids ascend, nothing in the window is lost or repeated |
| process, `serve/main.rs` `main`, `dist/systemd` | liveness flag, wakeup permit, exit code | guard, graceful shutdown, exit, restart | decoder thread, HTTP server, systemd | death at any moment, open streams, Ctrl-C | a dead decoder leads to a new process |
| frame detector, `rs1090/frame.rs`, `rs1090/demod_2400.rs` | noise floor, carried samples, known addresses | `process` a chunk | sample source, decoder loop | frames across chunk boundaries, two different walks | each frame found once, whatever the chunks |
| CPR, `rs1090/cpr.rs` | none | global, local and surface decoding | aircraft table | zone edges, bands, poles, date line; flight between the halves; a distant reference | decodes what was encoded, or refuses |
| CRC, `rs1090/crc.rs` | none (tables) | checksum, repair of one or two bits | detector, address recovery | two algorithms and two tables that must agree | believes only what was sent; repairs what it can |
| messages, `rs1090/message.rs` | none | decode the fields of a squitter | table | bit offsets, signs, absent values, non-linear scales | says what the transponder meant, to each field's resolution |
| demodulation, `rs1090/demod.rs`, `rs1090/magnitude.rs` | noise floor | update, score, slice | detector | bits that begin between samples, thresholds on a drifting average, buffers that end within a frame | what stands out is read to the bit, no read behind the buffer, what was not read is carried |
| sources, `rs1090/source.rs` | leftover bytes of a transfer | `read` | decoder loop | short reads, odd byte counts, end against failure | every sample delivered once, end only at the end |
| AVR and Beast feeds, `serve/avr.rs`, `serve/beast.rs` | a receiver of the frame channel per client | forward clean frames | decoder's frame channel | lag, byte stuffing | every frame forwarded once, in order, unless it lagged |
| Bluetooth, `serve/ble.rs` | the latest values, time of last refresh | refresh by event, poll by subscribers | channel, snapshot | rate limit that drops the last event | subscribers end with the current values |
| GDL90, `serve/gdl90.rs` | none but a timer | encode, frame, send | snapshot | byte stuffing, field widths | framing can be undone, fields in range |
| health and reads, `serve/server.rs` | none | clone the snapshot or the flag | snapshot, flag | – | see snapshot and process |
| metrics, configuration, CLI, `serve/metrics.rs`, `serve/config.rs`, `crates/rs1090-cli` | counters; merged options; the CLI's own table | – | – | – | – |
| web pages and iOS application | a client's own table | seed from the snapshot, follow the stream | `/aircraft`, `/stream` | the two answers race | shows the aircraft the server tracks |

The data flows one way. A thread of its own reads samples and calls the detector, the table and
`update_snapshot`, then pushes to the replay ring and sends to the broadcast channel; the tasks of
the tokio runtime read the snapshot and the ring under locks and receive from the channel. The one
signal against this flow is the decoder's death: a drop guard stores a flag and wakes the HTTP server.

The file PROJECT.json lists the components, what is modelled of each, and each hazard at its line.

## 2. The modules

| module | models | extends or instantiates |
|---|---|---|
| Tracker | the aircraft table | – |
| MCTracker | instances; the proofs are in DecoderProofs | Tracker |
| Decoder, MCDecoder, DecoderProofs | the decoder loop and the snapshot, over the table of Tracker; instances; proofs about both | Tracker |
| ResumableLog | abstract: what the feed promises to a client | – |
| EventStream, MCEventStream, EventStreamProofs | publishing, ring, channel, handler, client, restart; instances; proofs | ResumableLog (refinement) |
| Serve | decoder thread, main thread, systemd | – |
| Source, SourceProofs | what the reads of a file or a radio return, within the process; proofs, also about Serve | Serve (also as its refinement) |
| FrameDetector, MCFrameDetector, FrameDetectorProofs | both walks over the samples and the carry | – |
| Crc | checksum, tables, correction | – |
| Message | formats and fields of a frame | – |
| Link, MCLink | one frame from transponder to table, through noise | Crc, Message |
| CrcProofs | proofs about the checksums and about the link | Link |
| Cpr, MCCpr, CprProofs | one aircraft's position from transponder to decoder; instances; proofs | – |
| Demod, MCDemod, DemodProofs | samples of one buffer, noise floor, preambles, bits | Message |
| Feeds | the AVR and Beast tasks and their clients | – |
| Airspace | the snapshot as outputs see it | – |
| Gdl90, Ble | the GDL90 tick; the Bluetooth supervisor and notifiers | Airspace |
| Outputs, MCOutputs, OutputProofs | the optional outputs around the decoder thread; instances; proofs about all four | Feeds, Gdl90, Ble |

### Tracker

`byIcao` is the map and `order` the order of the LinkedHashMap, `out` the events that the call
pushed. A call of `ingest` is one step (`Ingest`): it resolves the address (`Resolve`, with
the scan that stops at the first inactive entry), returns early for an orphan, evicts for a newcomer
when the table is full (`Overflow`, which pops the oldest and then runs the pass over the stale ones),
moves a known aircraft to the back, counts, and applies the payload. `Sweep` is a call of `evict_stale`
from outside, which only the CLI makes at the end of a recording; `Tick` moves the caller's clock.
Many calls may happen between two ticks, because all frames of a chunk carry one instant. Both eviction
loops pop from the front, so they are given by the length of the prefix they drop (`StopsAt`).

Abstracted: altitudes (copied); latitude and longitude (a fix remembers the halves it was computed
from); `cpr::global_decode` (the constant `GlobalDecode` gives its verdict for each pair of encodings:
it decodes, the zones differ, or a latitude is out of range); the syndrome of a frame with a failed CRC
(crc24 of three bytes is a bijection, so the syndrome stands for one address).

### Decoder

Tracker's actions driven by the server: `ReadChunk` moves the virtual clock, `DecodeFrame` ingests,
`Publish` drains one event and refreshes the snapshot (`Refreshed` is `update_snapshot`). Between two
`Publish` steps any reader sees the snapshot. One chunk is one unit of time and the u64 product
`samples_consumed * 1_000_000_000` wraps after `ClockWrap` chunks. The server never calls `evict_stale`.

### EventStream and ResumableLog

The decoder's step variable runs through refresh, push and send in the order of `run_decoder`; a
handler subscribes (`Connect`), copies the ring later (`CopyRing`), forwards the copy and then the
channel through `filter_map` (`Taken`: ids up to `maxEmitted` are dropped, then the filters apply to the
snapshot of that moment). A receiver overtaken by the channel gets `Lagged`, which the closure
swallows (`Lag`). The client remembers the last id it dispatched and resumes with it, across
disconnections and across restarts, where ids begin again. The library's channel is modelled from its
use: it keeps the last `BroadcastCapacity` envelopes and moves an overtaken receiver to the oldest one.

ResumableLog says the same without ring, channel, handler or queue: each reader is owed the next event
(`due`), may pass over what its filter excludes or what is further behind than the window, and nothing
else. `Due` is the refinement mapping: the id behind the client's mark, or, before it has one, what is
first under way. It is stated for clients without a geographic filter, because such a filter looks at
the aircraft at the time of forwarding.

### Serve

The threads' steps, from the decoder's end through the two statements of the guard's `drop`, the wakeup
permit of `Notify`, graceful shutdown (which waits for open streams), the exit code and the unit's
`Restart=on-failure`. A source is a file, whose end disarms the guard, or a radio, whose end is an error.

### Source

Serve lets the decoder end at will; in Source it ends because a read said so. `FileReads` is one turn of the
file's loop, with any number of bytes up to what is asked for; `FileReturns` and `FileErrs` end the call, half
a sample being dropped. `RadioReceives` takes a transfer from the driver's queue, `RadioGoesOn` converts what the
last call left, `RadioEnds` finds the queue closed. `TakeIn` is the loop of `run_decoder` around them, with
`EndOfSource` for a read of nothing. Bytes are numbered, so a sample shows which two made it. `ImplementsServe`
is Serve's whole specification with its fairness. Files are read as signed bytes, transfers as unsigned ones;
the values of the bytes are left out. An empty or odd transfer would make `read` return 0 and end the decoder
although more follows; the driver asks for 32 KiB at a time, and `SourceAssumption` says so.

### FrameDetector

`signal[p]` is what the demodulator makes of the samples at position p of the stream: a clean or a
corrupt squitter, one of low confidence, a surveillance reply, a reserved format or nothing. `Feed`
begins a call of `process` with a chunk of any length; `PassOver`, `Detect` and `Stash` are the walk at
any rate but 2.4 MS/s, with its `break` when a frame is not complete; `PassOver2400`, `Detect2400` and
`Stash2400` are `process_2400` and `run_2400` with the filter of known addresses. All aircraft share one address,
so `heard` is the filter.

Each position also has the magnitude of its sample and the score of the preamble window there. Each turn of
the first walk (`Turns`) takes the sample into the noise floor `acc` and compares the score with it, also the turn
that breaks off for want of samples: the next call resumes at the same position and takes the sample in
again. So a cut may drown a preamble, and with small chunks it does (section 4). The history variable
`drowned` keeps the preambles that were passed over; `Walk` is what one walk that passes over them finds from
each position of the stream to its end, as a recursive function from the end backwards. `OneCall` is what a
single call with everything finds, its own noise floor included. The walk at 2.4 MS/s updates the floor and never reads it, so
there `acc` stays as it is; `NoiseFloor` itself, with its widths, is in Demod.

At 2.4 MS/s a cut does make a difference. A squitter too close to the end of a chunk is deferred to the next, but
the carry resumes behind the longest advance of the call: if a reply that begins within the deferred squitter is
accepted later in the same call, the squitter is not tried again, and one walk over the whole stream would have
found it. So `NoSquitterLost` excuses what a found frame overlaps.

### Crc, Message and Link

Crc and Message are functions; Link gives them frames. A 24-bit word is the set of the weights of its
one bits, so XOR is symmetric difference and a shift moves a set; a frame is the set of the positions
of its one bits. Lengths and polynomial are the real ones. `crc24`, `crc24_bitwise` and
`check_with_depth` keep their names; the linear scans over a syndrome table are `First`, its inverse.
In Message `Bits` and `Bit` are the BitReader, and each `decode_` operator is the function it is named
after. Speeds of surface movement are counted in eighths of a knot; ground velocity stays a pair of
components, of which the code hands on the hypotenuse and the angle.

Link follows one frame at a time. `Transmit` encodes a message as the standard has it: this side is
external, and is written from the meaning of each field rather than by turning the decoder round
(surface movement, for instance, from the widths of its intervals). Where decoder and standard differ it follows
the standard: bit 36 of a velocity is set for a barometric rate, and bit 25 of an airspeed for a true
airspeed; what a heading refers to is no part of that message. Section 4 says what the decoder makes of them.
`Flip` is noise. `Receive` is a detector's reading of the format, slicing and check, then `resolve_icao` and `decode`; it reads as many
bits as the format it sees asks for, so a short frame taken for a long one ends in whatever the receiver
makes of silence. `Over` frees the air. `Active` are the addresses heard within the window of recovery.

### Cpr

An aircraft at a place of a 0.025° grid reports an even and an odd half (`Send`, external: it rounds to the
nearest point of the half's lattice, 2^17 to a zone) and may fly up to two grid steps, about 3 NM, between
them (`Fly`). `Pair` is `try_resolve_position` calling `global_decode`, `Locate` the local decoding of one
half with a receiver, in the air or on the ground. The code's degrees become integers: 360° are
`Circle` = 4 · 60 · 59 · 2^17 units, so each latitude that either half can name, airborne or on the surface,
is a whole number of units, and a longitude is an index among the 2^17 points of each of `zones` zones.
Then `cpr_floor`, `cpr_mod` and the two `wrap_` functions are exact. The code's doubles carry 53 bits
where 31 are needed: the zone indexes come out exact, and a comparison can differ only where a point lies on
the bound itself. The products for 87°, ±90° and 270° are exact; 180° is one rounding low for 39 zones,
where the code answers 179.99999999999997° for -180°. Transponder and decoder use the code's NL table, so
that it is the one of the standard's formula is not checked.

### Demod

Time runs in twelfths of a microsecond, so that bits, pulses and the samples of 2, 2.4 and 3 MS/s all begin at
whole numbers. `Sample` gives a magnitude to each sample of a buffer from the pulses on the air (external);
everything behind it is the code's: `NoiseFloor` (`Track`), the configuration computed from a rate
(`preamble_high_idx`, `samples_for_bits`, `carry_samples`), the two scores of a preamble, slicing by weighted
halves, and at 2.4 MS/s the five patterns of `detect_preamble`, the five slicers with their weights, the
table of offsets (`Slicers`, `Pointer`) and the choice among five phases (`Best`). `PassOver`, `Detect` and
`BreakOff` are the turns of the generic walk, their namesakes with 2400 those of the other. Numbers that
FrameDetector takes as constants are computed here. The additions of the code's noise floor wrap, which no sample
can bring about. A checksum is taken to be right for exactly what was sent or one bit from it; addressed
replies, which need the filter of known addresses, are left to FrameDetector, as are the confidence threshold
and the matched filter that nothing calls.

### Feeds, Airspace, Gdl90, Ble and Outputs

Feeds has one task per client: `Receive` takes a frame from the channel and passes over failed ones, `Lagged`
goes on with the oldest frame kept, `Write` is `write_all` as far as the socket has room. `Messages` is what a
client makes of the bytes on its `wire`, byte by byte (external). The stamp is that of the moment of encoding.

Airspace is the map that GDL90 and Bluetooth read: `Refresh` changes it for an event that is told of only
later (`Tell`). It also holds the casts of the code: rounding halves away from zero, and cutting off towards it.
In Gdl90 a tick is `Beat`, `Identify`, `CopySnapshot` and a `Report` or `Skip` for each aircraft of the copy,
in any order, where each send may fail; the datagrams are bytes, with the checksum by table. A word of the checksum
is the set of the weights of its one bits, as in Crc, and the receiver's checksum (external) divides bit by bit. In Ble `PassOver` and
`TakeUp` are the two ends of the supervisor's `recv`, `Derive` and `Publish` the reading of the snapshot and the
writing of the values, `Age` the end of the 250 ms, and `Poll` and `NotifyFails` a subscriber's task.

Outputs puts them around one decoder thread. They only read, and none reads another, so in each behaviour one
kind is switched on. Latitude and longitude are whole 65536ths of a degree, so that the products fit TLC's
integers; the values chosen are the limits of each field and values on both sides of zero.

## 3. Runs

Every bound is a constant of the configuration.

| run | question | bounds, and why they are enough |
|---|---|---|
| MCTracker_table | Do order, map, scan, eviction, events, stored halves and fixes agree? | three addresses for two places, so each insertion into a full table evicts; windows 1, 2, 3 and times to 4, so each window has an inside, an edge and an outside; five frames; every parity and zone for one aircraft; with a receiver location, so local fixes happen |
| MCDecoder_publish | What may a reader of the snapshot see, and do the events tell one story per aircraft? | three addresses, two places, four frames of any kind, three chunks, no wrap |
| MCEventStream_resume | Do ring, channel and handler implement ResumableLog, with ascending ids? | capacities of two, six events and two lives: the ring turns over, the receiver lags and the client resumes inside, at the edge of and beyond the window; its filter excludes one kind |
| Source_process | Do the reads of a file and a radio tear no sample and end only at the end, and does a dead decoder lead to a new process, with exit code 0 only Ctrl-C's? | two clients; files of 0, 1 and 7 bytes (none, half a sample, a half sample too many) in pieces of every size; transfers of one and four samples for a caller with room for three and a scratch of two, so a transfer takes one call or two and a file's reads are held to less than the caller's room; up to five samples from the radio |
| MCFrameDetector_chunks | Does it matter how the stream is cut? | something at one or two of ten positions, or two squitters and a reply that may overlap; a stream of 17 samples, every cut; frames of 4 and 8 samples, lookahead 5 and 9, carry 9, so that a frame lies in one chunk or straddles two; a noise floor over 4 samples, threshold of twice the floor, pulses of eight times the noise that score 11: in one call every preamble clears it, and with chunks of one sample it drowns at the fifth intake |
| MCLink_frames | Is what the receiver believes what the transponder meant, with noise and without? | the altitudes with each bit alone set and alone clear and all patterns around the Q bit, both sides of each step of the movement scale, extremes of each component, four callsigns; every one or two flipped bits of a position squitter, an all-call reply and of replies of each format; interrogator codes of none, one and two bits; two active addresses and one silent one a bit away; depths 1 and 2 |
| MCCpr_positions | Is the decoded position the reported one, and is only a transition refused? | both hemispheres and both sides of each of the 58 ends of bands, of some edges of even and odd zones, the equator, the poles; the date line, Greenwich and two other longitudes; moves of two steps each way; receivers at the place, a quarter of half a zone away, just inside and just beyond half a zone; state space complete |
| MCDemod_samples | Is what stands out of the noise read to the bit, and what is cut off kept for the next call? | 2, 2.4 and 3 MS/s; frames of both lengths with each context of three bits at each place of a byte; starts at each twelfth of a microsecond over half a microsecond, which is each way the samples may fall; a second frame half a bit or a bit behind; buffers that end 40 samples before the end of the frame and 8 behind it; two noise levels, two strengths, noise floors of 0 and above the noise, up to 30 samples of noise |
| MCOutputs_streams | Does each consumer of an output decode what was sent to it, and catch up? | two clients of the two ports, two frames of three with escape bytes at their ends, in pairs and before a mode, a channel of one, writes that cut within a message; two aircraft, five looks at the limits of the fields; a heartbeat before and one after 18:12:16 with flag and escape in their bytes; a channel of one event and one subscription |

`TypeOK` of Tracker is a type invariant that a run checks; those of Serve, FrameDetector and EventStream are proved (section 5),
and the other modules have none: what they would say, TLC finds by evaluating the rest. The other properties are:

- `TableWellFormed`, `Sorted`: the order lists the tracked aircraft once each, by `last_seen`.
  `ScanComplete`: given that, the recovery scan finds exactly the active aircraft. `LostAreOldest`,
  `SweepIsComplete`: an eviction drops the oldest, and all that are stale. `EventsMirrorTable`: lost and
  acquired events account for each change. `StoredPairDecodes`, `FixIsCurrent`: stored halves pair, and
  no fix is computed from a half older than it may be.
- `SnapshotInStep`, `SnapshotBounded`, `EventsTellLives`: snapshot and table agree between frames on
  what the events announce, the snapshot never holds more than the table may, and an aircraft is
  acquired, updated and lost in that order. The last is what EventStream assumes of its events.
- `InOrder`, and the refinement `DeliversLog`.
- `SamplesAligned`: the samples handed on are the stream's bytes in pairs, none torn, lost or repeated, to the
  last whole one of a file. `ZeroMeansEnd`: a read of nothing comes only at the end. `ImplementsServe`: the
  refinement of Serve. `ZeroOnlyByInterrupt`, `DeathIsFollowedByRestart`: of Serve, checked within Source.
- `SplitsDoNotMatter`: the frames found are those of one walk over the whole stream that passes over the same
  drowned preambles, so that carry and positions lose none, repeat none and invent none.
  `AmpleChunks`: in chunks as long as a long frame they are those of a single call, noise floor included; this is for
  preambles with a margin, here one more intake of a pulse.
  `NoSquitterLost` for 2.4 MS/s. That the carry reaches back to where the first walk stopped is proved and not run.
- `NeverMistaken`: what is believed is what was meant, as long as noise, interrogator code and repair
  together stay below the six bits in which two clean frames of these lengths differ. `ErrorsUndone`:
  as many errors as the depth allows are repaired if the format was read right. `RepliesAttributed`: with errors in
  its parity alone a reply is credited to the active aircraft whose address the parity shows, or to nobody; noise
  may spell an active neighbour's address, and then it is the neighbour's, but the address zero is never credited.
  Of a reply hit before its parity nothing is claimed: it may spell any address. `TableIsBitwise`.
- `GlobalRight`: a position from two halves is the exact point of the later one, up to whole turns of
  longitude. `RefusedAtTransitions`: halves of one aircraft are refused only if their latitudes have
  different numbers of zones, and never as out of range. `LocalRight`: with a receiver less than half a
  zone away, a position from one half is the exact point reported.
- `FloorWithinSamples`: the truncating average stays between the least and the largest sample.
  `LoudIsRead`: transmissions that stand out are read to the bit, once and in order, and nothing else is
  believed. `UnreadIsCarried`: what was not read for want of samples fits into the carry. `ReadsInside`: the room
  estimated for a payload covers each read of each slicer.
- `ReaderRecovers`: a client that undoes the format finds the frames its task took, with stamps that ascend.
  `LagOnlySkips`: what a client misses had left the channel. `FeedsCatchUp`: a client that reads catches up.
- `DatagramsTell`: a receiver of any datagram finds it intact, and its fields tell the aircraft as they were when
  the snapshot was copied. `EachIsReported`: a tick that no send broke off reports each aircraft with a position once.
- `StaleOnlyByLimit`: once the events are taken up, the published values are those of the snapshot, unless an event
  was passed over since. `ClientsSettle`: when the aircraft change no more and events go on, clients end with them.

Deadlock is checked except where the system stops: a process that was stopped stays stopped, and the
bounded streams of Decoder, FrameDetector, Demod, Source and Feeds end, and so does a behaviour of Cpr with its answer.

Fairness is assumed in Serve, Source and Outputs. In Serve: weak fairness of the guard's statements, of the main thread's steps
and of systemd. They run on threads of the operating system or as tasks the tokio runtime polls, and no
step of theirs waits for a lock held elsewhere. Nothing makes a decoder fail, a client leave or an
operator act; `DeathIsFollowedByRestart` says in its premise that the clients leave again and again.
Source adds weak fairness of the reads that need not wait for the radio. Outputs assumes it of each client's task, of
the GDL90 task with its timer, of the Bluetooth supervisor, its clock and each notifying task; nothing makes a
client come, read or go, and `ClientsSettle` has in its premise that events go on, because no timer repeats a
refresh that the limit suppressed.

## 4. Where code and documentation disagree

Each of these runs states what a comment or document says and TLC finds it violated. PROJECT.json quotes the lines.

| run | what the code does |
|---|---|
| MCDecoder_Sorted | the clock's product wraps after 2^64 / 10^9 samples (2 h 34 min at 2 MS/s), the table is no longer ordered |
| MCEventStream_ContinuesLive | after a restart a resuming client is sent nothing until the new ids pass its old one |
| MCEventStream_LossInAreaPasses | the lost event does not pass a geographic filter, since the snapshot has dropped the aircraft by then |

Further disagreements met while modelling, without a run of their own. The properties of the passing runs leave out what
these are about, and only that.

- A chunk of samples may not be "of any length" (`rs1090/frame.rs:378`), and a preamble that straddles a boundary may be
  lost (`:253-254`). A call of the generic walk that breaks off at a preamble has taken its pulse into the noise floor
  (`:440`, `:469`), the next call resumes there and takes it in again, and with small chunks the threshold passes the
  score. `SplitsDoNotMatter` passes over what drowned so, and `AmpleChunks` has in its premise that no chunk was shorter
  than a long frame; without that premise TLC finds it violated by one squitter in noise. The model's noise floor is small
  so that few calls suffice. With the code's own, an average over 128 samples and sixteen times
  the floor as threshold, a calculation outside the project gives these figures at 2 MS/s, in chunks of equal
  length: the detector's own test signal, pulses of 120 over noise of 5 with the floor seeded at 5
  (`rs1090/frame.rs:738-745`), is lost in chunks of up to 4 samples, pulses of 60 over the same noise up to 6, and
  pulses of 60 over noise of 8 up to about 60. A source's reads of thousands of samples break off at a
  preamble once per chunk at most, where only a borderline one can drown.
- Bit 36 of a velocity, the source of the vertical rate, is read the wrong way round (`rs1090/message.rs:714`): in
  the standard 0 is GNSS and 1 barometric. The layout comment at `:708` has it reversed as the decoder has, so a test
  written from it would agree; every `vertical_rate_source` reported is the other one, against `:281`.
- Bit 25 of an airspeed tells indicated from true airspeed, as `rs1090/message.rs:704` says, and the decoder takes it for
  the reference of the heading (`:769`, `:786`): a heading beside an indicated airspeed is called magnetic whatever it
  is, against `serve/events.rs:130`. `NeverMistaken` compares neither this nor the source of a rate.
- The second of the day in a GDL90 heartbeat needs 17 bits and 16 are sent, so the clock is wrong from 18:12:16 UTC to
  midnight and not for "a single bad heartbeat" (`serve/gdl90.rs:174-176`). `DatagramsTell` reads 16 bits.
- A Bluetooth event within 250 ms of a refresh is dropped and no timer makes up for it, so the last change before a
  silence is not published, against the cadence of `serve/ble.rs:25-28`. `StaleOnlyByLimit` excuses an event passed over.
- An altitude of -25 ft or below is published over Bluetooth as unknown (`serve/ble.rs:271`), and those just below zero as
  zero, against `serve/ble.rs:15`. `StaleOnlyByLimit` takes them so.
- A lagging AVR client does not have its backlog cleared (`serve/avr.rs:67`), it goes on with the oldest frame kept.
  `LagOnlySkips` asks that it be given what the channel still keeps.

Process and detector: one open stream keeps
the process of a dead decoder up, because graceful shutdown waits for it and a stream ends only with its client,
against "the server should exit too" (`serve/main.rs:336-339`); at 2.4 MS/s a frame in the last 320 samples of a
chunk is found again in the next, because `run_2400` reports a frame's length as consumed and not the position
behind it (`rs1090/frame.rs:557`), against "the callback fires once" (`rs1090/frame.rs:251`).

GDL90: the flags `i`, `w`, `t` of `serve/gdl90.rs:278` do not make
`0b1001`; the ForeFlight payload has 37 bytes behind the sub-id's header and not 38 (`serve/gdl90.rs:203`); the direction is sent
as a true track although it may be a heading; a longitude just below 180° rounds to -180°.
Bluetooth: before the first event `nearest` is empty and not 15 bytes.
Beast: the counter rolls over after 271 days and not 7.4 hours (`serve/beast.rs:135`), and tells the time of encoding;
the frame channel also carries frames whose checksum failed, against `serve/broadcaster.rs:59`, and each task filters them.
Demodulation: the threshold of the generic walk is more than seven times the floor in practice, not four
(`rs1090/demod.rs:377`); at 2 MS/s a transmission half a sample off the grid is missed; the carry of 2.4 MS/s
would be 288 samples by its rule, the walk needs 304, and the padding to 320 saves it.

Table, positions and feed: `ingest` runs the pass over stale
aircraft only when the table is full and a newcomer arrives, and the server calls it nowhere else, against
"normally called automatically by `ingest`" (`rs1090/state.rs:319`); a surface position is right only if the
receiver is within half a zone, 0.75° of latitude, and not "within 45°" (`rs1090/cpr.rs:349`); what
`rs1090/cpr.rs:333` calls the wrong "60°-wrapped tile" is 6° high, and the plausible references it expects
of the tracker are the receiver's location, unchecked (`rs1090/state.rs:530`); across the date line local
decoding returns a longitude below -180°, since `wrap_lon` corrects the upper side only
(`rs1090/cpr.rs:399`); of two halves of one instant and
different zones the even one goes, whichever arrived last (`rs1090/state.rs:510`; its comment says the
older); a summary is refreshed by events and not made "at the moment of HTTP request"
(`serve/events.rs:279`), so its counters and category may lag; `/healthz` stays green after the end of a
file, against `serve/broadcaster.rs:68-70`; the first walk hands on frames whose CRC failed, against
`rs1090/frame.rs:251`; `run_decoder` builds its detector for 2 MS/s whatever the source's rate
(`serve/main.rs:483`); a client that fell behind sees a jump in ids and no gap event, against
DESIGN.md:377; the syndrome of an addressed frame is the crc24 of the address and not the address, as
`rs1090/crc.rs:19` has it; a repaired frame keeps the format it was read with, so `Frame::downlink_format`
may disagree with its first byte (`rs1090/frame.rs:459`, `:485`); an all-call reply to an interrogator
whose code has one bit set is reported as corrected, and its code is lost (`rs1090/crc.rs:16`).

## 5. Proofs

TLC checks the instances above; the following holds for all values of the constants that satisfy the
named assumptions, with no bound but that the constants are what the module says.

- **DecoderProofs**, about the table (`TrackerAssumption`). The inductive invariant is
  `IInv == TypeOK /\ TableWellFormed /\ Sorted /\ SeenByNow /\ StoredPairDecodes`. `SeenByNow` (no
  aircraft was heard after now) is what makes `Sorted` inductive: an aircraft moved to the back gets the
  current time, which is the latest. `TableWellFormed` is needed beside it, because `ToBack` and the
  prefix dropped are described by positions and the map by addresses. From IInv follow the theorems
  `TypeHolds`, `TableHolds`, `SortedHolds`, `PairHolds`, `ScanHolds` (in a sorted table an inactive entry
  has only inactive ones before it), `LostAreOldestHolds` and `SweepIsCompleteHolds` (what is dropped is a
  prefix of a sorted order), and `EventsMirrorTableHolds`. `FixIsCurrentHolds`: a fix is computed from halves that the
  table holds at that moment, so their ages are bounded by `StoredPairDecodes`. The lemmas on `ToBack`, `Drop`,
  `Append` and `Named` are stated once and cited.
- **DecoderProofs**, about loop and snapshot (`DecoderAssumption` too). The clock may wrap, after which the table is no longer
  sorted, so only the part of Tracker's invariant that does not speak of time is used (`TableInv`). `DecoderInv` adds
  what the events not yet published promise: by `Tells` the losses come first and lose what is shown, an acquisition is
  of what is not, and each difference between the shown and the tracked aircraft has its event; `Owed` says of each
  shown aircraft that an event is still to refresh it, or its summary agrees with the table. An eviction's losses come
  before the newcomer's acquisition, so the snapshot stays within the capacity between two events of one call. Hence
  `SnapshotInStepHolds`, `SnapshotBoundedHolds` and `EventsTellLivesHolds`.
- **EventStreamProofs** (`EventStreamAssumption`), for any number of clients and any sizes of ring, channel and queue.
  `IInv` says of each handler that queue and replay ascend behind the client's mark and hold ids of this life; that
  whatever is at or below `maxEmitted` is on its way or may be missed (`PastAccounted`); and that what lies between
  `maxEmitted` and the channel's cursor comes with the replay (`FutureAccounted`), all but what may be missed. Hence
  `InOrderHolds`. `FeedDeliversLog` is the refinement, with one lemma for each action: its step is a step of
  ResumableLog, which takes the id that is owed or passes over what may be missed, or leaves `due` and the marks alone.
- **SourceProofs** (`SourceAssumption`, and `ServeAssumption`). Of Serve, `IInv` adds to the type that the flag falls
  exactly with the guard's first statement, that a permit implies the flag is down, and that draining has one of two
  causes; then `ZeroOnlyByInterruptHolds`. Every step of Source is a step of Serve or
  none (`ServeStep`), and the fairness of the process is part of its specification, so
  `SourceImplementsServe` and, from the theorem above, `SourceZeroOnlyByInterrupt`. About the data,
  `SourceIInv` says that what is held back (`byte_buf`, or `leftover` from the cursor on) is the end of what was
  taken and begins where the samples end: for a file twice the samples plus the buffer is what was taken,
  but for the half sample dropped at the end; for a radio twice the samples is what was taken less what is left, with
  an even cursor in an even transfer. `SamplesAligned` is not inductive without it: where the next
  sample is cut depends on the bytes held back. `Appended` cuts pairs out of such bytes, `RestContinues` is the
  part of a transfer not read yet. That transfers hold whole samples is used once, where a read of a radio must
  return at least one (`ConvertData`). Hence `SamplesAlignedHolds` and `ZeroMeansEndHolds`.
- **FrameDetectorProofs** (`FrameDetectorAssumption`: a carry that holds a long frame with its
  lookahead, and a lookahead that covers a long frame). `IInv` adds `WalksForward`: the walk is at or behind the
  carry's start plus what was consumed. Hence `TypeCorrect` (the subtractions under the carry do not underflow) and
  `CarryReachesBack` (the carry begins where the walk stopped). For 2.4 MS/s `SInv` adds that every squitter before
  the carry is met, that those walked over in this call are met or not complete and lie behind what is
  consumed, and that between calls only incomplete ones are left: `NoSquitterLostHolds`. For the other walk `CInv`
  says, of every end the stream may yet have and of every set of preambles that may yet drown (the drowned ones
  and any not reached yet, `MayDrown`), that the frames found so far followed by what the walk finds from here
  are those of one walk (`OnCourse`); that what drowned lies behind the walk (`DrownedBehind`); and that between calls
  it stands where it must break off (`Stuck`): `SplitsDoNotMatterHolds`. The noise floor stays a natural
  number (`FloorStays`) and so noise never clears the threshold (`NoiseIsQuiet`); how loud a preamble is and
  when it drowns is left open, so the theorem holds for any floor and threshold. That `Walk` has a value at
  every position is shown by descent to the least position without one (`WalkExists`).
- **DemodProofs** (`DemodAssumption`). `DemodInv` bounds the accumulator of the noise floor by the scaled
  extremes, `least * 2^Shift <= acc < (most + 1) * 2^Shift`, which is stronger than `FloorWithinSamples` says
  of the quotient: an update takes that quotient once and adds the sample (`UpdateBetween`), so the
  fraction that the division drops is kept and never accumulates. Hence `FloorWithinSamplesHolds`. For
  `ReadsInsideHolds` the table of slicers is bounded row by row (`SlicerBounds`), and a byte begins at most two samples later
  than 19 apiece in a short frame, three in a long one (`SlicesInside`).
- **CrcProofs**, about frames of any number of bytes. A turn of the checksum's loop is linear under XOR
  (`StepBitLinear`, `StepByteLinear`) and the lower 16 bits of the register only shift (`ClearTopShifts`);
  hence a byte fed through the table is a byte fed bit by bit (`TableStep`) and the two checksums agree
  (`ChecksumsAgree`, and `TableIsBitwiseHolds` of the specification). A turn is also injective on words
  (`StepBitInjective`, because the polynomial's lowest bit tells whether one was shifted out), and an address
  of three bytes is stepped as one word, so `AddressesTold`: no two addresses share a syndrome. This is what lets
  Tracker name a syndrome by its address. By descent over the bytes the whole checksum is linear (`CrcLinear`) and a
  function of its bytes alone (`CrcOfPrefix`), so a frame with a word laid over its parity leaves the
  checksum of that word (`OverlayShows`). Under `LinkAssumption`, `LinkInv` says that the bits on the air are the frame
  sent, flipped where the errors are, and that what was heard a receiver made of them. With the three facts,
  errors in the parity leave the syndrome of the address it then shows: `RepliesAttributedHolds`. The
  syndrome of one or two flipped bits, overlay included, is one or the sum of two of the table's, and the scans find
  some repair for it (`OneBitFound`, `PairFound`), whether or not two positions share a syndrome:
  `ErrorsUndoneHolds`. That the repair found is the right one needs the distances of the code and is left to TLC, in
  `NeverMistaken`.
- **CprProofs** (`CprAssumption`), about every place of the grid and every move of up to two steps.
  `PairDecodes` follows the scheme's vernier: z and z + 1 zones make one round of both grids, and the
  difference of the two fractions is z times the one less z + 1 times the other, up to an error that rounding
  and flight bound below half a fraction (`TwoReports`); so the rounded difference is the zone's index
  (`Vernier`, `ZoneOf`) and with its remainders each grid recovers its own point. It is used once for
  latitude, with 59 and 60, and once for longitude with the band's numbers (`DecodedLatitudes`,
  `DecodedLongitude`). The invariant `IInv` says that there are two near places from which the reports were
  made, the one not made yet from where the aircraft is; with PairDecodes it gives `GlobalRightHolds` and
  `RefusedAtTransitionsHolds`. TLC does not check IInv, because it ranges over all pairs of places; the
  properties are run. `LocalDecodes` is about one report and a receiver: within half a zone, rounding included, the
  receiver's zone with the report's fraction behind or ahead of its own is the report's zone (`ReceiverZone`). With
  the invariant `LocatedOf`, that an answer with a receiver comes from where the aircraft still is, it gives
  `LocalRightHolds`.

- **OutputProofs** (`FeedsAssumption`, `AirspaceAssumption`, `GdlAssumption`, `BleAssumption`), for any clients,
  aircraft, looks within the limits of the fields, and sizes of the channels. The five safety properties of the run hold.
  - Feeds. `ChannelInv` says of each task that what its client is owed ascends and lies before the receiver's place in the
    channel, and that a valid frame before that place is missing only if the channel no longer keeps it. Hence
    `LagOnlySkipsHolds`. `FeedInv` adds
    `Transcript`: the wire, with what the task still has to write or will not come to write any more, spells the
    messages of the frames owed, one by one, and leaves the reader at the end of one. The second half is needed because a
    write is cut anywhere: nothing can be said of the wire alone within a message. That each format reads back what it
    wrote is shown for a message from any state a message may start in (`MessageWritten`), byte by byte: `Leads` composes
    (a run over a sequence and one over what follows are a run over both), and within a message the
    least byte after which the reader is not where it should be gives the contradiction. `ReaderRecoversHolds`
    follows, because what is read from a beginning of the transcript is a beginning of its messages.
  - GDL90. `GdlInv` says for each phase of a tick what was sent and what is left, and that only aircraft with a
    position in the copy were reported: `EachIsReportedHolds`. For `DatagramsTellHolds` the invariant gives only that
    the latest message is a heartbeat, the identification or a report of a known look; the rest is about the encoding.
    A turn of the checksum is linear (`EightTurnsLinear`), so a look-up is eight turns of plain division (`TableIsDivision`)
    and the sender's remainder is the receiver's (`ChecksumsMatch`), also behind the stuffing, which is undone byte by byte
    (`MessageIsRead`): so a frame is found whole (`FrameIs`). The nine parts of a report stand where the receiver looks for
    them, two pairs of fields sharing a byte (`PartsHeld`). Then the arithmetic of each field: `SemicircleIs`,
    `FeetAreTold`, `KnotsAreTold`, `ClimbIsTold`, `TurnIsTold`, `SpellingTells`.
  - Bluetooth. `BleInv`: between two refreshes the last push tells of the snapshot, or an event is still to be told
    or unread, or one was passed over; and while the supervisor writes, the same of what it derived. With
    `PackedTells` (15 bytes read back as the lowest aircraft's fields; `LowestIs` for the choice, by the least altitude)
    this is `StaleOnlyByLimitHolds`.

Only model-checked:

- `AmpleChunks` of FrameDetector: it holds for preambles with a margin, which the run's streams have.
- `LoudIsRead` and `UnreadIsCarried` of Demod: they compare sums of weighted samples at every phase, which is
  a large computation and not an argument.
- `NeverMistaken`: that two clean frames differ in six bits, that no two positions share a syndrome and that each
  `decode_` operator undoes the encoder are finite computations too.
- Liveness: `DeathIsFollowedByRestart`, `FeedsCatchUp`, `ClientsSettle` need fairness, which is out of the prover's reach.

Induction is done by descent. The library's induction theorems take an operator as a parameter, which the installed
provers do not instantiate, but that `<` on the natural numbers is well founded is a statement about a set:
`LeastNatural` draws from it that a non-empty set of naturals has a least member, and a proof by induction
becomes one about the least counterexample.

## 6. Not modelled

What CPR makes of a pair is the constant `GlobalDecode` of Tracker; the derivation of the NL table, the
square root and arc tangent of ground velocity and floating-point formats of values are left out of Message, the
computation of magnitudes, the confidence threshold and the unused matched filter of Demod, and the summary line of
Ble. Metrics, configuration, serialisation, drawing, the scripts and the tests are left out: they keep no state
that others read. The web page and the iOS application are part of the plan.

## 7. Plan

Done, in this order: Tracker with its proofs; Decoder; EventStream with ResumableLog; Serve with its proofs;
FrameDetector with its proofs; Crc, Message and Link with CrcProofs; Cpr with its proofs; Demod; Source; Feeds,
Gdl90, Ble and Outputs. Next:

1. MapPage: a client that seeds from `/aircraft` and follows `/stream` (`static/index.html`), composed with
   EventStream's publishing; whether it ends with the aircraft the server tracks. Then the reconnection of the iOS
   application.
2. Theorems: that `decode` undoes the encoder for the fields without a scale, and that a frame without errors is
   believed as it was meant, which is the part of `NeverMistaken` that is not about the code's distances.
