# PCMFlowBluetooth: a verification project in TLA+

PCMFlowBluetooth receives Bluetooth A2DP audio on an ESP32 and turns it into PCM.
A Bluetooth task delivers encoded packets; the application's tasks decode them,
collect the PCM and handle connection, codec and stream events. This directory
models that code, checks the models with TLC and proves the most important
results with TLAPS.

## 1. Inventory

| Component | State | Operations | Runs in |
|---|---|---|---|
| `EncodedPacketQueue` | byte ring, `writePos_`, `readPos_`, `packets_` | `begin end clear push peek pop drop` | producer: Bluetooth task; consumer: `update()`; `clear()`: whoever resets |
| `A2dpSinkStream` | queue, PCM ring, decoder, two scratch buffers, formats, counters, `updating_` | `begin end pushEncoded setCodecConfig reset update readFrames resetCounters` | Bluetooth task and one to three application tasks |
| `SbcDecoder` | codec context, filter memory, output layout | `begin end reset decodeFrame` | inside the stream |
| SBC codec (vendored, `external/sbc/decoder`) | frame header fields, bit allocation, filters | syncword search, header, checksum, allocation, synthesis | inside the decoder |
| `EspBleA2dpSinkAdapter` | accepted connection, flags, its stream | `begin end update`, five transport callbacks | media callback: Bluetooth task; the others: application |
| PCMFlow `PCMRingBuffer`, EspBle transport | external | | |

How they interact. The transport calls the adapter's callbacks; the media
callback copies a packet into the stream's queue (`pushEncoded()`); the control
callbacks call `setCodecConfig()`, `reset()` or restart the stream. `update()`
pops packets, hands them frame by frame to the decoder and writes the PCM into
a second ring, which the application reads. No lock is taken anywhere: the two
queues are single-producer single-consumer, and an atomic flag keeps a second
`update()` out.

What is hard, and what makes each component correct:

* **Packet queue.** Two tasks and a third caller of `clear()` share a ring, three
  counters and no lock. A packet that was accepted must come out whole, in
  order and once, across wrap-around of the buffer and of the counters.
* **Stream.** Sessions must not mix, through every order of reset,
  renegotiation, failed allocation and arriving packet; the ring's frame size,
  the format the application sees and the decoder's interleave must agree;
  every decoded frame must be kept or counted as lost, under both overflow
  policies; malformed packets must not stall the queue.
* **Adapter.** Two tasks and no lock. The transport's state changes on the
  Bluetooth task at once, its events are handled later on the application's
  task, are not replayed to a late adapter, and belong to connections that come
  and go; packets keep arriving in between. `end()` must be a barrier against the
  media callback and still return; a restart for a larger MTU happens under a
  live media callback; every allocation may fail, and the codec must survive it.
  When everything posted has been handled, adapter and stream must agree with
  the transport, and nothing of an earlier session may be left to decode.
* **SBC framing.** Resynchronisation after damage: every undamaged frame must be
  found, no byte read into two frames, nothing read past the packet, and the
  loop of `update()` must come to the end of any bytes. `format()` must describe
  the last frame of this session.
* **SBC bit allocation.** The number of bits handed out must be exactly the
  bitpool.

## 2. Modules

| Module | Models |
|---|---|
| `PacketFifo` | what the packet queue promises: a FIFO of whole packets |
| `EncodedPacketQueue` | the byte ring, one action per access to a shared variable |
| `EncodedPacketQueueProofs` | the theorems about it |
| `MCEncodedPacketQueue` | its small instances |
| `A2dpSinkStream` | the stream, with `PacketFifo` as its queue |
| `MCA2dpSinkStream` | its small instances |
| `A2dpSinkStreamProofs` | the theorems about it, whichever calls overlap; that it implements `SinkStream` |
| `A2dpSinkStreamSessionProofs` | in one application loop: sessions, and what a full ring costs |
| `A2dpSinkStreamOrderProofs` | in one application loop: the order of the PCM with `DropNewest` |
| `A2dpSinkStreamAccountProofs` | in one application loop: no PCM is lost uncounted |
| `SinkStream` | what the stream promises to whoever feeds and controls it |
| `EspBleA2dpSinkAdapter` | transport, adapter and a `SinkStream`, two tasks |
| `MCEspBleA2dpSinkAdapter` | its small instances |
| `EspBleA2dpSinkAdapterProofs` | the theorems about its types and about `end()` |
| `EspBleA2dpSinkAdapterSyncProofs` | that it agrees with the transport, and stores nothing of another session |
| `SbcDecoder` | the wrapper, the framing of the codec under it, and the loop of `update()` |
| `MCSbcDecoder` | its small instances |
| `SbcDecoderProofs` | the theorems about it |

They compose as the code does: `A2dpSinkStream` uses `PacketFifo` for its queue
and `EncodedPacketQueue` implements it; `EspBleA2dpSinkAdapter` uses `SinkStream`
for its stream and `A2dpSinkStream` implements it (`started`, `codecConfig_`,
`isReady()` and the packet queue are the mapping). `SbcDecoder` refines one step of
the stream's `update()`, the list of what a packet holds, down to bytes.

### EncodedPacketQueue

A byte of the ring is modelled by its origin: byte *i* of the record of packet
*p*. A header is read correctly exactly when all its bytes are those of one
record. `push()` is split into the load of `readPos_` with the room test
(`PushAdmit`), the two copies (`PushHeader`, `PushPayload`), the store of
`writePos_` (`PushPublish`) and the update of `packets_` (`PushCount`); `pop()`
and `drop()` into the peek, the second load with the copy, the store of
`readPos_`, and the count; `clear()` into its load and its two stores. An
acquire load pairs with the release store it sees, so a sequentially
consistent model of these steps loses nothing: each variable a side loads to
decide is stored by the other side with release order after the data it guards.
`records`, `doomed`, `delivered` and `overlapped` are history variables: the
records stored, how many of them a running `clear()` will discard, what the last
`pop()` copied, and whether the latest `clear()` met a `push()` on its way.
`ClearDuringPush` and `ClearDuringPop` say whether `clear()` may overlap either
side. `begin()`, `end()` and a failed allocation happen only between calls, as
the header requires.

### A2dpSinkStream

`pushEncoded()` is one step of the Bluetooth task, possible at any moment.
`update()` is split at each access to the packet queue and to the PCM ring, and
`reset()` at each buffer it empties; `Together` is the set of pairs of calls
that may be in progress at once, empty for the single loop of the examples.
A packet is a kind with a length and the list of what `decodeFrame()` finds in
it: a frame of some sample rate, a byte to skip (`Bad`) or a frame cut short
(`Cut`). A PCM frame is the number it was decoded under and its session;
`pcmScratch` is modelled frame by frame, because `writePcm()` reuses it. The
packet queue is `PacketFifo` through `INSTANCE`, with the byte count of
`EncodedPacketQueue` as its room; that the ring implements it is checked and
proved below (with the restrictions named there). `PCMRingBuffer` is external:
`begin` gives an empty ring of one frame size or none, `readFrames` and
`writeFrames` move what there is, or what fits, in one step. History variables:
`session`, `pushes`, `serial`, `heard`, `kept`.

`lastError_` and the counters are plain variables in the code and are updated
with the step beside them; lost updates between tasks are not modelled.

### EspBleA2dpSinkAdapter

The **Bluetooth task** changes a link (`ConfigureCodec`, `Connect`, `StartStream`,
`SuspendStream`, `Disconnect`), posts a control event for each change, and runs
`onMedia()`; it does one of these at a time. The **application's task** calls
`begin()`, `end()`, `update()`, and `Dispatch`es posted events, in order, to the
handlers; an event for which nobody is registered is lost. The link state is
visible to the adapter's queries at once, before the event is handled.

`todo` is what remains of the call the application's task is in, cut wherever the
media callback could see the difference: `end()` is `Unregister`, `Barrier`,
`Release`; `begin()` continues with `AllocateStream`, `Register`, `Query`,
`QueryCodec`, `QueryStreaming`; the handlers add `FreeStream` and `RestartStream`
(the restart for a larger MTU), `ApplyCodec` (`setCodecConfig()`) and `EmptyStream`
(`reset()`) in front. `onMedia()` is cut at its loads of `haveConnection_` and
`connectionId_` (`ReadHave`, `ReadId`, in either order), its test (`DropForeign`), the
test of `pushEncoded()` (`EnterPush`, `DropMedia`) and the publication of the copy
(`FinishPush`). `DropMedia` may also drop a packet there is room for: it stands for
an empty payload and for the byte room that the abstract stream does not have.

The transport is external and modelled from how the adapter uses it. A codec may
be configured before the connection is reported; `connected()` is false until
then. `OnePeer` says that a peer connects only when no other has a link;
`AttachAnytime` whether `begin()` may be called between a codec notification and its
connection; `Room` is how many packets the queue takes; `MaxPending` bounds the
posted events. History variables: `stale` (how many stored packets are of a
session that is over) and `dangling` (who freed the storage under a running
copy). `foreignPackets_` is a statistic and left out.

### SbcDecoder

A packet is a sequence of bytes, each `Plain` or equal to the syncword; a syncword
byte stands for the header that the decoder would read there: the length it
computes, whether checksum and bitpool are in order (`intact`), sample rate and
channels. That is as much as the framing tells apart: a false syncword and a
damaged header are such bytes too. `Incomplete`, `Malformed` and `Decodable` are the
outcomes in the order of the checks in `OI_CODEC_SBC_DecodeFrame()`; `DecodeFrame`,
`SkipByte` and `GiveUp` are what `decodeFrame()` and `update()` make of them.
`Begin`, `End` and `Reset` come between packets, in any order, also on a decoder that
could not be allocated. History variables: `found`, `calls`, `invalid`.

## 3. Runs

The queue: payloads of 1 to 3 bytes, an empty and an oversized packet, a header
of 2 bytes, counters that wrap at 16.

| Run | Shows |
|---|---|
| `queue_contract` | with `clear()` anywhere inside `push()`, though not inside `pop()`: the ring implements the FIFO; records stay chained and intact, copies never meet, room is exact, the count is exact unless the latest `clear()` met a `push()`, the inductive invariant of the proofs holds, and a fair consumer empties the ring |

Capacity 8 holds two records of different lengths and splits headers as well as
payloads at its end; capacity 2 is refused by `begin()`; 16 counter values mean
that every split meets every wrap.

The stream: a PCM ring of one and a half SBC frames, and queue room for two small
packets but not for a small and a large one.

| Run | Shows |
|---|---|
| `stream_contract` | one application loop and a second task in `update()`, both policies, packets of two frames, of noise before a frame and of a frame cut short, four negotiations (stereo, mono, invalid, unknown codec), failing allocations: sessions never mix, layouts agree, every frame is kept or counted, nothing is lost while there is room, one `update()` gets in and the flag is free again on every way out, and every accepted packet leaves the queue |

`MaxPushes` and `MaxSessions` bound the histories. Two packets of two frames
each fill the PCM ring and overflow it by more than a frame; three sessions
allow a change of layout in both directions and a failed one in between.

The adapter: two peers, two codec configurations, two MTUs of which one is larger
than what `begin()` was given, two packets of room, two pending events.

| Run | Shows |
|---|---|
| `adapter_contract` | one peer at a time, no attachment between a codec and its connection, a stream that grows at most once: when everything posted is handled, the adapter's flags and the codec that its stream is configured with are the transport's, and nothing of an earlier session is stored; `end()` never frees under the callback, leaves nothing behind, and every call returns; a codec reaches the stream although nobody reports it twice |

`InSync` compares the configured codec, not what the decoder can do with it: a stream
whose PCM ring could not be rebuilt for the codec has the configuration and decodes
nothing, and it says nothing of the codec of an adapter whose stream is gone. The three
restrictions are needed: `adapter_codec_missed` lifts the second and
`adapter_second_growth` the third, and both are violated.

Two of each peer, codec and MTU are enough for a packet or an event of the wrong
one; two pending events let a connection end and another begin before either is
handled; two packets let one of the old and one of the new session be stored
side by side. What bounds these instances does not bound the theorems: the safety
properties are proved for any number of peers, codecs and pending events. All
properties also hold with a third codec that the library does not know (265 thousand
states, not part of the runs for its time); such a codec has no decoder and agrees
with a stream that knows none (`Agrees`), because a restart carries nothing over
for it.

The decoder: every packet of up to five bytes over four headers (a frame with a
body, one without, a damaged one, one that claims nine bytes).

| Run | Shows |
|---|---|
| `decoder_framing` | every undamaged frame is found unless it is behind a header that claims more than the packet holds, none overlap, nothing is read past the end, each call is accounted for, `format()` follows the frames, and every packet ends |

Five bytes hold two frames, one of each kind with a byte of noise, and a frame
inside a false header. The exception is what the code does with such a header, and
`decoder_false_syncword` lifts it.

Runs in which the code disagrees with what it or its documents say (each is a
finding in `PROJECT.json`, with the lines):

| Run | Shows |
|---|---|
| `queue_counter_wrap` | a capacity that does not divide 2^32: at the wrap of the counters `push()` copies the payload over the header it has just written, and publishes the record |
| `stream_oldest_replayed` | `DropOldest` overwrites the new frame in `pcmScratch_` and appends the old PCM again |
| `stream_loss_races_reader` | `writePcm()` looks at the free room twice: a `readFrames()` in its own task in between makes the loss negative, and PCM is written that was never decoded |
| `stream_oversize_stalls` | a packet above `maximumPacketBytes` is accepted and never leaves |
| `adapter_free_under_media` | the restart for a larger MTU frees the queue while the media callback is copying into it |
| `adapter_codec_missed` | an adapter attached between codec and connection never learns the codec |
| `adapter_second_growth` | a restart that fails drops the codec and keeps the larger MTU; the next connection's codec meets no stream, its MTU is larger still, its restart succeeds, and the stream never has a codec |
| `decoder_false_syncword` | a false syncword that claims more than the packet holds gives up the rest of it, an undamaged frame included |

The same models show more; each is one switch or one weaker condition away and
has no run of its own:

* `clear()` inside `pop()` leaves `readPos_` off the records (`ClearDuringPop = TRUE`
  breaks `ClearedStaysCleared`); `EncodedPacketQueue.h:52-60` calls `clear()`
  "Consumer-side only".
* `clear()` inside `push()` leaves the count wrong until a `clear()` that meets no
  `push()`. The same lines of the header want the producer stopped first, but
  `reset()` does not stop it; this is why `CountsEven` and `CountMatchesAtRest`
  except `overlapped`. `pop()` may subtract from `packets_` before `push()` adds, so
  that the count reads as the largest `size_t` for a moment.
* `DropOldest` has the race of `stream_loss_races_reader` at line 244 (`LargeOnly`,
  reads of three), and makes `update()` a second reader of the PCM ring.
* A ring smaller than one SBC frame loses PCM uncounted (`NarrowOnly` breaks
  `FramesAccounted`).
* A codec event beside a running `update()` (`ControlElsewhere`) lets a packet of the
  old session be decoded into the new one (`NoStaleSession`), although `SPEC.md:194`
  gives `update()` a task of its own.
* A mono session followed by a stereo one allocates the ring again, wider, although
  the comment at `A2dpSinkStream.cpp:8-10` says that it never grows.
* With two peers connected at once (`OnePeer = FALSE`) packets of both can be stored,
  because `onMedia()` accepts everybody while no connection is known
  (`OnePeerStored`; `SPEC.md:195`).
* After a restart that failed the adapter stays attached and connected with no stream
  until a larger MTU arrives, although `EspBleA2dpSinkAdapter.h:55-56` registers nothing
  when the buffers cannot be allocated.
* `decodeFrame()` skips one byte counted from the start of its input, not "past the
  bad syncword" (`SbcDecoder.h:61-62`); it finds the same frames, with more calls,
  each counted as an invalid frame.

## 4. Fairness

`queue_contract` assumes that a call which has begun ends, and strong fairness of the
beginning of `pop()`: the consumer's loop comes back to it while there is a packet it
can take, though a `clear()` of the same loop may come between. `stream_contract` and
`stream_oversize_stalls` assume that a call which has begun runs to its end (no
call blocks) and strong fairness of the beginning of `update()`: the application's
loop calls it between its other calls, which may make it wait each time but
never for good. Nothing is assumed of the producer.

`adapter_contract` assumes that a call that has begun goes on, in either task
(`WF(CallSteps)`, `WF(MediaSteps)`: the only wait in the code is `Barrier`, for the
other task), and strong fairness of `Dispatch`: the loop of the sketches dispatches
posted events again and again between its other calls. Peers may do anything or
nothing. `decoder_framing` assumes only that the loop of `update()` runs on.

## 5. Proofs

`EncodedPacketQueueProofs` proves, for every set of packets, lengths,
capacities and counter ranges:

* `TypeCorrect`: `Spec => []TypeOK`, with no further assumption;
* under `RingContract` (`clear()` keeps out of `pop()`, and every capacity
  divides the counters' range): `RingInvariantHolds`, and from it
  `StoredPacketsStayIntact`, `CopiesNeverMeet`, `RecordsStayChained`,
  `RoomStaysExact` and `RingImplementsFifo`, with `CountsStayEven`, and from that
  `CountIsRightAtRest`.

`RecordsIntact` is not inductive: a push overwrites nothing only because the
records fill exactly the bytes from `readPos` to `writePos`, because the room
`push()` saw can only have grown since, and because what it has copied so far
is in place. `RingInvariant` says so: `Chained` (the records tile the used
bytes), `ProducerInv` (room promised, bytes copied), `ConsumerInv` (the record
being removed is the oldest) and `ClearInv` (where `clear()` will put
`readPos`). The arithmetic is in a group of lemmas about the cell of an offset:
with a capacity that divides the range, equal distances are equal cells, and
bytes less than a capacity apart are different cells. Both conditions of
`RingContract` are necessary: `queue_counter_wrap` drops the one on the capacity and
fails, and so does the ring with `ClearDuringPop = TRUE`.

`RoomIsExact` compares the difference of two wrapping counters with the sum of the
stored records' sizes. The sum is a recursive function over the records; that it
is where the chain of records ends follows record by record, by the least offset
at which the two would differ. `CountMatchesAtRest` says nothing while a call is
running, so `CountsEven` says what the count is then: right, give or take the call
of each side that has yet to count, modulo the width of a `size_t`, as long as the
latest `clear()` met no `push()`. It makes the
counts equal only because fewer records fit than a counter has values.

`A2dpSinkStreamProofs` proves, for every set of packets, configurations,
negotiations and tasks, and for every `Together` (so also with calls that
overlap), from the assumptions on the constants alone:

* `TypeCorrect`: `Spec => []TypeOK`, with the bound of the PCM ring;
* `UpdateIsExclusive`: `Spec => []OneUpdater`. `OneUpdater` is inductive given
  the types: a call that goes on keeps the flag, a call that returns clears it,
  and `begin()` and `end()`, which clear it too, run only alone;
* `LayoutIsShared`: `Spec => []LayoutAgrees`. The invariant behind it,
  `LayoutInv`, says that only a valid format has channels (so the rate of a
  decoded frame never makes an invalid format valid), that a valid format is
  always that of the ring, also while a reset is running, that a started stream
  has a decoder, and that the decoder's stride is right once the reset is done;
* `StreamImplementsSink`: when `update()` and the control calls are made by one
  task (`OneLoop`), the stream implements `SinkStream`. Besides `LayoutInv` it
  needs `LoopInv`: an `update()` that has looked at the format keeps finding it
  valid, because no control call begins beside it and a frame's own rate never
  makes a valid format invalid; and a valid format is that of an SBC codec.

Three modules prove the rest of the stream's safety for one application loop
(`SingleTask`: `update()` overlaps neither the control calls nor `readFrames()`),
with the Bluetooth task pushing at any step:

* `A2dpSinkStreamSessionProofs`: `LossOnlyWhenFull` and
  `SessionsStayApart`. Behind the first is `RoomInv`: the room that
  `writePcm()` saw is the room it finds at its second look, what it drops and
  what it still needs never exceed a frame, and a frame that lost PCM finds no
  more room than it has PCM left. Behind the third is `SessionInv`, which holds
  while a reset runs too: each buffer that `reset()` has passed holds this
  session only, and so do the packet and the frame that `update()` has taken
  out of them. It needs `RoomInv`: only the first `FramePcm` frames of
  `pcmScratch_` are of this session, and no more are ever written;
* `A2dpSinkStreamOrderProofs`: `NewestIsContiguous`. `OrderInv` says that the
  frame being written is newer than everything in the ring and everything read,
  and that `pcmScratch_` still holds it, which with `DropOldest` it does not
  (`stream_oldest_replayed`);
* `A2dpSinkStreamAccountProofs`: `EveryFrameIsAccounted`, when every ring holds
  at least one SBC frame (`WideRings`; without it the statement is false, see
  the ring smaller than one SBC frame above). `AccountInv`: the PCM kept and the
  PCM counted as lost make up what was decoded but for what `update()` is about
  to write, modulo the counters' range, and there is room for that when it is
  written.

`SbcDecoderProofs` proves, for packets, frames and headers of every length:
`TypeCorrect`, `FramesAreDisjoint`, `FramesFoundUnlessMisled`, `PacketsCostTheirLength` and
`FormatFollowsFrames`. The inductive invariant, `DecoderInv`, strengthens "at the
end every frame was found" to every offset: all undamaged frames that begin
before it were found, except inside one that was or behind a header that claims
too much. That the earliest syncword
exists is proved from the well-foundedness of the naturals.

`EspBleA2dpSinkAdapterProofs` proves, for any peers, codecs, room and order of
events, with `OnePeer` and `AttachAnytime` either way:

* `TypeCorrect`, with the bound of the queue: the room that `pushEncoded()` saw is
  still there when it copies, because nobody else adds;
* `EndIsALifetimeBarrier`: `Spec => []EndIsABarrier`, and `DetachedStaysQuiet`:
  `Spec => []DetachedIsQuiet`. Neither is inductive: that `Release` frees nothing
  under the callback depends on the steps before it. `LifeInv` says which step of
  a call may follow which (`Chain`: a barrier only behind the unregistration, a
  release behind the barrier, the registration behind an allocation), what the
  next one may rely on (`First`: nothing registered at the barrier, nobody inside
  at the release), and that a detached adapter is quiet.

`EspBleA2dpSinkAdapterSyncProofs` proves, for any peers, codecs, room and number of
pending events:

* `FlagsWhenSettled`: with one peer at a time (`OnePeer`), `connected()` and
  `streaming()` are the transport's whenever everything posted has been handled,
  also for an adapter that missed the codec or whose stream is gone;
* `NothingOfAnotherSession`: `Spec => []OneSession`, from `OnePeer` alone;
* `AgreesWhenSettled`: `Spec => []InSync`, from `SyncContract`: also no attachment
  between a codec and its connection (`~AttachAnytime`), and a stream that grows
  at most once (`GrowsOnce`: no two MTUs in increasing order above a configured
  size).

`InSync` and `OneSession` speak of the moments when nothing is left to handle, so
neither is inductive. `SyncInv` says, at every moment, that what is still posted
accounts for every difference from the transport. `Pending` is the event being
handled followed by the queue, and the invariant has nine parts: `PeersInv` (who may
have a link), `LogInv` (of each kind of event the last one pending still holds of the
link; nobody's event is followed by the end of another's connection alone), `ShapeInv`
(which step of a call may follow which), `AcceptInv` (who was accepted is there or its
end is pending; nothing is left of the session before when `begin()` asks),
`ConnInv`, `PlayInv` and `CodecInv` (the flags and the codec are right unless an event
that tells, or a question of `begin()`, is outstanding), `GrowthInv` (a stream that has
grown, or failed to, is not asked to again) and `SessionInv` (packets of a session that
is over have their discarding still to come; the rest fit the current link).

Each condition is needed for what it is a condition of. With `AttachAnytime` the codec
is missed (`adapter_codec_missed`), and with three MTUs it is lost by a failed
restart (`adapter_second_growth`); in both cases the stream has no codec and decodes nothing, which
is why `NothingOfAnotherSession` needs neither condition. With two peers at once
TLC finds both `InSync` and `OneSession` violated: the adapter follows one of them and
stores packets of the other.
`adapter_contract` checks the same statements with constants that satisfy
`SyncContract`.

Every safety invariant and the two refinements that a passing run checks are
theorems. Only model-checked are the liveness properties, which TLAPS does not
prove: `Drains`, `PacketsLeave`, `CodecArrives`, `CallsReturn` and `PacketEnds`.
`OldestIsNotReplayed`, `LossIsBounded`, `EveryFrameFound` and the other properties that
only runs expecting a violation check are no theorems: the code violates them.

## 6. Plan

1. *(done)* packet queue, its abstract specification and proofs; stream, with
   the first three theorems about it.
2. *(done)* the abstract stream, and the proof that the stream implements it;
   adapter and transport, decoder and framing, with their first theorems.
3. *(done)* every safety invariant of the stream proved, in one application loop
   where that is needed.
4. *(done)* `InSync` and `OneSession` of the adapter, room and packet count of the
   queue: with them every safety invariant of a passing run is proved.
5. `SbcBitAllocation`: the loops of `bitalloc.c` and `bitalloc-sbc.c` against a
   reference allocation over bounded scale factors.

## 7. Not modelled

Dequantisation and synthesis (numbers without control), the bit allocation (see
the plan), the encoder and the packet loss concealment (vendored, not compiled),
the maintainer tools, the porting layer. Wording of errors and the accessors
that read one field are left out, and so are the sketches but for the order of
their loop. Sub-byte layout of headers is abstracted: in the queue to the origin
of each byte, in the decoder to the header as one record.
