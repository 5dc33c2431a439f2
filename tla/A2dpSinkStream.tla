--------------------------- MODULE A2dpSinkStream ---------------------------
(***************************************************************************)
(* src/A2dpSinkStream.{h,cpp}: encoded packets in, PCM out.                *)
(*                                                                         *)
(* pushEncoded() runs in the Bluetooth task at any time.  The other calls  *)
(* are made by the application: update() decodes, setCodecConfig() and     *)
(* reset() start a new session, readFrames() collects PCM.  `Together'     *)
(* says which of those may overlap; the empty set is the single loop of    *)
(* the examples.  update() is split at each access to the packet queue and *)
(* to the PCM ring, reset() at each buffer that it empties.                *)
(*                                                                         *)
(* The packet queue is the abstract PacketFifo that EncodedPacketQueue     *)
(* implements; the PCM ring (PCMFlow's PCMRingBuffer) and the SBC decoder  *)
(* are described by what this class relies on.                             *)
(***************************************************************************)
EXTENDS Integers, Sequences, Functions

CONSTANTS
    Kinds,         \* the kinds of packets a Source may deliver
    Bytes,         \* their payload lengths
    Timestamps,    \* timestamps they may carry
    Items,         \* what decodeFrame() finds in them, one call after another
    Rates,         \* sample rates a frame or a negotiation may name
    Negotiations,  \* codec configurations: [codec, sampleRate, channels]
    Configs,       \* [queueBytes, pcmFrames, maxPacket, policy]
    Updaters,      \* tasks that call update()
    Together,      \* pairs of calls that may be in progress at once
    FramePcm,      \* PCM frames in one SBC frame
    ScratchFrames, \* maxPcmFramesPerSbcFrame(): the size of pcmScratch_
    ReadSizes,     \* how much readFrames() is asked for
    HeaderBytes,   \* overheadPerPacket()
    MaxPacketBytes, \* maxPacketBytes() of the queue
    WordMod,       \* the number of values of size_t and uint32_t
    MaxPushes,     \* bound: packets delivered
    MaxSessions    \* bound: sessions begun

Bad    == "bad"    \* bytes that are not a frame: decodeFrame() skips one
Cut    == "cut"    \* the packet ends inside a frame: it skips none
NoRate == "none"

NoPacket == [kind |-> "none", n |-> 0, session |-> 0]
Packet   == [kind : Kinds, n : 1 .. MaxPushes, session : 1 .. MaxSessions]

ASSUME SizesAssumption ==
    /\ FramePcm \in 1 .. ScratchFrames /\ ScratchFrames \in Nat
    /\ HeaderBytes \in Nat /\ MaxPacketBytes \in Nat
    /\ WordMod \in Nat /\ ScratchFrames < WordMod
    /\ MaxPushes \in Nat /\ MaxSessions \in Nat \ {0}
    /\ ReadSizes \subseteq Nat /\ Timestamps \subseteq Nat
ASSUME InputsAssumption ==
    /\ Bytes \in [Kinds -> Nat]
    /\ Items \in [Kinds -> Seq(Rates \cup {Bad, Cut})]
    /\ {Bad, Cut, NoRate} \cap Rates = {}
    /\ Negotiations \subseteq [codec : {"Sbc", "Other"}, sampleRate : Rates \cup {NoRate},
                               channels : Nat]
    /\ Configs \subseteq [queueBytes : Nat, pcmFrames : Nat, maxPacket : Nat,
                          policy : {"DropOldest", "DropNewest"}]

VARIABLES
    started,       \* started_
    config,        \* config_
    queue,         \* encodedQueue_: the packets stored, oldest first
    packetScratch, \* packetScratch_: the packet pop() copied out
    pcm,           \* pcmQueue_: [channels, frames]; no channels, no storage
    pcmScratch,    \* pcmScratch_: one decoded frame
    decoder,       \* decoder_: [ready, stride, rate, history]
    codecConfig,   \* codecConfig_
    format,        \* format_: [sampleRate, channels]
    stamp,         \* haveTimestamp_ and lastTimestamp_
    counters,      \* the observation counters
    lastError,     \* lastError_
    updating,      \* updating_
    updater,       \* for each task: where its update() is, and its locals
    control,       \* where setCodecConfig() or reset() is
    reader,        \* whether readFrames() is in progress
    session,       \* history: sessions begun
    pushes,        \* history: packets delivered
    serial,        \* history: PCM frames decoded; they are numbered by it
    heard,         \* history: the number of the last PCM frame read
    kept           \* history: PCM frames written, and not dropped, since resetCounters()

ring     == <<queue, packetScratch, pcm, pcmScratch>>
setup    == <<started, config, codecConfig, format>>
account  == <<counters, kept>>
numbers  == <<session, pushes, serial, heard>>
calls    == <<updating, updater, control, reader>>
vars     == <<ring, setup, decoder, stamp, account, lastError, calls, numbers>>

-----------------------------------------------------------------------------
(* What runs now, and what may begin beside it. *)

Running ==
    (IF \E u \in Updaters : updater[u].pc # "idle" THEN {"update"} ELSE {})
    \cup (IF control.pc # "idle" THEN {"control"} ELSE {})
    \cup (IF reader = "in" THEN {"read"} ELSE {})

MayBegin(call) == \A other \in Running : {call, other} \in Together

(* PCMFormat and the PCM ring. *)

NoFormat   == [sampleRate |-> NoRate, channels |-> 0]
IsValid(f) == f.sampleRate # NoRate /\ f.channels # 0

Unwritten == [n |-> 0, session |-> 0]
PcmFrame  == [n : Nat, session : Nat]
Blank     == [i \in 1 .. ScratchFrames |-> Unwritten]
NoRing    == [channels |-> 0, frames |-> <<>>]
Ring(ch)  == [channels |-> ch, frames |-> <<>>]

Least(a, b)  == IF a <= b THEN a ELSE b
Free         == IF pcm.channels = 0 THEN 0 ELSE config.pcmFrames - Len(pcm.frames)
RingTail(n)  == [pcm EXCEPT !.frames = SubSeq(@, n + 1, Len(@))]

(* The first n frames of pcmScratch_, and of what lies behind it. *)
FromScratch(n) ==
    [i \in 1 .. n |-> IF i <= ScratchFrames THEN pcmScratch[i] ELSE Unwritten]
IntoScratch(frames) ==
    [i \in 1 .. ScratchFrames |-> IF i <= Len(frames) THEN frames[i] ELSE pcmScratch[i]]

IsReady == started /\ IsValid(format) /\ pcm.channels # 0

Bump(name, n) == [counters EXCEPT ![name] = (@ + n) % WordMod]

ZeroCounters ==
    [received |-> 0, dropped |-> 0, invalid |-> 0, failures |-> 0,
     decoded |-> 0, overflow |-> 0, discontinuities |-> 0]

(* The packet queue, and what push() and pop() check before it. *)
StorageBytes(packets) ==
    SumFunction([i \in DOMAIN packets |-> HeaderBytes + Bytes[packets[i].kind]])

PacketOK(p) == Bytes[p.kind] \in 1 .. MaxPacketBytes
Queue == INSTANCE PacketFifo
            WITH Packets <- Packet, Acceptable <- PacketOK,
                 fifo <- queue, output <- packetScratch

QueueHolds(p) ==
    PacketOK(p) /\ StorageBytes(queue) + HeaderBytes + Bytes[p.kind] <= config.queueBytes

-----------------------------------------------------------------------------

Idle    == [pc |-> "idle", items |-> <<>>, session |-> 0,
            frames |-> 0, needed |-> 0, lost |-> 0]
Quiet   == [pc |-> "idle", error |-> "keep"]
Decoder(ready, stride) ==
    [ready |-> ready, stride |-> stride, rate |-> NoRate, history |-> 0]
NoCodec == [codec |-> "Unknown", sampleRate |-> NoRate, channels |-> 0]
NoStamp == [have |-> FALSE, last |-> 0]

(* What end() leaves. *)
EndedKeepsCodec ==
    /\ started' = FALSE /\ queue' = <<>> /\ packetScratch' = NoPacket
    /\ pcm' = NoRing /\ pcmScratch' = Blank /\ decoder' = Decoder(FALSE, 2)
    /\ format' = NoFormat /\ stamp' = NoStamp
    /\ updating' = FALSE
    /\ UNCHANGED codecConfig

Ended ==
    /\ started' = FALSE /\ queue' = <<>> /\ packetScratch' = NoPacket
    /\ pcm' = NoRing /\ pcmScratch' = Blank /\ decoder' = Decoder(FALSE, 2)
    /\ codecConfig' = NoCodec /\ format' = NoFormat /\ stamp' = NoStamp
    /\ updating' = FALSE

Init ==
    /\ started = FALSE /\ config \in Configs
    /\ queue = <<>> /\ packetScratch = NoPacket
    /\ pcm = NoRing /\ pcmScratch = Blank /\ decoder = Decoder(FALSE, 2)
    /\ codecConfig = NoCodec /\ format = NoFormat /\ stamp = NoStamp
    /\ counters = ZeroCounters /\ lastError = "None"
    /\ updating = FALSE /\ updater = [u \in Updaters |-> Idle]
    /\ control = Quiet /\ reader = "idle"
    /\ session = 1 /\ pushes = 0 /\ serial = 0 /\ heard = 0 /\ kept = 0

(* begin() and end() are lifetime calls: nothing else is in progress. *)
Alone == Running = {}

End ==
    /\ Alone /\ Ended
    /\ UNCHANGED <<config, account, lastError, updater, control, reader, numbers>>

ConfigOK(c) ==
    /\ c.maxPacket \in 1 .. MaxPacketBytes /\ c.pcmFrames # 0
    /\ c.queueBytes >= c.maxPacket + HeaderBytes

(* Lines 49-67. *)
BeginRejected(c) ==
    /\ Alone /\ ~ConfigOK(c) /\ Ended
    /\ counters' = ZeroCounters /\ kept' = 0 /\ lastError' = "InvalidConfiguration"
    /\ UNCHANGED <<config, updater, control, reader, numbers>>

(* Lines 71-92: a malloc() fails. *)
BeginFails(c) ==
    /\ Alone /\ ConfigOK(c) /\ Ended
    /\ config' = c
    /\ counters' = ZeroCounters /\ kept' = 0 /\ lastError' = "AllocationFailed"
    /\ UNCHANGED <<updater, control, reader, numbers>>

(* The ring has the provisional two channels, the decoder is reset for two. *)
BeginSucceeds(c) ==
    /\ Alone /\ ConfigOK(c)
    /\ started' = TRUE /\ config' = c
    /\ queue' = <<>> /\ packetScratch' = NoPacket
    /\ pcm' = Ring(2) /\ pcmScratch' = Blank /\ decoder' = Decoder(TRUE, 2)
    /\ codecConfig' = NoCodec /\ format' = NoFormat /\ stamp' = NoStamp
    /\ counters' = ZeroCounters /\ kept' = 0 /\ lastError' = "None"
    /\ updating' = FALSE
    /\ UNCHANGED <<updater, control, reader, numbers>>

Begin(c) == BeginRejected(c) \/ BeginFails(c) \/ BeginSucceeds(c)

-----------------------------------------------------------------------------
(* pushEncoded(): the Bluetooth task. *)

Advances(t) == ~stamp.have \/ t > stamp.last

(* Lines 132-153.  The packet is stored whole or counted as dropped.        *)
PushEncoded(kind, t) ==
    /\ started /\ pushes < MaxPushes
    /\ pushes' = pushes + 1
    /\ stamp' = [have |-> TRUE, last |-> t]
    /\ LET p     == [kind |-> kind, n |-> pushes + 1, session |-> session]
           fits  == QueueHolds(p)
           moved == [counters EXCEPT !.received = (@ + 1) % WordMod,
                                     !.discontinuities =
                                        IF Advances(t) THEN @ ELSE (@ + 1) % WordMod]
       IN \/ /\ fits /\ Queue!Accept(p)
             /\ counters' = moved
             /\ UNCHANGED lastError
          \/ /\ ~fits
             /\ counters' = [moved EXCEPT !.dropped = (@ + 1) % WordMod]
             /\ lastError' = "QueueOverflow"
             /\ UNCHANGED <<queue, packetScratch>>
    /\ UNCHANGED <<setup, pcm, pcmScratch, decoder, kept, calls, session, serial, heard>>

(* Lines 132-136. *)
PushRefused ==
    /\ ~started
    /\ lastError' = "NotInitialized"
    /\ UNCHANGED <<ring, setup, decoder, stamp, account, calls, numbers>>

-----------------------------------------------------------------------------
(* setCodecConfig() and reset(). *)

(* reset() begins: everything buffered belongs to an earlier session now.   *)
(* `error' is what setCodecConfig() stores in lastError_ after it.          *)
StartReset(error) ==
    /\ session < MaxSessions
    /\ session' = session + 1
    /\ control' = [pc |-> "queue", error |-> error]

SetCodecRefused ==
    /\ control = Quiet /\ MayBegin("control") /\ ~started
    /\ lastError' = "NotInitialized"
    /\ UNCHANGED <<ring, setup, decoder, stamp, account, calls, numbers>>

(* Lines 164-173: a codec this build does not know. *)
SetUnknownCodec(f) ==
    /\ f.codec # "Sbc"
    /\ codecConfig' = f /\ format' = NoFormat
    /\ StartReset("UnsupportedCodec")
    /\ UNCHANGED <<pcm, lastError>>

SameCodec(f) == f = codecConfig /\ IsValid(format)

FormatOf(f) ==
    [sampleRate |-> f.sampleRate, channels |-> IF f.channels = 1 THEN 1 ELSE 2]

(* Lines 184-190. *)
SetInvalidCodec(f) ==
    /\ f.codec = "Sbc" /\ ~SameCodec(f) /\ ~IsValid(FormatOf(f))
    /\ codecConfig' = f /\ format' = NoFormat
    /\ StartReset("InvalidConfiguration")
    /\ UNCHANGED <<pcm, lastError>>

(* Lines 192-201: the ring is rebuilt for another frame size; when that     *)
(* fails there is no ring, and reset() is not called.                       *)
RebuildFails(f) ==
    /\ f.codec = "Sbc" /\ ~SameCodec(f) /\ IsValid(FormatOf(f))
    /\ FormatOf(f).channels # pcm.channels
    /\ session < MaxSessions /\ session' = session + 1
    /\ codecConfig' = f /\ format' = NoFormat
    /\ pcm' = NoRing
    /\ lastError' = "AllocationFailed"
    /\ UNCHANGED control

SetCodec(f) ==
    /\ f.codec = "Sbc" /\ ~SameCodec(f) /\ IsValid(FormatOf(f))
    /\ codecConfig' = f /\ format' = FormatOf(f)
    /\ pcm' = IF FormatOf(f).channels # pcm.channels
              THEN Ring(FormatOf(f).channels)
              ELSE pcm
    /\ StartReset("None")
    /\ UNCHANGED lastError

SetCodecConfig(f) ==
    /\ control = Quiet /\ MayBegin("control") /\ started
    /\ SetUnknownCodec(f) \/ SetInvalidCodec(f) \/ RebuildFails(f) \/ SetCodec(f)
    /\ UNCHANGED <<queue, packetScratch, pcmScratch, started, config, decoder, stamp,
                   account, updating, updater, reader, pushes, serial, heard>>

Reset ==
    /\ control = Quiet /\ MayBegin("control")
    /\ StartReset("keep")
    /\ UNCHANGED <<ring, setup, decoder, stamp, account, lastError,
                   updating, updater, reader, pushes, serial, heard>>

ResetQueue ==
    /\ control.pc = "queue"
    /\ Queue!Empty
    /\ control' = [control EXCEPT !.pc = "pcm"]
    /\ UNCHANGED <<pcm, pcmScratch, setup, decoder, stamp, account, lastError,
                   updating, updater, reader, numbers>>

ResetPcmForgotten ==
    /\ control.pc = "pcm"
    /\ control' = [control EXCEPT !.pc = "decoder"]
    /\ UNCHANGED <<ring, setup, decoder, stamp, account, lastError,
                   updating, updater, reader, numbers>>

ResetPcm ==
    /\ control.pc = "pcm"
    /\ pcm' = Ring(pcm.channels)
    /\ control' = [control EXCEPT !.pc = "decoder"]
    /\ UNCHANGED <<queue, packetScratch, pcmScratch, setup, decoder, stamp, account,
                   lastError, updating, updater, reader, numbers>>

(* Line 214, and the filter memory that SbcDecoder::reset() clears.         *)
StrideTwo       == 2
StrideUnchecked == format.channels
ResetStride == IF IsValid(format) THEN format.channels ELSE 2

ResetDecoder ==
    /\ control.pc = "decoder"
    /\ decoder' = IF decoder.ready THEN Decoder(TRUE, ResetStride) ELSE decoder
    /\ stamp' = NoStamp
    /\ lastError' = IF control.error = "keep" THEN lastError ELSE control.error
    /\ control' = Quiet
    /\ UNCHANGED <<ring, setup, account, updating, updater, reader, numbers>>

ResetCounters ==
    /\ Alone
    /\ counters' = ZeroCounters /\ kept' = 0 /\ lastError' = "None"
    /\ UNCHANGED <<ring, setup, decoder, stamp, calls, numbers>>

-----------------------------------------------------------------------------
(* update(): one decoder, guarded by updating_. *)

Goto(u, pc) == updater' = [updater EXCEPT ![u] = [@ EXCEPT !.pc = pc]]
Leave(u)    == updating' = FALSE /\ updater' = [updater EXCEPT ![u] = Idle]

NextItem(u) ==
    updater' = [updater EXCEPT ![u] = [Idle EXCEPT !.pc = "decode", !.items = Tail(updater[u].items),
                                                   !.session = updater[u].session]]

(* UpdateGuard: the flag was not set before. *)
GuardIgnored == TRUE
GuardFree    == ~updating

UpdateRefused(u) ==
    /\ updater[u].pc = "idle" /\ MayBegin("update")
    /\ \/ ~started /\ lastError' = "NotInitialized"
       \/ started /\ ~GuardFree /\ lastError' = "ConcurrentUpdate"
    /\ UNCHANGED <<ring, setup, decoder, stamp, account, calls, numbers>>

(* Line 278: the exchange that takes updating_. *)
UpdateBegin(u) ==
    /\ updater[u].pc = "idle" /\ MayBegin("update")
    /\ started /\ GuardFree
    /\ updating' = TRUE
    /\ Goto(u, "format")
    /\ UNCHANGED <<ring, setup, decoder, stamp, account, lastError, control, reader, numbers>>

CheckFormat(u) ==
    /\ updater[u].pc = "format"
    /\ \/ IsValid(format) /\ Goto(u, "pop") /\ UNCHANGED updating
       \/ ~IsValid(format) /\ Leave(u)
    /\ UNCHANGED <<ring, setup, decoder, stamp, account, lastError, control, reader, numbers>>

(* pop() finds a packet that fits packetScratch_. *)
CanPop == queue # <<>> /\ Bytes[Head(queue).kind] <= config.maxPacket

PopPacket(u) ==
    /\ updater[u].pc = "pop" /\ CanPop
    /\ Queue!Take
    /\ updater' = [updater EXCEPT ![u] =
                    [@ EXCEPT !.pc = "decode", !.items = Items[packetScratch'.kind],
                              !.session = packetScratch'.session]]
    /\ UNCHANGED <<pcm, pcmScratch, setup, decoder, stamp, account, lastError,
                   updating, control, reader, numbers>>

UpdateEnds(u) ==
    /\ updater[u].pc = "pop" /\ ~CanPop
    /\ Leave(u)
    /\ UNCHANGED <<ring, setup, decoder, stamp, account, lastError, control, reader, numbers>>

(* The end of the packet, or a frame that it does not hold whole.           *)
PacketEnds(u) ==
    /\ updater[u].pc = "decode" /\ updater[u].items = <<>>
    /\ updater' = [updater EXCEPT ![u] = [Idle EXCEPT !.pc = "pop"]]
    /\ UNCHANGED <<ring, setup, decoder, stamp, account, lastError,
                   updating, control, reader, numbers>>

Stuck(u) == Head(updater[u].items) = Cut \/ ~decoder.ready

PacketCutRetried(u) ==
    /\ updater[u].pc = "decode" /\ updater[u].items # <<>> /\ Stuck(u)
    /\ counters' = [counters EXCEPT !.invalid = (@ + 1) % WordMod]
    /\ lastError' = "DecodeFailure"
    /\ UNCHANGED <<ring, setup, decoder, stamp, kept, calls, numbers>>

PacketCut(u) ==
    /\ updater[u].pc = "decode" /\ updater[u].items # <<>> /\ Stuck(u)
    /\ counters' = [counters EXCEPT !.invalid = (@ + 1) % WordMod,
                                    !.failures = (@ + 1) % WordMod]
    /\ lastError' = "DecodeFailure"
    /\ updater' = [updater EXCEPT ![u] = [Idle EXCEPT !.pc = "pop"]]
    /\ UNCHANGED <<ring, setup, decoder, stamp, kept, updating, control, reader, numbers>>

SkipByte(u) ==
    /\ updater[u].pc = "decode" /\ updater[u].items # <<>>
    /\ ~Stuck(u) /\ Head(updater[u].items) = Bad
    /\ counters' = Bump("invalid", 1)
    /\ lastError' = "InvalidFrame"
    /\ NextItem(u)
    /\ UNCHANGED <<ring, setup, decoder, stamp, kept, updating, control, reader, numbers>>

(* decodeFrame() succeeds: its PCM is in pcmScratch_, numbered by `serial'. *)
DecodeFrame(u) ==
    /\ updater[u].pc = "decode" /\ updater[u].items # <<>>
    /\ ~Stuck(u) /\ Head(updater[u].items) \in Rates
    /\ pcmScratch' = IntoScratch([i \in 1 .. FramePcm |->
                        [n |-> serial + i, session |-> updater[u].session]])
    /\ serial' = serial + FramePcm
    /\ decoder' = [decoder EXCEPT !.rate = Head(updater[u].items),
                                  !.history = updater[u].session]
    /\ counters' = Bump("decoded", 1)
    /\ updater' = [updater EXCEPT ![u] =
                    [@ EXCEPT !.pc = "room", !.frames = FramePcm, !.lost = 0]]
    /\ UNCHANGED <<queue, packetScratch, pcm, setup, stamp, kept, lastError,
                   updating, control, reader, session, pushes, heard>>

-----------------------------------------------------------------------------
(* writePcm() and the rate update behind it. *)

(* Line 235: the first look at the ring. *)
CheckRoomAnyPolicy(u) ==
    /\ updater[u].pc = "room"
    /\ Goto(u, IF Free >= updater[u].frames THEN "write" ELSE "DropOldest")
    /\ UNCHANGED <<ring, setup, decoder, stamp, account, lastError,
                   updating, control, reader, numbers>>

CheckRoom(u) ==
    /\ updater[u].pc = "room"
    /\ Goto(u, IF Free >= updater[u].frames THEN "write" ELSE config.policy)
    /\ UNCHANGED <<ring, setup, decoder, stamp, account, lastError,
                   updating, control, reader, numbers>>

(* Line 244: the second look; size_t subtraction. *)
WholeFrame(frames)   == frames
ShortOf(frames)      == (frames - Free) % WordMod

MeasureOldest(u) ==
    /\ updater[u].pc = "DropOldest"
    /\ updater' = [updater EXCEPT ![u] =
                    [@ EXCEPT !.pc = "drop", !.needed = ShortOf(updater[u].frames)]]
    /\ UNCHANGED <<ring, setup, decoder, stamp, account, lastError,
                   updating, control, reader, numbers>>

(* Lines 245-252: one chunk is read out of the ring, into pcmScratch_.      *)
Droppable(u) ==
    Least(Least(updater[u].needed, ScratchFrames), Len(pcm.frames))

DropChunkUncounted(u) ==
    /\ updater[u].pc = "drop" /\ Droppable(u) > 0
    /\ pcmScratch' = IntoScratch(SubSeq(pcm.frames, 1, Droppable(u)))
    /\ pcm' = RingTail(Droppable(u)) /\ kept' = kept - Droppable(u)
    /\ updater' = [updater EXCEPT ![u] =
                    [@ EXCEPT !.needed = updater[u].needed - Droppable(u),
                              !.lost = updater[u].lost + Droppable(u)]]
    /\ UNCHANGED <<queue, packetScratch, setup, decoder, stamp, counters, lastError,
                   updating, control, reader, numbers>>

DropChunk(u) ==
    /\ updater[u].pc = "drop" /\ Droppable(u) > 0
    /\ pcmScratch' = IntoScratch(SubSeq(pcm.frames, 1, Droppable(u)))
    /\ pcm' = RingTail(Droppable(u)) /\ kept' = kept - Droppable(u)
    /\ counters' = Bump("overflow", Droppable(u))
    /\ updater' = [updater EXCEPT ![u] =
                    [@ EXCEPT !.needed = updater[u].needed - Droppable(u),
                              !.lost = updater[u].lost + Droppable(u)]]
    /\ UNCHANGED <<queue, packetScratch, setup, decoder, stamp, lastError,
                   updating, control, reader, numbers>>

DropDone(u) ==
    /\ updater[u].pc = "drop" /\ Droppable(u) = 0
    /\ lastError' = "PcmOverflow"
    /\ Goto(u, "write")
    /\ UNCHANGED <<ring, setup, decoder, stamp, account, updating, control, reader, numbers>>

(* Lines 259-263: the second look; the tail of the frame is given up.       *)
KeepRoom(u) ==
    /\ updater[u].pc = "DropNewest"
    /\ counters' = Bump("overflow", updater[u].frames - Free)
    /\ lastError' = "PcmOverflow"
    /\ updater' = [updater EXCEPT ![u] =
                    [@ EXCEPT !.pc = IF Free = 0 THEN "rate" ELSE "write",
                              !.frames = Free,
                              !.lost = updater[u].frames - Free]]
    /\ UNCHANGED <<ring, setup, decoder, stamp, kept, updating, control, reader, numbers>>

(* Line 267: PCMRingBuffer::writeFrames() takes what it has room for.       *)
Writable(u) == Least(updater[u].frames, Free)

WritePcm(u) ==
    /\ updater[u].pc = "write"
    /\ pcm' = [pcm EXCEPT !.frames = @ \o FromScratch(Writable(u))]
    /\ kept' = kept + Writable(u)
    /\ Goto(u, "rate")
    /\ UNCHANGED <<queue, packetScratch, pcmScratch, setup, decoder, stamp, counters,
                   lastError, updating, control, reader, numbers>>

(* Lines 303-307. *)
AdoptRate(u) ==
    /\ updater[u].pc = "rate"
    /\ format' = IF decoder.rate # NoRate
                 THEN [format EXCEPT !.sampleRate = decoder.rate]
                 ELSE format
    /\ NextItem(u)
    /\ UNCHANGED <<ring, started, config, codecConfig, decoder, stamp, account,
                   lastError, updating, control, reader, numbers>>

-----------------------------------------------------------------------------
(* readFrames(): PCMRingBuffer::readFrames() takes what is there. *)

ReadBegin ==
    /\ reader = "idle" /\ MayBegin("read") /\ started
    /\ reader' = "in"
    /\ UNCHANGED <<ring, setup, decoder, stamp, account, lastError,
                   updating, updater, control, numbers>>

ReadEnd(n) ==
    /\ reader = "in"
    /\ LET got == Least(n, Len(pcm.frames))
       IN /\ heard' = IF got = 0 THEN heard ELSE pcm.frames[got].n
          /\ pcm' = RingTail(got)
    /\ reader' = "idle"
    /\ UNCHANGED <<queue, packetScratch, pcmScratch, setup, decoder, stamp, account,
                   lastError, updating, updater, control, session, pushes, serial>>

-----------------------------------------------------------------------------

Lifetime   == End \/ \E c \in Configs : Begin(c)
Producer   == PushRefused \/ \E kind \in Kinds, t \in Timestamps : PushEncoded(kind, t)
ResetSteps == ResetQueue \/ ResetPcm \/ ResetDecoder
Control    == \/ SetCodecRefused \/ Reset \/ ResetSteps \/ ResetCounters
              \/ \E f \in Negotiations : SetCodecConfig(f)
Decode(u)  == PacketEnds(u) \/ PacketCut(u) \/ SkipByte(u) \/ DecodeFrame(u)
Write(u)   == \/ CheckRoom(u) \/ MeasureOldest(u) \/ DropChunk(u) \/ DropDone(u)
              \/ KeepRoom(u) \/ WritePcm(u) \/ AdoptRate(u)
UpdateRuns(u) == CheckFormat(u) \/ PopPacket(u) \/ UpdateEnds(u) \/ Decode(u) \/ Write(u)
Update(u)  == UpdateRefused(u) \/ UpdateBegin(u) \/ UpdateRuns(u)
Read       == ReadBegin \/ \E n \in ReadSizes : ReadEnd(n)

Next == Lifetime \/ Producer \/ Control \/ Read \/ \E u \in Updaters : Update(u)

Spec == Init /\ [][Next]_vars

(* The loop of the application calls update() again and again between its   *)
(* other calls, and every call that has begun runs to its end.              *)
Fairness ==
    /\ \A u \in Updaters : SF_vars(UpdateBegin(u)) /\ WF_vars(UpdateRuns(u))
    /\ WF_vars(ResetSteps) /\ WF_vars(\E n \in ReadSizes : ReadEnd(n))

FairSpec == Spec /\ Fairness

-----------------------------------------------------------------------------
(* Properties. *)

Word   == 0 .. WordMod - 1
Codecs == [codec : {"Sbc", "Other", "Unknown"}, sampleRate : Rates \cup {NoRate}, channels : Nat]

Counts == [received : Word, dropped : Word, invalid : Word, failures : Word,
           decoded : Word, overflow : Word, discontinuities : Word]

Found == Rates \cup {Bad, Cut}

(* Inside a frame, the frame is still the first thing found in the packet.  *)
UpdaterState ==
    [pc : {"idle", "format", "pop", "decode"},
     items : Seq(Found), session : 0 .. MaxSessions, frames : Nat, needed : Nat, lost : Int]
    \cup
    [pc : {"room", "DropOldest", "drop", "DropNewest", "write", "rate"},
     items : Seq(Found) \ {<<>>}, session : 0 .. MaxSessions,
     frames : Nat, needed : Nat, lost : Int]

ResetErrors == {"keep", "None", "UnsupportedCodec", "InvalidConfiguration"}

(* Type correctness, and a PCM ring that never holds more than begin() gave *)
(* it.                                                                      *)
TypeOK ==
    /\ started \in BOOLEAN /\ updating \in BOOLEAN /\ config \in Configs
    /\ queue \in Seq(Packet) /\ packetScratch \in Packet \cup {NoPacket}
    /\ pcm \in [channels : 0 .. 2, frames : Seq(PcmFrame)]
    /\ Len(pcm.frames) <= config.pcmFrames
    /\ pcmScratch \in [1 .. ScratchFrames -> PcmFrame]
    /\ decoder \in [ready : BOOLEAN, stride : 1 .. 2, rate : Rates \cup {NoRate},
                    history : 0 .. MaxSessions]
    /\ codecConfig \in Codecs
    /\ format \in [sampleRate : Rates \cup {NoRate}, channels : 0 .. 2]
    /\ stamp \in [have : BOOLEAN, last : Nat]
    /\ counters \in Counts
    /\ updater \in [Updaters -> UpdaterState]
    /\ control \in {Quiet} \cup [pc : {"queue", "pcm", "decoder"}, error : ResetErrors]
    /\ reader \in {"idle", "in"}
    /\ session \in 1 .. MaxSessions /\ pushes \in 0 .. MaxPushes
    /\ serial \in Nat /\ heard \in Nat /\ kept \in Int

(* Between calls, a stream that is ready has one layout: the ring's frame   *)
(* size, the format the application was told and the interleave the decoder *)
(* writes agree, through every renegotiation and every failed rebuild       *)
(* (setCodecConfig(), lines 179-207, and reset(), line 214).                *)
LayoutAgrees ==
    control = Quiet /\ IsReady =>
        decoder.ready /\ decoder.stride = format.channels /\ pcm.channels = format.channels

(* Nothing of an old session survives into the next ("no stale frames       *)
(* survive a codec reconfiguration or a stop", SPEC.md:480): once reset()   *)
(* returned, no packet pushed before it is stored or being decoded, no PCM  *)
(* of it is in the ring, and none of it is in the decoder's filters.        *)
NoStaleSession ==
    control = Quiet /\ IsReady =>
        /\ \A i \in DOMAIN queue : queue[i].session = session
        /\ \A i \in DOMAIN pcm.frames : pcm.frames[i].session = session
        /\ decoder.history \in {0, session}
        /\ \A u \in Updaters : updater[u].session \in {0, session}

PlayedInOrder ==
    \A i \in DOMAIN pcm.frames :
        pcm.frames[i].n > (IF i = 1 THEN heard ELSE pcm.frames[i - 1].n)

(* DropNewest keeps "what is already buffered contiguous" (A2dpSinkStream.h *)
(* 24-27): the PCM handed out is the PCM decoded, in its order, no frame    *)
(* twice.                                                                   *)
NewestKeepsOrder == config.policy = "DropNewest" => PlayedInOrder

(* DropOldest: "old PCM is not replayed" (SPEC.md:291), a consumer "resumes *)
(* at the current position" (A2dpSinkStream.h:20-22): the ring holds PCM in *)
(* the order in which it was decoded.                                       *)
OldestIsNotReplayed == config.policy = "DropOldest" => PlayedInOrder

(* Every PCM frame that was decoded is in the ring or is counted as lost:   *)
(* "discarded frames accumulate in pcmOverflowFrameCount()" (SPEC.md:291).  *)
FramesAccounted ==
    (\A u \in Updaters : updater[u].pc \in {"idle", "format", "pop", "decode"}) =>
        (kept + counters.overflow - FramePcm * counters.decoded) % WordMod = 0

(* Room for one decoded frame costs at most one frame's worth of PCM, "the  *)
(* most we ever need to drop in one go" (A2dpSinkStream.cpp:239-242), and   *)
(* never less than none, also while readFrames() frees room between the two *)
(* looks at it (lines 235 and 244 or 259; SPEC.md:277 lets it run in a task *)
(* of its own).                                                             *)
LossIsBounded ==
    \A u \in Updaters : updater[u].lost \in 0 .. FramePcm

(* PCM is given up only for want of room: a frame that cost any leaves the  *)
(* ring full.                                                               *)
LossIsNeeded ==
    \A u \in Updaters :
        updater[u].pc = "rate" /\ updater[u].lost > 0 => Free = 0

(* One decoder context, one update() inside it, whoever calls: the guard    *)
(* is held exactly while a call runs, so it is released by every way out    *)
(* (UpdateGuard, lines 24-40).                                              *)
OneUpdater ==
    /\ \A u, v \in Updaters : updater[u].pc # "idle" /\ updater[v].pc # "idle" => u = v
    /\ updating <=> \E u \in Updaters : updater[u].pc # "idle"

Sink == INSTANCE SinkStream
            WITH Packets <- Packet, Formats <- Negotiations, NoFormat <- NoCodec,
                 codec <- codecConfig, ready <- IsReady, stored <- queue

(* Seen from outside, the stream is a SinkStream: it stores nothing unless  *)
(* it is started, takes packets only when it can decode them, and settles   *)
(* its format only for a codec that it knows, through every refusal and     *)
(* failed allocation.                                                       *)
ImplementsSink == Sink!Spec

Stored(n) == \E i \in DOMAIN queue : queue[i].n = n

(* A packet that was accepted is decoded or discarded in the end, whatever  *)
(* malformed packets stand before it: the queue does not stall.             *)
PacketsLeave ==
    \A n \in 1 .. MaxPushes : Stored(n) /\ IsReady ~> ~Stored(n) \/ ~IsReady
=============================================================================
