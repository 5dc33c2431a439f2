------------------------ MODULE A2dpSinkStreamProofs ------------------------
(***************************************************************************)
(* Theorems about A2dpSinkStream, for every set of packets, configurations *)
(* and tasks, and whichever calls overlap.                                 *)
(***************************************************************************)
EXTENDS A2dpSinkStream, SequenceTheorems, TLAPS

USE DEF Bad, Cut, NoRate

-----------------------------------------------------------------------------
(* The helpers. *)

LEMMA WordType ==
    ASSUME NEW n \in Int
    PROVE  n % WordMod \in Word
BY SizesAssumption, SMT DEF Word

LEMMA NextWord == \A x \in Word : (x + 1) % WordMod \in Word
<1>1. TAKE x \in Word
<1>2. x + 1 \in Int
  BY SizesAssumption DEF Word
<1>. QED BY <1>2, WordType

LEMMA BumpType ==
    ASSUME TypeOK, NEW n \in Int,
           NEW name \in {"received", "dropped", "invalid", "failures",
                         "decoded", "overflow", "discontinuities"}
    PROVE  Bump(name, n) \in Counts
<1>1. \A x \in Word : (x + n) % WordMod \in Word
  BY WordType, SizesAssumption DEF Word
<1>2. CASE name = "received" BY <1>1, <1>2 DEF TypeOK, Bump, Counts
<1>3. CASE name = "dropped" BY <1>1, <1>3 DEF TypeOK, Bump, Counts
<1>4. CASE name = "invalid" BY <1>1, <1>4 DEF TypeOK, Bump, Counts
<1>5. CASE name = "failures" BY <1>1, <1>5 DEF TypeOK, Bump, Counts
<1>6. CASE name = "decoded" BY <1>1, <1>6 DEF TypeOK, Bump, Counts
<1>7. CASE name = "overflow" BY <1>1, <1>7 DEF TypeOK, Bump, Counts
<1>8. CASE name = "discontinuities" BY <1>1, <1>8 DEF TypeOK, Bump, Counts
<1>. QED BY <1>2, <1>3, <1>4, <1>5, <1>6, <1>7, <1>8

LEMMA ZeroCountersType == ZeroCounters \in Counts
BY SizesAssumption DEF ZeroCounters, Counts, Word

(* The ring has room for what begin() gave it and does not hold.            *)
LEMMA FreeType ==
    ASSUME TypeOK
    PROVE  /\ Free \in Nat
           /\ pcm.channels # 0 => Free = config.pcmFrames - Len(pcm.frames)
<1>1. config.pcmFrames \in Nat /\ Len(pcm.frames) \in Nat
  BY InputsAssumption, LenProperties DEF TypeOK
<1>. QED BY <1>1 DEF Free, TypeOK

LEMMA RingTailType ==
    ASSUME TypeOK, NEW n \in 0 .. Len(pcm.frames)
    PROVE  /\ RingTail(n) \in [channels : 0 .. 2, frames : Seq(PcmFrame)]
           /\ Len(RingTail(n).frames) = Len(pcm.frames) - n
           /\ RingTail(n).channels = pcm.channels
<1>1. pcm.frames \in Seq(PcmFrame)
  BY DEF TypeOK
<1>2. /\ SubSeq(pcm.frames, n + 1, Len(pcm.frames)) \in Seq(PcmFrame)
      /\ Len(SubSeq(pcm.frames, n + 1, Len(pcm.frames))) = Len(pcm.frames) - n
  BY <1>1, SubSeqProperties, LenProperties
<1>. QED BY <1>2 DEF RingTail, TypeOK

LEMMA IntoScratchType ==
    ASSUME TypeOK, NEW frames \in Seq(PcmFrame)
    PROVE  IntoScratch(frames) \in [1 .. ScratchFrames -> PcmFrame]
<1>1. \A i \in 1 .. Len(frames) : frames[i] \in PcmFrame
  BY ElementOfSeq
<1>2. Len(frames) \in Nat
  BY LenProperties
<1>. QED BY <1>1, <1>2, SizesAssumption DEF IntoScratch, TypeOK

LEMMA FromScratchType ==
    ASSUME TypeOK, NEW n \in Nat
    PROVE  FromScratch(n) \in Seq(PcmFrame) /\ Len(FromScratch(n)) = n
<1>1. \A i \in 1 .. n : FromScratch(n)[i] \in PcmFrame
  BY SizesAssumption DEF FromScratch, TypeOK, PcmFrame, Unwritten
<1>2. FromScratch(n) \in [1 .. n -> PcmFrame]
  BY <1>1 DEF FromScratch
<1>. QED BY <1>2, IsASeq, LenProperties

-----------------------------------------------------------------------------
(* Type correctness, step by step. *)

Rings    == [channels : 0 .. 2, frames : Seq(PcmFrame)]
Formats  == [sampleRate : Rates \cup {NoRate}, channels : 0 .. 2]
Decoders == [ready : BOOLEAN, stride : 1 .. 2, rate : Rates \cup {NoRate},
             history : 0 .. MaxSessions]

(* What begin(), end() and reset() store has its type.                      *)
LEMMA FreshType ==
    /\ NoRing \in Rings /\ NoRing.frames = <<>>
    /\ \A ch \in 1 .. 2 : Ring(ch) \in Rings /\ Ring(ch).frames = <<>> /\ Ring(ch).channels = ch
    /\ NoCodec \in Codecs /\ NoFormat \in Formats
    /\ NoStamp \in [have : BOOLEAN, last : Nat]
    /\ Blank \in [1 .. ScratchFrames -> PcmFrame]
    /\ Idle \in UpdaterState
    /\ Len(<<>>) = 0
<1>1. <<>> \in Seq(PcmFrame) /\ <<>> \in Seq(Found) /\ Len(<<>>) = 0
  BY EmptySeq
<1>2. /\ NoRing \in Rings /\ NoRing.frames = <<>>
      /\ \A ch \in 1 .. 2 : Ring(ch) \in Rings /\ Ring(ch).frames = <<>> /\ Ring(ch).channels = ch
  BY <1>1 DEF NoRing, Ring, Rings
<1>4. NoCodec \in Codecs /\ NoFormat \in Formats /\ NoStamp \in [have : BOOLEAN, last : Nat]
  BY DEF NoCodec, NoFormat, NoStamp, Codecs, Formats
<1>5. Blank \in [1 .. ScratchFrames -> PcmFrame]
  BY DEF Blank, PcmFrame, Unwritten
<1>6. Idle \in UpdaterState
  BY <1>1, SizesAssumption DEF Idle, UpdaterState
<1>. QED BY <1>1, <1>2, <1>4, <1>5, <1>6

LEMMA TypeInit == Init => TypeOK
<1> SUFFICES ASSUME Init PROVE TypeOK
  OBVIOUS
<1>1. config.pcmFrames \in Nat
  BY InputsAssumption DEF Init
<1>2. queue \in Seq(Packet)
  BY EmptySeq DEF Init
<1>3. pcm \in Rings /\ Len(pcm.frames) <= config.pcmFrames
  BY <1>1, FreshType DEF Init
<1>4. decoder \in Decoders /\ counters \in Counts
  BY ZeroCountersType, SizesAssumption DEF Init, Decoder, Decoders
<1>5. updater \in [Updaters -> UpdaterState]
  BY FreshType DEF Init
<1>6. /\ started \in BOOLEAN /\ updating \in BOOLEAN /\ config \in Configs
      /\ packetScratch = NoPacket /\ pcmScratch \in [1 .. ScratchFrames -> PcmFrame]
      /\ codecConfig \in Codecs /\ format \in Formats
      /\ stamp \in [have : BOOLEAN, last : Nat]
  BY FreshType DEF Init
<1>7. /\ control = Quiet /\ reader \in {"idle", "in"}
      /\ session \in 1 .. MaxSessions /\ pushes \in 0 .. MaxPushes
      /\ serial \in Nat /\ heard \in Nat /\ kept \in Int
  BY SizesAssumption DEF Init
<1>. QED BY <1>2, <1>3, <1>4, <1>5, <1>6, <1>7 DEF TypeOK, Rings, Formats, Decoders

(* begin() and end(). *)
LEMMA EndedType ==
    ASSUME Ended
    PROVE  /\ started' \in BOOLEAN /\ updating' \in BOOLEAN
           /\ queue' \in Seq(Packet) /\ packetScratch' = NoPacket
           /\ pcm' \in Rings /\ Len(pcm'.frames) = 0
           /\ pcmScratch' \in [1 .. ScratchFrames -> PcmFrame]
           /\ decoder' \in Decoders /\ codecConfig' \in Codecs /\ format' \in Formats
           /\ stamp' \in [have : BOOLEAN, last : Nat]
<1>1. decoder' \in Decoders
  BY SizesAssumption DEF Ended, Decoder, Decoders
<1>. QED BY <1>1, FreshType, EmptySeq DEF Ended

LEMMA LifetimeType == TypeOK /\ Lifetime => TypeOK'
<1> SUFFICES ASSUME TypeOK, Lifetime PROVE TypeOK'
  OBVIOUS
<1>1. \A c \in Configs : c.pcmFrames \in Nat
  BY InputsAssumption
<1>2. ZeroCounters \in Counts
  BY ZeroCountersType
<1>3. CASE End
  BY <1>1, <1>3, EndedType
     DEF End, TypeOK, Rings, Decoders, Formats, account, numbers
<1>4. ASSUME NEW c \in Configs, BeginRejected(c) PROVE TypeOK'
  BY <1>1, <1>2, <1>4, EndedType
     DEF BeginRejected, TypeOK, Rings, Decoders, Formats, numbers
<1>5. ASSUME NEW c \in Configs, BeginFails(c) PROVE TypeOK'
  BY <1>1, <1>2, <1>5, EndedType
     DEF BeginFails, TypeOK, Rings, Decoders, Formats, numbers
<1>6. ASSUME NEW c \in Configs, BeginSucceeds(c) PROVE TypeOK'
  <2>1. queue' \in Seq(Packet)
    BY <1>6, EmptySeq DEF BeginSucceeds
  <2>2. pcm' \in Rings /\ Len(pcm'.frames) = 0
    BY <1>6, FreshType DEF BeginSucceeds
  <2>3. decoder' \in Decoders
    BY <1>6, SizesAssumption DEF BeginSucceeds, Decoder, Decoders
  <2>4. /\ started' \in BOOLEAN /\ updating' \in BOOLEAN /\ config' \in Configs
        /\ packetScratch' = NoPacket /\ pcmScratch' \in [1 .. ScratchFrames -> PcmFrame]
        /\ codecConfig' \in Codecs /\ format' \in Formats
        /\ stamp' \in [have : BOOLEAN, last : Nat] /\ counters' \in Counts
    BY <1>2, <1>6, FreshType DEF BeginSucceeds
  <2>5. UNCHANGED <<updater, control, reader, numbers>> /\ config' = c /\ kept' \in Int
    BY <1>6 DEF BeginSucceeds
  <2>. QED BY <1>1, <2>1, <2>2, <2>3, <2>4, <2>5
           DEF TypeOK, Rings, Decoders, Formats, numbers
<1>. QED BY <1>3, <1>4, <1>5, <1>6 DEF Lifetime, Begin

(* pushEncoded(). *)
LEMMA ProducerType == TypeOK /\ Producer => TypeOK'
<1> SUFFICES ASSUME TypeOK, Producer PROVE TypeOK'
  OBVIOUS
<1>1. CASE PushRefused
  BY <1>1 DEF PushRefused, TypeOK, ring, setup, account, calls, numbers
<1>2. ASSUME NEW kind \in Kinds, NEW t \in Timestamps, PushEncoded(kind, t)
      PROVE  TypeOK'
  <2>1. pushes' \in 1 .. MaxPushes /\ stamp' \in [have : BOOLEAN, last : Nat]
    <3>1. /\ pushes < MaxPushes /\ pushes' = pushes + 1
          /\ stamp' = [have |-> TRUE, last |-> t]
      BY <1>2 DEF PushEncoded
    <3>2. pushes \in Nat /\ MaxPushes \in Nat /\ t \in Nat
      BY SizesAssumption DEF TypeOK
    <3>. QED BY <3>1, <3>2
  <2>2. counters' \in Counts
    <3>1. \A x \in Word : (x + 1) % WordMod \in Word
      BY NextWord
    <3> DEFINE moved == [counters EXCEPT
                            !.received = (@ + 1) % WordMod,
                            !.discontinuities =
                                IF Advances(t) THEN @ ELSE (@ + 1) % WordMod]
    <3>2. moved \in Counts
      BY <3>1 DEF TypeOK, Counts
    <3>3. \/ counters' = moved
          \/ counters' = [moved EXCEPT !.dropped = (@ + 1) % WordMod]
      BY <1>2 DEF PushEncoded
    <3> HIDE DEF moved
    <3>. QED BY <3>1, <3>2, <3>3 DEF Counts
  <2>3. queue' \in Seq(Packet) /\ packetScratch' = packetScratch
    <3> DEFINE p == [kind |-> kind, n |-> pushes + 1, session |-> session]
    <3>1. p \in Packet
      BY <1>2, <2>1 DEF PushEncoded, TypeOK, Packet
    <3>2. \/ queue' = Append(queue, p) /\ packetScratch' = packetScratch
          \/ queue' = queue /\ packetScratch' = packetScratch
      BY <1>2 DEF PushEncoded, Queue!Accept
    <3>3. queue \in Seq(Packet)
      BY DEF TypeOK
    <3> HIDE DEF p
    <3>4. Append(queue, p) \in Seq(Packet)
      BY <3>1, <3>3, AppendProperties
    <3>. QED BY <3>2, <3>3, <3>4
  <2>. QED BY <1>2, <2>1, <2>2, <2>3 DEF PushEncoded, TypeOK, setup, calls
<1>. QED BY <1>1, <1>2 DEF Producer

Controls == {Quiet} \cup [pc : {"queue", "pcm", "decoder"}, error : ResetErrors]

(* setCodecConfig(), by each of its ways out.                               *)
LEMMA FormatOfType ==
    ASSUME NEW f \in Negotiations
    PROVE  f \in Codecs /\ FormatOf(f) \in Formats /\ FormatOf(f).channels \in 1 .. 2
BY InputsAssumption DEF FormatOf, Formats, Codecs

LEMMA SetCodecConfigType ==
    ASSUME TypeOK, NEW f \in Negotiations, SetCodecConfig(f)
    PROVE  TypeOK'
<1>1. f \in Codecs /\ FormatOf(f) \in Formats /\ FormatOf(f).channels \in 1 .. 2
  BY FormatOfType
<1>2. config.pcmFrames \in Nat
  BY InputsAssumption DEF TypeOK
<1>3. /\ UNCHANGED <<queue, packetScratch, pcmScratch, started, config, decoder, stamp,
                     account, updating, updater, reader, pushes, serial, heard>>
      /\ SetUnknownCodec(f) \/ SetInvalidCodec(f) \/ RebuildFails(f) \/ SetCodec(f)
  BY DEF SetCodecConfig
<1>4. /\ codecConfig' \in Codecs /\ format' \in Formats
      /\ session' \in 1 .. MaxSessions
  BY <1>1, <1>3, FreshType, SizesAssumption
     DEF TypeOK, SetUnknownCodec, SetInvalidCodec, RebuildFails, SetCodec, StartReset
<1>5. control' \in Controls
  <2>1. control \in Controls
    BY DEF TypeOK, Controls
  <2>2. \/ control' = control
        \/ control' = [pc |-> "queue", error |-> "UnsupportedCodec"]
        \/ control' = [pc |-> "queue", error |-> "InvalidConfiguration"]
        \/ control' = [pc |-> "queue", error |-> "None"]
    BY <1>3 DEF SetUnknownCodec, SetInvalidCodec, RebuildFails, SetCodec, StartReset
  <2>. QED BY <2>1, <2>2 DEF Controls, ResetErrors
<1>6. pcm' = pcm \/ pcm' = NoRing \/ \E ch \in 1 .. 2 : pcm' = Ring(ch)
  BY <1>1, <1>3 DEF SetUnknownCodec, SetInvalidCodec, RebuildFails, SetCodec
<1>7. pcm' \in Rings /\ Len(pcm'.frames) <= config.pcmFrames
  BY <1>2, <1>6, FreshType DEF TypeOK, Rings
<1>. QED BY <1>3, <1>4, <1>5, <1>7 DEF TypeOK, Rings, Formats, Controls, account

LEMMA ResetStepsType ==
    ASSUME TypeOK, ResetSteps
    PROVE  TypeOK'
<1>1. CASE ResetQueue
  <2>1. queue' \in Seq(Packet) /\ packetScratch' = packetScratch
    BY <1>1, EmptySeq DEF ResetQueue, Queue!Empty
  <2>2. control' \in Controls
    <3>1. control.pc = "queue" /\ control' = [control EXCEPT !.pc = "pcm"]
      BY <1>1 DEF ResetQueue
    <3>2. control \in [pc : {"queue", "pcm", "decoder"}, error : ResetErrors]
      BY <3>1 DEF TypeOK, Quiet
    <3>. QED BY <3>1, <3>2 DEF Controls
  <2>. QED BY <1>1, <2>1, <2>2
           DEF ResetQueue, TypeOK, Controls, setup, account, numbers
<1>2. CASE ResetPcm
  <2>1. pcm' \in Rings /\ Len(pcm'.frames) <= config.pcmFrames
    <3>1. config.pcmFrames \in Nat
      BY InputsAssumption DEF TypeOK
    <3>. QED BY <1>2, <3>1, EmptySeq DEF ResetPcm, TypeOK, Ring, Rings
  <2>2. control' \in Controls
    BY <1>2 DEF ResetPcm, TypeOK, Controls, Quiet
  <2>. QED BY <1>2, <2>1, <2>2
           DEF ResetPcm, TypeOK, Controls, Rings, setup, account, numbers
<1>3. CASE ResetDecoder
  <2>1. ResetStride \in 1 .. 2
    BY DEF TypeOK, ResetStride, IsValid
  <2>2. decoder' \in Decoders
    BY <1>3, <2>1, SizesAssumption DEF ResetDecoder, TypeOK, Decoder, Decoders
  <2>3. stamp' \in [have : BOOLEAN, last : Nat]
    BY <1>3, FreshType DEF ResetDecoder
  <2>. QED BY <1>3, <2>2, <2>3
           DEF ResetDecoder, TypeOK, Decoders, Quiet, ring, setup, account, numbers
<1>. QED BY <1>1, <1>2, <1>3 DEF ResetSteps

LEMMA ControlType == TypeOK /\ Control => TypeOK'
<1> SUFFICES ASSUME TypeOK, Control PROVE TypeOK'
  OBVIOUS
<1>1. CASE SetCodecRefused
  BY <1>1 DEF SetCodecRefused, TypeOK, ring, setup, account, calls, numbers
<1>2. CASE Reset
  <2>1. session' \in 1 .. MaxSessions /\ control' \in Controls
    <3>1. control' = [pc |-> "queue", error |-> "keep"] /\ session' \in 1 .. MaxSessions
      BY <1>2, SizesAssumption DEF Reset, StartReset, TypeOK
    <3>. QED BY <3>1 DEF Controls, ResetErrors
  <2>. QED BY <1>2, <2>1 DEF Reset, TypeOK, Controls, ring, setup, account
<1>3. CASE ResetSteps
  BY <1>3, ResetStepsType
<1>4. CASE ResetCounters
  BY <1>4, ZeroCountersType DEF ResetCounters, TypeOK, ring, setup, calls, numbers
<1>5. ASSUME NEW f \in Negotiations, SetCodecConfig(f) PROVE TypeOK'
  BY <1>5, SetCodecConfigType
<1>. QED BY <1>1, <1>2, <1>3, <1>4, <1>5 DEF Control

(* readFrames(). *)
LEMMA ReadType == TypeOK /\ Read => TypeOK'
<1> SUFFICES ASSUME TypeOK, Read PROVE TypeOK'
  OBVIOUS
<1>1. CASE ReadBegin
  BY <1>1 DEF ReadBegin, TypeOK, ring, setup, account, numbers
<1>2. ASSUME NEW n \in ReadSizes, ReadEnd(n) PROVE TypeOK'
  <2> DEFINE got == Least(n, Len(pcm.frames))
  <2>1. pcm.frames \in Seq(PcmFrame) /\ Len(pcm.frames) \in Nat
    BY LenProperties DEF TypeOK
  <2>2. got \in 0 .. Len(pcm.frames)
    BY <2>1, SizesAssumption DEF Least
  <2>3. pcm' = RingTail(got) /\ heard' = IF got = 0 THEN heard ELSE pcm.frames[got].n
    BY <1>2 DEF ReadEnd
  <2> HIDE DEF got
  <2>4. pcm' \in Rings /\ Len(pcm'.frames) <= config.pcmFrames
    <3>1. config.pcmFrames \in Nat
      BY InputsAssumption DEF TypeOK
    <3>. QED BY <2>1, <2>2, <2>3, <3>1, RingTailType DEF TypeOK, Rings
  <2>5. heard' \in Nat
    <3>1. CASE got = 0
      BY <2>3, <3>1 DEF TypeOK
    <3>2. CASE got # 0
      <4>1. pcm.frames[got] \in PcmFrame
        BY <2>1, <2>2, <3>2, ElementOfSeq
      <4>. QED BY <2>3, <3>2, <4>1 DEF PcmFrame
    <3>. QED BY <3>1, <3>2
  <2>. QED BY <1>2, <2>4, <2>5 DEF ReadEnd, TypeOK, Rings, setup, account
<1>. QED BY <1>1, <1>2 DEF Read

(* update(): most of its steps move only the call itself and the counters.  *)
LEMMA CallStepType ==
    ASSUME TypeOK,
           updating' \in BOOLEAN, updater' \in [Updaters -> UpdaterState],
           counters' \in Counts,
           UNCHANGED <<ring, setup, decoder, stamp, kept, control, reader, numbers>>
    PROVE  TypeOK'
BY DEF TypeOK, ring, setup, numbers

(* One call goes to another of its places.                                  *)
LEMMA MoveType ==
    ASSUME TypeOK, NEW u \in Updaters, NEW s \in UpdaterState,
           updater' = [updater EXCEPT ![u] = s]
    PROVE  updater' \in [Updaters -> UpdaterState]
BY DEF TypeOK

Outside == {"idle", "format", "pop", "decode"}
Inside  == {"room", "DropOldest", "drop", "DropNewest", "write", "rate"}

LEMMA PlaceType ==
    ASSUME TypeOK, NEW u \in Updaters
    PROVE  /\ updater[u] \in UpdaterState
           /\ \A pc \in Outside : [updater[u] EXCEPT !.pc = pc] \in UpdaterState
           /\ updater[u].pc \in Inside =>
                 /\ updater[u].items # <<>>
                 /\ \A pc \in Inside : [updater[u] EXCEPT !.pc = pc] \in UpdaterState
           /\ updater[u].items \in Seq(Found) /\ updater[u].session \in 0 .. MaxSessions
           /\ updater[u].frames \in Nat /\ updater[u].needed \in Nat /\ updater[u].lost \in Int
<1>1. updater[u] \in UpdaterState
  BY DEF TypeOK
<1>. QED BY <1>1 DEF UpdaterState, Outside, Inside

Fetching == [pc : Outside, items : Seq(Found), session : 0 .. MaxSessions,
             frames : Nat, needed : Nat, lost : Int]

LEMMA IdleType ==
    /\ Idle \in Fetching /\ Fetching \subseteq UpdaterState
    /\ [Idle EXCEPT !.pc = "pop"] \in UpdaterState
<1>1. <<>> \in Seq(Found) /\ 0 \in 0 .. MaxSessions
  BY EmptySeq, SizesAssumption
<1>2. Idle \in Fetching
  BY <1>1 DEF Idle, Fetching, Outside
<1>3. Fetching \subseteq UpdaterState
  BY DEF Fetching, UpdaterState, Outside
<1>4. [Idle EXCEPT !.pc = "pop"] \in Fetching
  BY <1>2 DEF Fetching, Outside
<1>. QED BY <1>2, <1>3, <1>4

LEMMA FetchingType ==
    ASSUME TypeOK, NEW u \in Updaters, updater[u].pc \in Outside
    PROVE  updater[u] \in Fetching
BY PlaceType DEF UpdaterState, Fetching, Outside

Handling == [pc : Inside, items : Seq(Found) \ {<<>>}, session : 0 .. MaxSessions,
             frames : Nat, needed : Nat, lost : Int]

LEMMA HandlingType ==
    /\ Handling \subseteq UpdaterState
    /\ TypeOK => \A u \in Updaters : updater[u].pc \in Inside => updater[u] \in Handling
BY PlaceType DEF UpdaterState, Handling, Inside

LEMMA NextItemType ==
    ASSUME TypeOK, NEW u \in Updaters, updater[u].items # <<>>, NextItem(u)
    PROVE  updater' \in [Updaters -> UpdaterState]
<1>1. Tail(updater[u].items) \in Seq(Found)
  BY PlaceType, HeadTailProperties
<1>2. [Idle EXCEPT !.pc = "decode", !.items = Tail(updater[u].items),
                   !.session = updater[u].session] \in Fetching
  BY <1>1, IdleType, PlaceType DEF Fetching, Outside
<1>. QED BY <1>2, IdleType, MoveType DEF NextItem

(* update() up to the frames of a packet.                                   *)
LEMMA EntryType ==
    ASSUME TypeOK, NEW u \in Updaters,
           UpdateRefused(u) \/ UpdateBegin(u) \/ CheckFormat(u) \/ UpdateEnds(u)
    PROVE  TypeOK'
<1>1. CASE UpdateRefused(u)
  BY <1>1 DEF UpdateRefused, TypeOK, ring, setup, account, calls, numbers
<1>2. CASE UpdateBegin(u)
  <2>1. updater' \in [Updaters -> UpdaterState]
    BY <1>2, PlaceType, MoveType DEF UpdateBegin, Goto, Outside
  <2>. QED BY <1>2, <2>1, CallStepType DEF UpdateBegin, TypeOK, account
<1>3. CASE CheckFormat(u)
  <2>1. updater' \in [Updaters -> UpdaterState] /\ updating' \in BOOLEAN
    BY <1>3, PlaceType, IdleType, MoveType DEF CheckFormat, Goto, Leave, Outside, TypeOK
  <2>. QED BY <1>3, <2>1, CallStepType DEF CheckFormat, TypeOK, account
<1>4. CASE UpdateEnds(u)
  <2>1. updater' \in [Updaters -> UpdaterState] /\ updating' \in BOOLEAN
    BY <1>4, IdleType, MoveType DEF UpdateEnds, Leave
  <2>. QED BY <1>4, <2>1, CallStepType DEF UpdateEnds, TypeOK, account
<1>. QED BY <1>1, <1>2, <1>3, <1>4

LEMMA PopPacketType ==
    ASSUME TypeOK, NEW u \in Updaters, PopPacket(u)
    PROVE  TypeOK'
<1>1. queue # <<>> /\ packetScratch' = Head(queue) /\ queue' = Tail(queue)
  BY DEF PopPacket, Queue!Take
<1>2. packetScratch' \in Packet /\ queue' \in Seq(Packet)
  BY <1>1, HeadTailProperties DEF TypeOK
<1>3. Items[packetScratch'.kind] \in Seq(Found) /\ packetScratch'.session \in 0 .. MaxSessions
  BY <1>2, InputsAssumption, SizesAssumption DEF Packet, Found
<1>4. [updater[u] EXCEPT !.pc = "decode", !.items = Items[packetScratch'.kind],
                         !.session = packetScratch'.session] \in Fetching
  <2>1. updater[u] \in Fetching
    BY FetchingType DEF PopPacket, Outside
  <2>. QED BY <1>3, <2>1 DEF Fetching, Outside
<1>5. updater' \in [Updaters -> UpdaterState]
  BY <1>4, IdleType, MoveType DEF PopPacket
<1>. QED BY <1>2, <1>5 DEF PopPacket, TypeOK, setup, account, numbers

LEMMA DecodeFrameType ==
    ASSUME TypeOK, NEW u \in Updaters, DecodeFrame(u)
    PROVE  TypeOK'
<1>1. pcmScratch' \in [1 .. ScratchFrames -> PcmFrame]
  <2> DEFINE frames == [i \in 1 .. FramePcm |->
                          [n |-> serial + i, session |-> updater[u].session]]
  <2>1. \A i \in 1 .. FramePcm : frames[i] \in PcmFrame
    BY PlaceType DEF TypeOK, PcmFrame
  <2>2. frames \in Seq(PcmFrame)
    BY <2>1, SizesAssumption, IsASeq
  <2>3. pcmScratch' = IntoScratch(frames)
    BY DEF DecodeFrame
  <2> HIDE DEF frames
  <2>. QED BY <2>2, <2>3, IntoScratchType
<1>2. decoder' \in Decoders
  <2>1. Head(updater[u].items) \in Rates /\ updater[u].session \in 0 .. MaxSessions
    BY PlaceType DEF DecodeFrame
  <2>2. decoder' = [decoder EXCEPT !.rate = Head(updater[u].items),
                                   !.history = updater[u].session]
    BY DEF DecodeFrame
  <2>. QED BY <2>1, <2>2 DEF TypeOK, Decoders
<1>3. counters' \in Counts /\ serial' \in Nat
  BY BumpType, SizesAssumption DEF DecodeFrame, TypeOK
<1>4. updater' \in [Updaters -> UpdaterState]
  <2>1. updater[u] \in Fetching /\ updater[u].items # <<>>
    BY FetchingType DEF DecodeFrame, Outside
  <2>2. FramePcm \in Nat /\ 0 \in Int
    BY SizesAssumption
  <2>3. \A lost \in Int :
           [updater[u] EXCEPT !.pc = "room", !.frames = FramePcm, !.lost = lost] \in Handling
    BY <2>1, <2>2 DEF Fetching, Handling, Inside
  <2>4. [updater[u] EXCEPT !.pc = "room", !.frames = FramePcm, !.lost = 0] \in Handling
    BY <2>2, <2>3, Zenon
  <2>. QED BY <2>4, HandlingType, MoveType DEF DecodeFrame
<1>. QED BY <1>1, <1>2, <1>3, <1>4 DEF DecodeFrame, TypeOK, Decoders, setup

(* The loop over the frames of a packet.                                    *)
LEMMA DecodeType ==
    ASSUME TypeOK, NEW u \in Updaters, Decode(u)
    PROVE  TypeOK'
<1>1. CASE PacketEnds(u)
  <2>1. updater' \in [Updaters -> UpdaterState]
    BY <1>1, IdleType, MoveType DEF PacketEnds
  <2>. QED BY <1>1, <2>1, CallStepType DEF PacketEnds, TypeOK, account
<1>2. CASE PacketCut(u)
  <2>1. updater' \in [Updaters -> UpdaterState]
    BY <1>2, IdleType, MoveType DEF PacketCut
  <2>2. counters' \in Counts
    BY <1>2, NextWord DEF PacketCut, TypeOK, Counts
  <2>. QED BY <1>2, <2>1, <2>2, CallStepType DEF PacketCut, TypeOK
<1>3. CASE SkipByte(u)
  <2>1. updater' \in [Updaters -> UpdaterState]
    BY <1>3, NextItemType DEF SkipByte
  <2>2. counters' \in Counts
    BY <1>3, BumpType DEF SkipByte
  <2>. QED BY <1>3, <2>1, <2>2, CallStepType DEF SkipByte, TypeOK
<1>4. CASE DecodeFrame(u)
  BY <1>4, DecodeFrameType
<1>. QED BY <1>1, <1>2, <1>3, <1>4 DEF Decode

(* The overflow policies.                                                   *)
LEMMA RoomType ==
    ASSUME TypeOK, NEW u \in Updaters,
           CheckRoom(u) \/ MeasureOldest(u) \/ DropDone(u) \/ KeepRoom(u)
    PROVE  TypeOK'
<1>1. Free \in Nat
  BY FreeType
<1>2. CASE CheckRoom(u)
  <2>1. updater[u] \in Handling
    BY <1>2, HandlingType DEF CheckRoom, Inside
  <2>2. config.policy \in {"DropOldest", "DropNewest"}
    BY InputsAssumption DEF TypeOK
  <2>3. \E pc \in Inside : updater' = [updater EXCEPT ![u] = [@ EXCEPT !.pc = pc]]
    BY <1>2, <2>2 DEF CheckRoom, Goto, Inside
  <2>4. updater' \in [Updaters -> UpdaterState]
    BY <2>1, <2>3, HandlingType, MoveType DEF Handling
  <2>. QED BY <1>2, <2>4, CallStepType DEF CheckRoom, TypeOK, account
<1>3. CASE MeasureOldest(u)
  <2>1. updater[u] \in Handling
    BY <1>3, HandlingType DEF MeasureOldest, Inside
  <2>2. ShortOf(updater[u].frames) \in Nat
    BY <1>1, <2>1, WordType, SizesAssumption DEF ShortOf, Word, Handling
  <2>3. [updater[u] EXCEPT !.pc = "drop", !.needed = ShortOf(updater[u].frames)] \in Handling
    BY <2>1, <2>2 DEF Handling, Inside
  <2>4. updater' \in [Updaters -> UpdaterState]
    BY <1>3, <2>3, HandlingType, MoveType DEF MeasureOldest
  <2>. QED BY <1>3, <2>4, CallStepType DEF MeasureOldest, TypeOK, account
<1>4. CASE DropDone(u)
  <2>1. updater[u] \in Handling
    BY <1>4, HandlingType DEF DropDone, Inside
  <2>2. [updater[u] EXCEPT !.pc = "write"] \in Handling
    BY <2>1 DEF Handling, Inside
  <2>3. updater' \in [Updaters -> UpdaterState]
    BY <1>4, <2>2, HandlingType, MoveType DEF DropDone, Goto
  <2>. QED BY <1>4, <2>3, CallStepType DEF DropDone, TypeOK, account
<1>5. CASE KeepRoom(u)
  <2>1. updater[u] \in Handling
    BY <1>5, HandlingType DEF KeepRoom, Inside
  <2>2. updater[u].frames - Free \in Int
    BY <1>1, <2>1 DEF Handling
  <2>3. \A pc \in {"rate", "write"}, lost \in Int :
           [updater[u] EXCEPT !.pc = pc, !.frames = Free, !.lost = lost] \in Handling
    BY <1>1, <2>1 DEF Handling, Inside
  <2>4. updater' \in [Updaters -> UpdaterState]
    BY <1>5, <2>2, <2>3, HandlingType, MoveType DEF KeepRoom
  <2>5. counters' \in Counts
    BY <1>5, <2>2, BumpType DEF KeepRoom
  <2>. QED BY <1>5, <2>4, <2>5, CallStepType DEF KeepRoom, TypeOK
<1>. QED BY <1>2, <1>3, <1>4, <1>5

LEMMA DropChunkType ==
    ASSUME TypeOK, NEW u \in Updaters, DropChunk(u)
    PROVE  TypeOK'
<1>1. updater[u] \in Handling
  BY HandlingType DEF DropChunk, Inside
<1>2. pcm.frames \in Seq(PcmFrame) /\ Len(pcm.frames) \in Nat /\ config.pcmFrames \in Nat
  BY LenProperties, InputsAssumption DEF TypeOK
<1>3. Droppable(u) \in 0 .. Len(pcm.frames) /\ Droppable(u) <= updater[u].needed
  BY <1>1, <1>2, SizesAssumption DEF Droppable, Least, Handling
<1>4. pcmScratch' \in [1 .. ScratchFrames -> PcmFrame]
  <2>1. SubSeq(pcm.frames, 1, Droppable(u)) \in Seq(PcmFrame)
    BY <1>2, <1>3, SubSeqProperties
  <2>. QED BY <2>1, IntoScratchType DEF DropChunk
<1>5. pcm' \in Rings /\ Len(pcm'.frames) <= config.pcmFrames
  BY <1>2, <1>3, RingTailType DEF DropChunk, TypeOK, Rings
<1>6. counters' \in Counts /\ kept' \in Int
  BY <1>3, BumpType DEF DropChunk, TypeOK
<1>7. updater' \in [Updaters -> UpdaterState]
  <2>1. updater[u].needed - Droppable(u) \in Nat /\ updater[u].lost + Droppable(u) \in Int
    BY <1>1, <1>2, <1>3 DEF Handling
  <2>2. \A needed \in Nat, lost \in Int :
           [updater[u] EXCEPT !.needed = needed, !.lost = lost] \in Handling
    BY <1>1 DEF Handling
  <2>3. updater' = [updater EXCEPT ![u] = [updater[u] EXCEPT
                        !.needed = updater[u].needed - Droppable(u),
                        !.lost = updater[u].lost + Droppable(u)]]
    BY <1>1 DEF DropChunk, Handling
  <2>. QED BY <2>1, <2>2, <2>3, HandlingType, MoveType
<1>. QED BY <1>4, <1>5, <1>6, <1>7 DEF DropChunk, TypeOK, Rings, setup, numbers

LEMMA WritePcmType ==
    ASSUME TypeOK, NEW u \in Updaters, WritePcm(u)
    PROVE  TypeOK'
<1>1. updater[u] \in Handling
  BY HandlingType DEF WritePcm, Inside
<1>2. /\ pcm.frames \in Seq(PcmFrame) /\ Len(pcm.frames) \in Nat
      /\ config.pcmFrames \in Nat /\ Len(pcm.frames) <= config.pcmFrames
  BY LenProperties, InputsAssumption DEF TypeOK
<1>3. Writable(u) \in Nat /\ Writable(u) <= Free /\ Free \in Nat
  BY <1>1, FreeType DEF Writable, Least, Handling
<1>4. FromScratch(Writable(u)) \in Seq(PcmFrame) /\ Len(FromScratch(Writable(u))) = Writable(u)
  BY <1>3, FromScratchType
<1>5. /\ pcm.frames \o FromScratch(Writable(u)) \in Seq(PcmFrame)
      /\ Len(pcm.frames \o FromScratch(Writable(u))) = Len(pcm.frames) + Writable(u)
  BY <1>2, <1>4, ConcatProperties
<1>6. Len(pcm.frames) + Writable(u) <= config.pcmFrames
  BY <1>2, <1>3 DEF Free
<1>7. pcm' \in Rings /\ Len(pcm'.frames) <= config.pcmFrames
  BY <1>5, <1>6 DEF WritePcm, TypeOK, Rings
<1>8. updater' \in [Updaters -> UpdaterState]
  <2>1. [updater[u] EXCEPT !.pc = "rate"] \in Handling
    BY <1>1 DEF Handling, Inside
  <2>. QED BY <2>1, HandlingType, MoveType DEF WritePcm, Goto
<1>. QED BY <1>3, <1>7, <1>8 DEF WritePcm, TypeOK, Rings, setup, numbers

LEMMA AdoptRateType ==
    ASSUME TypeOK, NEW u \in Updaters, AdoptRate(u)
    PROVE  TypeOK'
<1>1. updater[u] \in Handling /\ NextItem(u)
  BY HandlingType DEF AdoptRate, Inside
<1>2. updater' \in [Updaters -> UpdaterState]
  BY <1>1, NextItemType DEF Handling
<1>3. format' \in Formats
  BY DEF AdoptRate, TypeOK, Formats
<1>. QED BY <1>2, <1>3 DEF AdoptRate, TypeOK, Formats, ring, account, numbers

LEMMA UpdateType == \A u \in Updaters : TypeOK /\ Update(u) => TypeOK'
<1> SUFFICES ASSUME NEW u \in Updaters, TypeOK, Update(u) PROVE TypeOK'
  OBVIOUS
<1>1. CASE UpdateRefused(u) \/ UpdateBegin(u) \/ CheckFormat(u) \/ UpdateEnds(u)
  BY <1>1, EntryType
<1>2. CASE PopPacket(u)
  BY <1>2, PopPacketType
<1>3. CASE Decode(u)
  BY <1>3, DecodeType
<1>4. CASE Write(u)
  BY <1>4, RoomType, DropChunkType, WritePcmType, AdoptRateType DEF Write
<1>. QED BY <1>1, <1>2, <1>3, <1>4 DEF Update, UpdateRuns

LEMMA TypeNext == TypeOK /\ [Next]_vars => TypeOK'
<1>1. CASE UNCHANGED vars
  BY <1>1 DEF vars, ring, setup, account, calls, numbers, TypeOK
<1>. QED BY <1>1, LifetimeType, ProducerType, ControlType, ReadType, UpdateType DEF Next

(* Every reachable state of the stream is well typed and its PCM ring is    *)
(* never overfilled, whichever calls overlap (A2dpSinkStream.cpp).          *)
THEOREM TypeCorrect == Spec => []TypeOK
BY TypeInit, TypeNext, PTL DEF Spec

-----------------------------------------------------------------------------
(* The guard of update().                                                   *)

LEMMA AloneIsIdle ==
    ASSUME Alone
    PROVE  (\A u \in Updaters : updater[u].pc = "idle") /\ control.pc = "idle"
BY DEF Alone, Running

(* A call that goes on to another of its places still holds the guard.      *)
LEMMA HoldsGuard ==
    ASSUME TypeOK, OneUpdater, NEW u \in Updaters, updater[u].pc # "idle",
           NEW s, s.pc # "idle",
           updater' = [updater EXCEPT ![u] = s], updating' = updating
    PROVE  OneUpdater'
<1>1. \A v \in Updaters : updater'[v].pc # "idle" <=> updater[v].pc # "idle"
  BY DEF TypeOK
<1>. QED BY <1>1 DEF OneUpdater

(* A call that returns gives it back.                                       *)
LEMMA ReleasesGuard ==
    ASSUME TypeOK, OneUpdater, NEW u \in Updaters, updater[u].pc # "idle", Leave(u)
    PROVE  OneUpdater'
<1>1. \A v \in Updaters : updater'[v].pc = "idle"
  BY DEF TypeOK, OneUpdater, Leave, Idle
<1>. QED BY <1>1 DEF OneUpdater, Leave

LEMMA OneUpdaterInit == Init => OneUpdater
BY DEF Init, OneUpdater, Idle

LEMMA OneUpdaterUpdate ==
    ASSUME TypeOK, OneUpdater, NEW u \in Updaters, Update(u)
    PROVE  OneUpdater'
<1>1. CASE UpdateRefused(u)
  BY <1>1 DEF UpdateRefused, calls, OneUpdater
<1>2. CASE UpdateBegin(u)
  <2>1. /\ updater'[u].pc = "format" /\ updating' = TRUE
        /\ \A v \in Updaters : v # u => updater'[v].pc = "idle"
    BY <1>2 DEF UpdateBegin, GuardFree, Goto, TypeOK, UpdaterState, OneUpdater
  <2>. QED BY <2>1 DEF OneUpdater
<1>3. CASE CheckFormat(u)
  <2>1. CASE Leave(u)
    BY <1>3, <2>1, ReleasesGuard DEF CheckFormat
  <2>2. CASE Goto(u, "pop") /\ UNCHANGED updating
    <3>1. [updater[u] EXCEPT !.pc = "pop"].pc # "idle"
      BY PlaceType DEF UpdaterState
    <3>. QED BY <1>3, <2>2, <3>1, HoldsGuard DEF CheckFormat, Goto
  <2>. QED BY <1>3, <2>1, <2>2 DEF CheckFormat
<1>4. CASE UpdateEnds(u)
  BY <1>4, ReleasesGuard DEF UpdateEnds
<1>5. CASE PopPacket(u) \/ Decode(u) \/ Write(u)
  <2>1. updater[u].pc # "idle" /\ UNCHANGED updating
    BY <1>5 DEF PopPacket, Decode, PacketEnds, PacketCut, SkipByte, DecodeFrame,
                Write, CheckRoom, MeasureOldest, DropChunk, DropDone, KeepRoom, WritePcm, AdoptRate
  <2>2. \E s : s.pc # "idle" /\ updater' = [updater EXCEPT ![u] = s]
    <3>1. config.policy \in {"DropOldest", "DropNewest"}
      BY InputsAssumption DEF TypeOK
    <3>2. updater[u] \in Fetching \/ updater[u] \in Handling
      <4>1. updater[u].pc \in Outside \/ updater[u].pc \in Inside
        BY PlaceType DEF UpdaterState, Outside, Inside
      <4>. QED BY <4>1, FetchingType, HandlingType
    <3>3. CASE PopPacket(u)
      BY <3>2, <3>3 DEF PopPacket, Fetching, Handling
    <3>4. CASE Decode(u)
      BY <3>2, <3>4
         DEF Decode, PacketEnds, PacketCut, SkipByte, DecodeFrame, NextItem, Idle,
             Fetching, Handling
    <3>5. CASE CheckRoom(u)
      BY <3>1, <3>2, <3>5 DEF CheckRoom, Goto, Fetching, Handling
    <3>6. CASE MeasureOldest(u) \/ DropChunk(u) \/ DropDone(u)
      BY <3>2, <3>6 DEF MeasureOldest, DropChunk, DropDone, Goto, Fetching, Handling
    <3>7. CASE KeepRoom(u)
      BY <3>2, <3>7 DEF KeepRoom, Fetching, Handling
    <3>8. CASE WritePcm(u) \/ AdoptRate(u)
      BY <3>2, <3>8 DEF WritePcm, AdoptRate, Goto, NextItem, Idle, Fetching, Handling
    <3>. QED BY <1>5, <3>3, <3>4, <3>5, <3>6, <3>7, <3>8 DEF Write
  <2>3. PICK s : s.pc # "idle" /\ updater' = [updater EXCEPT ![u] = s]
    BY <2>2
  <2>. QED BY <2>1, <2>3, HoldsGuard
<1>. QED BY <1>1, <1>2, <1>3, <1>4, <1>5 DEF Update, UpdateRuns

LEMMA OneUpdaterNext == TypeOK /\ OneUpdater /\ [Next]_vars => OneUpdater'
<1> SUFFICES ASSUME TypeOK, OneUpdater, [Next]_vars PROVE OneUpdater'
  OBVIOUS
<1>1. CASE Lifetime
  <2>1. \A u \in Updaters : updater'[u].pc = "idle"
    BY <1>1, AloneIsIdle
       DEF Lifetime, End, Begin, BeginRejected, BeginFails, BeginSucceeds
  <2>2. updating' = FALSE
    BY <1>1 DEF Lifetime, End, Begin, BeginRejected, BeginFails, BeginSucceeds, Ended
  <2>. QED BY <2>1, <2>2 DEF OneUpdater
<1>2. CASE Producer \/ Control \/ Read \/ UNCHANGED vars
  <2>1. UNCHANGED <<updater, updating>>
    <3>1. CASE Producer \/ Read \/ UNCHANGED vars
      BY <3>1 DEF Producer, PushRefused, PushEncoded, Read, ReadBegin, ReadEnd, calls, vars
    <3>2. CASE Control
      BY <3>2 DEF Control, SetCodecRefused, Reset, ResetSteps, ResetQueue, ResetPcm,
                  ResetDecoder, ResetCounters, SetCodecConfig, calls
    <3>. QED BY <1>2, <3>1, <3>2
  <2>. QED BY <2>1 DEF OneUpdater
<1>3. ASSUME NEW u \in Updaters, Update(u) PROVE OneUpdater'
  BY <1>3, OneUpdaterUpdate
<1>. QED BY <1>1, <1>2, <1>3 DEF Next

(* However many tasks call update(), at most one is inside, and the guard   *)
(* is held exactly as long as one is: every way out of update() gives it    *)
(* back (A2dpSinkStream.cpp:24-40, 278-325).                                *)
THEOREM UpdateIsExclusive == Spec => []OneUpdater
BY TypeInit, TypeNext, OneUpdaterInit, OneUpdaterNext, PTL DEF Spec

-----------------------------------------------------------------------------
(* The layout of the PCM.  Only setCodecConfig() makes a format valid, and  *)
(* only when the ring has that layout; a frame's own rate never makes an    *)
(* invalid format valid.  Until ResetDecoder runs, the call is in progress  *)
(* and the decoder may still have the old stride.                           *)

LayoutInv ==
    /\ format.channels # 0 => IsValid(format)
    /\ IsValid(format) => started /\ pcm.channels = format.channels
    /\ started => decoder.ready
    /\ control = Quiet /\ IsValid(format) => decoder.stride = format.channels

LEMMA NoFormatInvalid == ~IsValid(NoFormat) /\ NoFormat.channels = 0
BY DEF IsValid, NoFormat

LEMMA LayoutInit == Init => LayoutInv
BY NoFormatInvalid DEF Init, LayoutInv

(* Steps that leave the layout alone.                                       *)
LEMMA LayoutKept ==
    ASSUME LayoutInv, UNCHANGED <<format, started, control, decoder>>,
           pcm'.channels = pcm.channels
    PROVE  LayoutInv'
BY DEF LayoutInv, IsValid

(* begin() and end() forget the format.                                     *)
LEMMA LayoutLifetime == Lifetime => LayoutInv'
<1> SUFFICES ASSUME Lifetime PROVE LayoutInv'
  OBVIOUS
<1>1. format' = NoFormat
  BY DEF Lifetime, End, Begin, BeginRejected, BeginFails, BeginSucceeds, Ended
<1>2. started' => decoder'.ready
  BY DEF Lifetime, End, Begin, BeginRejected, BeginFails, BeginSucceeds, Ended, Decoder
<1>. QED BY <1>1, <1>2, NoFormatInvalid DEF LayoutInv, IsValid

LEMMA LayoutSetCodec ==
    ASSUME TypeOK, LayoutInv, NEW f \in Negotiations, SetCodecConfig(f)
    PROVE  LayoutInv'
<1>1. started /\ UNCHANGED <<started, decoder>>
  BY DEF SetCodecConfig
<1>2. decoder'.ready
  BY <1>1 DEF LayoutInv
<1>3. CASE format' = NoFormat
  BY <1>1, <1>2, <1>3, NoFormatInvalid DEF LayoutInv, IsValid
<1>4. CASE SetCodec(f)
  <2>1. pcm'.channels = format'.channels
    BY <1>4 DEF SetCodec, Ring
  <2>2. control' # Quiet
    BY <1>4 DEF SetCodec, StartReset, Quiet
  <2>3. IsValid(format')
    BY <1>4 DEF SetCodec
  <2>. QED BY <1>1, <1>2, <2>1, <2>2, <2>3 DEF LayoutInv, IsValid
<1>. QED BY <1>3, <1>4 DEF SetCodecConfig, SetUnknownCodec, SetInvalidCodec, RebuildFails

LEMMA LayoutControl == TypeOK /\ LayoutInv /\ Control => LayoutInv'
<1> SUFFICES ASSUME TypeOK, LayoutInv, Control PROVE LayoutInv'
  OBVIOUS
<1>1. CASE SetCodecRefused \/ ResetCounters
  BY <1>1, LayoutKept DEF SetCodecRefused, ResetCounters, ring, setup, calls
<1>2. CASE Reset \/ ResetQueue \/ ResetPcm
  <2>1. UNCHANGED <<format, started, decoder>> /\ pcm'.channels = pcm.channels
    BY <1>2 DEF Reset, ResetQueue, ResetPcm, Ring, ring, setup
  <2>2. control' # Quiet
    <3>1. CASE Reset
      BY <3>1 DEF Reset, StartReset, Quiet
    <3>2. CASE ResetQueue
      <4>1. control.pc = "queue" /\ control' = [control EXCEPT !.pc = "pcm"]
        BY <3>2 DEF ResetQueue
      <4>. QED BY <4>1 DEF TypeOK, Quiet
    <3>3. CASE ResetPcm
      BY <3>3 DEF ResetPcm, TypeOK, Quiet
    <3>. QED BY <1>2, <3>1, <3>2, <3>3
  <2>. QED BY <2>1, <2>2 DEF LayoutInv, IsValid
<1>3. CASE ResetDecoder
  <2>1. UNCHANGED <<format, started, pcm>>
    BY <1>3 DEF ResetDecoder, ring, setup
  <2>2. IsValid(format) => decoder'.stride = format.channels
    BY <1>3 DEF ResetDecoder, ResetStride, Decoder, LayoutInv
  <2>3. started => decoder'.ready
    BY <1>3 DEF ResetDecoder, Decoder, LayoutInv
  <2>. QED BY <2>1, <2>2, <2>3 DEF LayoutInv, IsValid
<1>4. ASSUME NEW f \in Negotiations, SetCodecConfig(f) PROVE LayoutInv'
  BY <1>4, LayoutSetCodec
<1>. QED BY <1>1, <1>2, <1>3, <1>4 DEF Control, ResetSteps

LEMMA LayoutUpdate ==
    ASSUME TypeOK, LayoutInv, NEW u \in Updaters, Update(u)
    PROVE  LayoutInv'
<1>1. CASE AdoptRate(u)
  <2>1. UNCHANGED <<started, control, decoder, pcm>> /\ format'.channels = format.channels
    BY <1>1 DEF AdoptRate, TypeOK, ring
  <2>2. IsValid(format') => IsValid(format)
    BY <1>1 DEF AdoptRate, TypeOK, IsValid, LayoutInv
  <2>3. format'.channels # 0 => IsValid(format')
    BY <1>1 DEF AdoptRate, TypeOK, IsValid, LayoutInv
  <2>. QED BY <2>1, <2>2, <2>3 DEF LayoutInv, IsValid
<1>2. CASE DecodeFrame(u)
  <2>1. /\ decoder'.ready = decoder.ready /\ decoder'.stride = decoder.stride
        /\ UNCHANGED <<started, control, format, pcm>>
    BY <1>2 DEF DecodeFrame, TypeOK, setup
  <2>. QED BY <2>1 DEF LayoutInv, IsValid
<1>3. CASE DropChunk(u) \/ WritePcm(u)
  <2>1. pcm'.channels = pcm.channels
    BY <1>3 DEF DropChunk, WritePcm, RingTail, TypeOK
  <2>. QED BY <1>3, <2>1, LayoutKept DEF DropChunk, WritePcm, setup
<1>4. CASE UpdateRefused(u) \/ UpdateBegin(u) \/ CheckFormat(u) \/ UpdateEnds(u)
  BY <1>4, LayoutKept
     DEF UpdateRefused, UpdateBegin, CheckFormat, UpdateEnds, ring, setup, calls
<1>5. CASE PopPacket(u) \/ PacketEnds(u) \/ PacketCut(u) \/ SkipByte(u)
  BY <1>5, LayoutKept DEF PopPacket, PacketEnds, PacketCut, SkipByte, ring, setup
<1>6. CASE CheckRoom(u) \/ MeasureOldest(u) \/ DropDone(u) \/ KeepRoom(u)
  BY <1>6, LayoutKept DEF CheckRoom, MeasureOldest, DropDone, KeepRoom, ring, setup
<1>. QED BY <1>1, <1>2, <1>3, <1>4, <1>5, <1>6 DEF Update, UpdateRuns, Decode, Write

LEMMA LayoutNext == TypeOK /\ LayoutInv /\ [Next]_vars => LayoutInv'
<1> SUFFICES ASSUME TypeOK, LayoutInv, [Next]_vars PROVE LayoutInv'
  OBVIOUS
<1>1. CASE Producer \/ UNCHANGED vars
  BY <1>1, LayoutKept
     DEF Producer, PushRefused, PushEncoded, vars, ring, setup, calls
<1>2. CASE Read
  <2>1. pcm'.channels = pcm.channels
    BY <1>2 DEF Read, ReadBegin, ReadEnd, RingTail, TypeOK, ring
  <2>. QED BY <1>2, <2>1, LayoutKept DEF Read, ReadBegin, ReadEnd, setup
<1>3. ASSUME NEW u \in Updaters, Update(u) PROVE LayoutInv'
  BY <1>3, LayoutUpdate
<1>. QED BY <1>1, <1>2, <1>3, LayoutLifetime, LayoutControl DEF Next

(* A stream that is ready decodes, stores and hands out PCM of one layout,  *)
(* whatever was negotiated, refused or failed before, and even with calls   *)
(* that overlap update() (setCodecConfig(), lines 179-207; reset(), 214).   *)
THEOREM LayoutIsShared == Spec => []LayoutAgrees
<1>1. LayoutInv => LayoutAgrees
  BY DEF LayoutInv, LayoutAgrees, IsReady
<1>. QED BY <1>1, TypeInit, TypeNext, LayoutInit, LayoutNext, PTL DEF Spec

-----------------------------------------------------------------------------
(* The abstract stream.  It is implemented when update() and the calls that *)
(* control the stream are made by one task: the format that update() has    *)
(* looked at is then still there when it takes a packet.                    *)

OneLoop == {"update", "control"} \notin Together

LoopInv ==
    /\ IsValid(format) => codecConfig.codec = "Sbc"
    /\ (\E u \in Updaters : updater[u].pc # "idle") => control.pc = "idle"
    /\ \A u \in Updaters : updater[u].pc \notin {"idle", "format"} => IsValid(format)

LEMMA ReadyIsValid == LayoutInv => (IsReady <=> IsValid(format))
BY DEF LayoutInv, IsReady, IsValid

LEMMA LoopInit == Init => LoopInv
BY NoFormatInvalid DEF Init, LoopInv, Idle, Quiet

(* Neither begins beside the other.                                         *)
LEMMA Apart ==
    ASSUME OneLoop
    PROVE  /\ MayBegin("update") => control.pc = "idle"
           /\ MayBegin("control") => \A u \in Updaters : updater[u].pc = "idle"
<1>1. ASSUME MayBegin("update"), control.pc # "idle" PROVE FALSE
  <2>1. "control" \in Running
    BY <1>1 DEF Running
  <2>. QED BY <1>1, <2>1 DEF MayBegin, OneLoop
<1>2. ASSUME MayBegin("control"), NEW u \in Updaters, updater[u].pc # "idle" PROVE FALSE
  <2>1. "update" \in Running
    BY <1>2 DEF Running
  <2>2. {"control", "update"} = {"update", "control"}
    OBVIOUS
  <2>. QED BY <1>2, <2>1, <2>2 DEF MayBegin, OneLoop
<1>. QED BY <1>1, <1>2

(* A step of update() that has looked at the format, and is not the look.   *)
LEMMA RunsAfterFormat ==
    ASSUME NEW u \in Updaters, TypeOK,
           PopPacket(u) \/ UpdateEnds(u) \/ Decode(u) \/ Write(u)
    PROVE  /\ updater[u].pc \notin {"idle", "format"}
           /\ \A v \in Updaters \ {u} : updater'[v] = updater[v]
           /\ UNCHANGED <<started, codecConfig, control>>
           /\ UNCHANGED queue \/ PopPacket(u)
<1>1. CASE PopPacket(u) \/ UpdateEnds(u)
  BY <1>1 DEF PopPacket, UpdateEnds, Leave, setup, ring, TypeOK
<1>2. CASE Decode(u)
  BY <1>2 DEF Decode, PacketEnds, PacketCut, SkipByte, DecodeFrame, NextItem, setup, ring, TypeOK
<1>3. CASE CheckRoom(u) \/ MeasureOldest(u) \/ DropDone(u) \/ KeepRoom(u)
  BY <1>3 DEF CheckRoom, MeasureOldest, DropDone, KeepRoom, Goto, setup, ring, TypeOK
<1>4. CASE DropChunk(u) \/ WritePcm(u) \/ AdoptRate(u)
  BY <1>4 DEF DropChunk, WritePcm, AdoptRate, Goto, NextItem, setup, ring, TypeOK
<1>. QED BY <1>1, <1>2, <1>3, <1>4 DEF Write

(* A frame's own rate keeps a valid format valid.                           *)
LEMMA FormatStaysValid ==
    ASSUME TypeOK, LayoutInv, NEW u \in Updaters, Update(u)
    PROVE  IsValid(format') <=> IsValid(format)
<1>1. CASE AdoptRate(u)
  BY <1>1 DEF AdoptRate, TypeOK, IsValid, LayoutInv
<1>2. CASE UpdateRefused(u) \/ UpdateBegin(u) \/ CheckFormat(u) \/ UpdateEnds(u) \/ PopPacket(u)
  BY <1>2 DEF UpdateRefused, UpdateBegin, CheckFormat, UpdateEnds, PopPacket, setup
<1>3. CASE Decode(u)
  BY <1>3 DEF Decode, PacketEnds, PacketCut, SkipByte, DecodeFrame, setup
<1>4. CASE CheckRoom(u) \/ MeasureOldest(u) \/ DropDone(u) \/ KeepRoom(u)
  BY <1>4 DEF CheckRoom, MeasureOldest, DropDone, KeepRoom, setup
<1>5. CASE DropChunk(u) \/ WritePcm(u)
  BY <1>5 DEF DropChunk, WritePcm, setup
<1>. QED BY <1>1, <1>2, <1>3, <1>4, <1>5 DEF Update, UpdateRuns, Write

LEMMA LoopUpdate ==
    ASSUME OneLoop, TypeOK, LayoutInv, LoopInv, NEW u \in Updaters, Update(u)
    PROVE  LoopInv'
<1>1. IsValid(format') <=> IsValid(format)
  BY FormatStaysValid
<1>2. CASE UpdateRefused(u)
  BY <1>2 DEF UpdateRefused, setup, calls, LoopInv, IsValid
<1>3. CASE UpdateBegin(u)
  <2>1. control.pc = "idle" /\ UNCHANGED <<control, codecConfig>>
    BY <1>3, Apart DEF UpdateBegin, setup
  <2>2. /\ updater'[u].pc = "format"
        /\ \A v \in Updaters \ {u} : updater'[v] = updater[v]
    BY <1>3 DEF UpdateBegin, Goto, TypeOK, UpdaterState
  <2>. QED BY <1>1, <2>1, <2>2 DEF LoopInv, IsValid
<1>4. CASE CheckFormat(u)
  <2>1. /\ updater[u].pc = "format" /\ UNCHANGED <<control, codecConfig>>
        /\ \A v \in Updaters \ {u} : updater'[v] = updater[v]
    BY <1>4 DEF CheckFormat, Goto, Leave, TypeOK, setup
  <2>2. updater'[u].pc = "idle" \/ IsValid(format)
    BY <1>4 DEF CheckFormat, Leave, TypeOK, Idle
  <2>. QED BY <1>1, <2>1, <2>2 DEF LoopInv, IsValid
<1>5. CASE PopPacket(u) \/ UpdateEnds(u) \/ Decode(u) \/ Write(u)
  BY <1>1, <1>5, RunsAfterFormat DEF LoopInv, IsValid
<1>. QED BY <1>2, <1>3, <1>4, <1>5 DEF Update, UpdateRuns

LEMMA LoopControl ==
    ASSUME OneLoop, TypeOK, LoopInv, Control
    PROVE  LoopInv'
<1>1. CASE SetCodecRefused \/ ResetCounters
  BY <1>1 DEF SetCodecRefused, ResetCounters, setup, calls, LoopInv, IsValid
<1>2. CASE Reset \/ ResetSteps
  <2>1. UNCHANGED <<format, codecConfig, updater>>
    BY <1>2 DEF Reset, ResetSteps, ResetQueue, ResetPcm, ResetDecoder, setup
  <2>2. \A u \in Updaters : updater[u].pc = "idle"
    BY <1>2, Apart DEF Reset, ResetSteps, ResetQueue, ResetPcm, ResetDecoder, LoopInv
  <2>. QED BY <2>1, <2>2 DEF LoopInv, IsValid
<1>3. ASSUME NEW f \in Negotiations, SetCodecConfig(f) PROVE LoopInv'
  <2>1. (\A u \in Updaters : updater[u].pc = "idle") /\ UNCHANGED updater
    BY <1>3, Apart DEF SetCodecConfig
  <2>2. IsValid(format') => codecConfig'.codec = "Sbc"
    BY <1>3, NoFormatInvalid
       DEF SetCodecConfig, SetUnknownCodec, SetInvalidCodec, RebuildFails, SetCodec
  <2>. QED BY <2>1, <2>2 DEF LoopInv, IsValid
<1>. QED BY <1>1, <1>2, <1>3 DEF Control

LEMMA LoopNext ==
    ASSUME OneLoop, TypeOK, LayoutInv, LoopInv, [Next]_vars
    PROVE  LoopInv'
<1>1. CASE Producer \/ Read \/ UNCHANGED vars
  BY <1>1 DEF Producer, PushRefused, PushEncoded, Read, ReadBegin, ReadEnd, vars, setup, calls,
     LoopInv, IsValid
<1>2. CASE Lifetime
  <2>1. format' = NoFormat /\ UNCHANGED <<updater, control>>
    BY <1>2 DEF Lifetime, End, Begin, BeginRejected, BeginFails, BeginSucceeds, Ended
  <2>2. \A u \in Updaters : updater[u].pc = "idle"
    BY <1>2, AloneIsIdle DEF Lifetime, End, Begin, BeginRejected, BeginFails, BeginSucceeds
  <2>. QED BY <2>1, <2>2, NoFormatInvalid DEF LoopInv, IsValid
<1>3. ASSUME NEW u \in Updaters, Update(u) PROVE LoopInv'
  BY <1>3, LoopUpdate
<1>. QED BY <1>1, <1>2, <1>3, LoopControl DEF Next

LEMMA SinkFrame ==
    ASSUME LayoutInv, LayoutInv', UNCHANGED <<started, codecConfig, queue>>,
           IsValid(format') <=> IsValid(format)
    PROVE  UNCHANGED Sink!sink
<1>1. IsReady' <=> IsReady
  BY ReadyIsValid DEF LayoutInv, IsReady, IsValid
<1>2. IsReady' = IsReady
  BY <1>1 DEF IsReady
<1>. QED BY <1>2 DEF Sink!sink

LEMMA SinkLifetime ==
    ASSUME Lifetime
    PROVE  Sink!Start \/ Sink!Stop
<1>1. ~IsValid(format') /\ codecConfig' = NoCodec /\ queue' = <<>>
  BY NoFormatInvalid
     DEF Lifetime, End, Begin, BeginRejected, BeginFails, BeginSucceeds, Ended
<1>2. IsReady' = FALSE
  BY <1>1 DEF IsReady, IsValid
<1>3. started' = FALSE \/ started' = TRUE
  BY DEF Lifetime, End, Begin, BeginRejected, BeginFails, BeginSucceeds, Ended
<1>. QED BY <1>1, <1>2, <1>3 DEF Sink!Start, Sink!Stop, Sink!Begun

LEMMA SinkNegotiate ==
    ASSUME LayoutInv, LayoutInv', LoopInv, NEW f \in Negotiations, SetCodecConfig(f)
    PROVE  \E ok \in BOOLEAN : Sink!Negotiate(f, ok)
<1>1. started /\ started' /\ codecConfig' = f /\ UNCHANGED <<started, queue>>
  BY DEF SetCodecConfig, SetUnknownCodec, SetInvalidCodec, RebuildFails, SetCodec
<1>2. f # codecConfig \/ ~IsReady
  BY DEF SetCodecConfig, SetUnknownCodec, SetInvalidCodec, RebuildFails, SetCodec, SameCodec,
     IsReady, LoopInv
<1>3. CASE SetCodec(f)
  <2>1. IsReady' /\ f.codec = "Sbc"
    BY <1>1, <1>3, ReadyIsValid DEF SetCodec, LayoutInv, IsReady, IsValid
  <2>2. IsReady' = TRUE
    BY <2>1 DEF IsReady
  <2>. QED BY <1>1, <1>2, <2>1, <2>2 DEF Sink!Negotiate, Sink!Renews
<1>4. CASE format' = NoFormat
  <2>1. IsReady' = FALSE
    BY <1>4, NoFormatInvalid DEF IsReady, IsValid
  <2>. QED BY <1>1, <1>2, <2>1 DEF Sink!Negotiate, Sink!Renews
<1>. QED BY <1>3, <1>4 DEF SetCodecConfig, SetUnknownCodec, SetInvalidCodec, RebuildFails

LEMMA SinkControl ==
    ASSUME TypeOK, LayoutInv, LayoutInv', LoopInv, Control
    PROVE  [Sink!Next]_(Sink!sink)
<1>1. CASE SetCodecRefused \/ ResetCounters \/ Reset \/ ResetPcm \/ ResetDecoder
  <2>1. UNCHANGED <<started, codecConfig, queue, format>>
    BY <1>1 DEF SetCodecRefused, ResetCounters, Reset, ResetPcm, ResetDecoder, setup, ring
  <2>. QED BY <2>1, SinkFrame DEF IsValid
<1>2. CASE ResetQueue
  <2>1. UNCHANGED <<started, codecConfig, format, pcm>> /\ queue' = <<>>
    BY <1>2 DEF ResetQueue, setup, Queue!Empty
  <2>2. IsReady' = IsReady
    BY <2>1 DEF IsReady, IsValid
  <2>. QED BY <2>1, <2>2 DEF Sink!Next, Sink!Empty
<1>3. ASSUME NEW f \in Negotiations, SetCodecConfig(f) PROVE [Sink!Next]_(Sink!sink)
  BY <1>3, SinkNegotiate DEF Sink!Next
<1>. QED BY <1>1, <1>2, <1>3 DEF Control, ResetSteps

LEMMA SinkProducer ==
    ASSUME TypeOK, LayoutInv, LayoutInv', Producer
    PROVE  [Sink!Next]_(Sink!sink)
<1>1. UNCHANGED <<started, codecConfig, format, pcm>>
  BY DEF Producer, PushRefused, PushEncoded, setup, ring
<1>2. UNCHANGED queue \/ \E p \in Packet : started /\ queue' = Append(queue, p)
  <2>1. CASE PushRefused
    BY <2>1 DEF PushRefused, ring
  <2>2. ASSUME NEW kind \in Kinds, NEW t \in Timestamps, PushEncoded(kind, t)
        PROVE  UNCHANGED queue \/ \E p \in Packet : started /\ queue' = Append(queue, p)
    <3>1. [kind |-> kind, n |-> pushes + 1, session |-> session] \in Packet
      BY <2>2, SizesAssumption DEF PushEncoded, Packet, TypeOK
    <3>. QED BY <2>2, <3>1 DEF PushEncoded, Queue!Accept
  <2>. QED BY <2>1, <2>2 DEF Producer
<1>3. IsReady' = IsReady
  BY <1>1 DEF IsReady, IsValid
<1>. QED BY <1>1, <1>2, <1>3 DEF Sink!Next, Sink!Accept, Sink!sink

LEMMA SinkUpdate ==
    ASSUME TypeOK, LayoutInv, LayoutInv', LoopInv, NEW u \in Updaters, Update(u)
    PROVE  [Sink!Next]_(Sink!sink)
<1>1. IsValid(format') <=> IsValid(format)
  BY FormatStaysValid
<1>2. CASE UpdateRefused(u) \/ UpdateBegin(u) \/ CheckFormat(u)
  BY <1>1, <1>2, SinkFrame DEF UpdateRefused, UpdateBegin, CheckFormat, setup, ring
<1>3. CASE PopPacket(u) \/ UpdateEnds(u) \/ Decode(u) \/ Write(u)
  <2>1. UNCHANGED <<started, codecConfig>> /\ (UNCHANGED queue \/ PopPacket(u))
    BY <1>3, RunsAfterFormat
  <2>2. CASE PopPacket(u)
    <3>1. IsReady /\ IsReady'
      BY <1>1, <1>3, <2>1, RunsAfterFormat, ReadyIsValid DEF LoopInv, LayoutInv, IsReady, IsValid
    <3>2. IsReady' = IsReady
      BY <3>1 DEF IsReady
    <3>. QED BY <2>1, <2>2, <3>1, <3>2 DEF PopPacket, Queue!Take, Sink!Next, Sink!Take
  <2>. QED BY <1>1, <2>1, <2>2, SinkFrame
<1>. QED BY <1>2, <1>3 DEF Update, UpdateRuns

LEMMA SinkStep ==
    ASSUME TypeOK, LayoutInv, LayoutInv', LoopInv, [Next]_vars
    PROVE  [Sink!Next]_(Sink!sink)
<1>1. CASE Lifetime
  BY <1>1, SinkLifetime DEF Sink!Next
<1>2. CASE Read \/ UNCHANGED vars
  BY <1>2, SinkFrame DEF Read, ReadBegin, ReadEnd, vars, setup, ring, IsValid
<1>3. ASSUME NEW u \in Updaters, Update(u) PROVE [Sink!Next]_(Sink!sink)
  BY <1>3, SinkUpdate
<1>. QED BY <1>1, <1>2, <1>3, SinkProducer, SinkControl DEF Next

LEMMA SinkInit == Init => Sink!Init
<1>1. Init => IsReady = FALSE
  BY DEF Init, IsReady
<1>. QED BY <1>1 DEF Init, Sink!Init

(* Through every refusal, renegotiation and failed allocation the stream    *)
(* keeps what the adapter counts on: nothing is stored by a stream that is  *)
(* not started, packets leave in their order and only when they can be      *)
(* decoded, and a configuration in force is not applied again.              *)
THEOREM StreamImplementsSink ==
    ASSUME OneLoop
    PROVE  Spec => ImplementsSink
<1>1. TypeOK /\ LayoutInv /\ LoopInv /\ [Next]_vars => LoopInv'
  BY LoopNext
<1>2. TypeOK /\ LayoutInv /\ LayoutInv' /\ LoopInv /\ [Next]_vars => [Sink!Next]_(Sink!sink)
  BY SinkStep
<1>. QED BY <1>1, <1>2, TypeInit, TypeNext, LayoutInit, LayoutNext, LoopInit, SinkInit, PTL
         DEF Spec, ImplementsSink, Sink!Spec
=============================================================================
