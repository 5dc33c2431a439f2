-------------------- MODULE A2dpSinkStreamSessionProofs --------------------
(***************************************************************************)
(* Theorems about A2dpSinkStream in one application loop, with the         *)
(* Bluetooth task pushing at any step: what a full PCM ring costs, and     *)
(* that sessions never mix.                                                *)
(***************************************************************************)
EXTENDS A2dpSinkStreamProofs

(* update() shares its task with the calls that control the stream and with *)
(* readFrames(), as in the loop of the examples.                            *)
SingleTask == OneLoop /\ {"update", "read"} \notin Together

LEMMA ReadApart ==
    ASSUME SingleTask
    PROVE  /\ MayBegin("update") => reader # "in"
           /\ MayBegin("read") => \A u \in Updaters : updater[u].pc = "idle"
<1>1. ASSUME MayBegin("update"), reader = "in" PROVE FALSE
  <2>1. "read" \in Running
    BY <1>1 DEF Running
  <2>. QED BY <1>1, <2>1 DEF MayBegin, SingleTask
<1>2. ASSUME MayBegin("read"), NEW u \in Updaters, updater[u].pc # "idle" PROVE FALSE
  <2>1. "update" \in Running
    BY <1>2 DEF Running
  <2>2. {"read", "update"} = {"update", "read"}
    OBVIOUS
  <2>. QED BY <1>2, <2>1, <2>2 DEF MayBegin, SingleTask
<1>. QED BY <1>1, <1>2

-----------------------------------------------------------------------------
(* The room that writePcm() looked at is still there when it looks again.   *)

Fits(u) ==
    /\ updater[u].lost \in 0 .. FramePcm
    /\ updater[u].pc \in {"room", "DropOldest", "DropNewest"} =>
         updater[u].frames = FramePcm /\ updater[u].lost = 0
    /\ updater[u].pc \in {"DropOldest", "DropNewest"} => Free < FramePcm
    /\ updater[u].pc = "drop" =>
         /\ updater[u].frames = FramePcm
         /\ updater[u].needed + updater[u].lost <= FramePcm
         /\ Free + updater[u].needed = FramePcm
    /\ updater[u].pc = "write" =>
         /\ updater[u].frames <= FramePcm
         /\ updater[u].lost > 0 => Free <= updater[u].frames
    /\ updater[u].pc = "rate" /\ updater[u].lost > 0 => Free = 0

RoomInv ==
    /\ reader = "in" => \A u \in Updaters : updater[u].pc = "idle"
    /\ \A u \in Updaters : Fits(u)

LEMMA RoomInit == Init => RoomInv
BY SizesAssumption DEF Init, RoomInv, Fits, Idle

LEMMA SizeFacts == FramePcm \in Nat /\ FramePcm > 0 /\ FramePcm <= ScratchFrames
                   /\ ScratchFrames \in Nat /\ FramePcm < WordMod /\ WordMod \in Nat
BY SizesAssumption

(* Calls that find update() at rest.                                        *)
LEMMA RestKeepsRoom ==
    ASSUME RoomInv, \A u \in Updaters : updater[u].pc = "idle", UNCHANGED updater
    PROVE  RoomInv'
BY DEF RoomInv, Fits

(* One task moves, and no other is inside.                                  *)
LEMMA RoomStep ==
    ASSUME TypeOK, OneUpdater, RoomInv, NEW u \in Updaters, updater[u].pc # "idle",
           \A v \in Updaters \ {u} : updater'[v] = updater[v],
           UNCHANGED reader, Fits(u)'
    PROVE  RoomInv'
<1>1. \A v \in Updaters \ {u} : updater'[v].pc = "idle" /\ updater'[v].lost \in 0 .. FramePcm
  BY DEF OneUpdater, RoomInv, Fits
<1>2. reader' # "in"
  BY DEF RoomInv
<1>. QED BY <1>1, <1>2 DEF RoomInv, Fits

LEMMA Joined ==
    ASSUME NEW s \in Seq(PcmFrame), NEW t \in Seq(PcmFrame)
    PROVE  /\ s \o t \in Seq(PcmFrame) /\ Len(s \o t) = Len(s) + Len(t)
           /\ Len(s) \in Nat /\ Len(t) \in Nat
           /\ \A i \in 1 .. Len(s) + Len(t) :
                 (s \o t)[i] = IF i <= Len(s) THEN s[i] ELSE t[i - Len(s)]
BY ConcatProperties, LenProperties

(* While a frame is handled the ring is there.                              *)
LEMMA RingIsThere ==
    ASSUME TypeOK, LayoutInv, LoopInv, NEW u \in Updaters, updater[u].pc \in Inside
    PROVE  /\ pcm.channels # 0 /\ IsValid(format) /\ control.pc = "idle"
           /\ Free = config.pcmFrames - Len(pcm.frames) /\ Free \in Nat
           /\ Len(pcm.frames) \in Nat /\ config.pcmFrames \in Nat
<1>1. IsValid(format) /\ control.pc = "idle"
  BY DEF LoopInv, Inside
<1>2. pcm.channels # 0
  BY <1>1 DEF LayoutInv, IsValid
<1>3. Len(pcm.frames) \in Nat /\ config.pcmFrames \in Nat
  BY LenProperties, InputsAssumption DEF TypeOK
<1>. QED BY <1>1, <1>2, <1>3, FreeType

LEMMA RoomDecode ==
    ASSUME TypeOK, OneUpdater, RoomInv, NEW u \in Updaters,
           CheckFormat(u) \/ PopPacket(u) \/ UpdateEnds(u) \/ Decode(u) \/ AdoptRate(u)
    PROVE  RoomInv'
<1>1. updater[u].pc # "idle" /\ UNCHANGED reader
  BY DEF CheckFormat, PopPacket, UpdateEnds, Decode, PacketEnds, PacketCut, SkipByte,
     DecodeFrame, AdoptRate
<1>2. updater[u].lost \in 0 .. FramePcm
  BY DEF RoomInv, Fits
<1>3. updater[u] \in UpdaterState
  BY PlaceType
<1>4. CASE CheckFormat(u) \/ PopPacket(u) \/ UpdateEnds(u)
  <2>1. \A v \in Updaters \ {u} : updater'[v] = updater[v]
    BY <1>4 DEF CheckFormat, PopPacket, UpdateEnds, Goto, Leave, TypeOK
  <2>2. /\ updater'[u].lost \in {0, updater[u].lost}
        /\ updater'[u].pc \in {"idle", "pop", "decode"}
    <3>1. CASE Leave(u)
      BY <3>1 DEF Leave, Idle, TypeOK
    <3>2. CASE CheckFormat(u) /\ Goto(u, "pop")
      <4>1. updater[u] \in Fetching
        BY <3>2, FetchingType DEF CheckFormat, Outside
      <4>. QED BY <3>2, <4>1 DEF Goto, TypeOK, Fetching
    <3>3. CASE PopPacket(u)
      <4>1. updater[u] \in Fetching
        BY <3>3, FetchingType DEF PopPacket, Outside
      <4>. QED BY <3>3, <4>1 DEF PopPacket, TypeOK, Fetching
    <3>. QED BY <1>4, <3>1, <3>2, <3>3 DEF CheckFormat, UpdateEnds
  <2>3. Fits(u)'
    BY <1>2, <2>2, SizeFacts DEF Fits
  <2>. QED BY <1>1, <2>1, <2>3, RoomStep
<1>5. CASE PacketEnds(u) \/ PacketCut(u) \/ SkipByte(u) \/ AdoptRate(u)
  <2>1. \A v \in Updaters \ {u} : updater'[v] = updater[v]
    BY <1>5 DEF PacketEnds, PacketCut, SkipByte, AdoptRate, NextItem, TypeOK
  <2>2. updater'[u].lost = 0 /\ updater'[u].pc \in {"pop", "decode"}
    <3>1. CASE PacketEnds(u) \/ PacketCut(u)
      BY <3>1 DEF PacketEnds, PacketCut, Idle, TypeOK
    <3>2. CASE NextItem(u)
      BY <3>2 DEF NextItem, Idle, TypeOK
    <3>. QED BY <1>5, <3>1, <3>2 DEF SkipByte, AdoptRate
  <2>3. Fits(u)'
    BY <2>2, SizeFacts DEF Fits
  <2>. QED BY <1>1, <2>1, <2>3, RoomStep
<1>6. CASE DecodeFrame(u)
  <2>1. \A v \in Updaters \ {u} : updater'[v] = updater[v]
    BY <1>6 DEF DecodeFrame, TypeOK
  <2>2. updater'[u].lost = 0 /\ updater'[u].pc = "room" /\ updater'[u].frames = FramePcm
    BY <1>3, <1>6 DEF DecodeFrame, TypeOK, UpdaterState
  <2>3. Fits(u)'
    BY <2>2, SizeFacts DEF Fits
  <2>. QED BY <1>1, <2>1, <2>3, RoomStep
<1>. QED BY <1>4, <1>5, <1>6 DEF Decode

(* A step of writePcm() is one updater's, and leaves the configuration.     *)
LEMMA WriteFrame ==
    ASSUME TypeOK, NEW u \in Updaters,
           \/ CheckRoom(u) \/ MeasureOldest(u) \/ DropChunk(u) \/ DropDone(u)
           \/ KeepRoom(u) \/ WritePcm(u)
    PROVE  /\ updater[u].pc \in Inside \ {"rate"} /\ UNCHANGED <<reader, config>>
           /\ \A v \in Updaters \ {u} : updater'[v] = updater[v]
<1>1. updater[u].pc \in Inside \ {"rate"}
  BY DEF CheckRoom, MeasureOldest, DropChunk, DropDone, KeepRoom, WritePcm, Inside
<1>2. UNCHANGED <<reader, config>>
  BY DEF CheckRoom, MeasureOldest, DropChunk, DropDone, KeepRoom, WritePcm, setup
<1>3. \E g : updater' = [updater EXCEPT ![u] = g]
  BY DEF CheckRoom, MeasureOldest, DropChunk, DropDone, KeepRoom, WritePcm, Goto
<1>4. \A v \in Updaters \ {u} : updater'[v] = updater[v]
  BY <1>3 DEF TypeOK
<1>. QED BY <1>1, <1>2, <1>4

LEMMA RoomWrite ==
    ASSUME TypeOK, TypeOK', OneUpdater, LayoutInv, LoopInv, RoomInv, NEW u \in Updaters,
           \/ CheckRoom(u) \/ MeasureOldest(u) \/ DropChunk(u) \/ DropDone(u)
           \/ KeepRoom(u) \/ WritePcm(u)
    PROVE  RoomInv'
<1>1. /\ updater[u].pc \in Inside /\ updater[u].pc # "idle" /\ UNCHANGED <<reader, config>>
      /\ \A v \in Updaters \ {u} : updater'[v] = updater[v]
  BY WriteFrame DEF Inside
<1>2. /\ pcm.channels # 0 /\ Free = config.pcmFrames - Len(pcm.frames) /\ Free \in Nat
      /\ Len(pcm.frames) \in Nat /\ config.pcmFrames \in Nat
  BY <1>1, RingIsThere
<1>3. /\ updater[u] \in Handling /\ updater[u].frames \in Nat /\ updater[u].needed \in Nat
      /\ updater[u].lost \in Int
  BY <1>1, HandlingType DEF Handling
<1>4. Fits(u)
  BY DEF RoomInv
<1>5. CASE CheckRoom(u)
  <2>1. Free' = Free
    BY <1>5 DEF CheckRoom, Free, ring, setup
  <2>2. config.policy \in {"DropOldest", "DropNewest"}
    BY InputsAssumption DEF TypeOK
  <2>3. /\ updater'[u].pc = (IF Free >= updater[u].frames THEN "write" ELSE config.policy)
        /\ updater'[u].frames = updater[u].frames /\ updater'[u].lost = updater[u].lost
    BY <1>3, <1>5 DEF CheckRoom, Goto, TypeOK, Handling
  <2>4. Fits(u)'
    BY <1>2, <1>4, <1>5, <2>1, <2>2, <2>3, SizeFacts DEF CheckRoom, Fits
  <2>. QED BY <1>1, <2>4, RoomStep
<1>6. CASE MeasureOldest(u)
  <2>1. Free' = Free
    BY <1>6 DEF MeasureOldest, Free, ring, setup
  <2>2. updater[u].frames = FramePcm /\ updater[u].lost = 0 /\ Free < FramePcm
    BY <1>4, <1>6 DEF MeasureOldest, Fits
  <2>3. ShortOf(updater[u].frames) = FramePcm - Free
    <3>1. FramePcm - Free \in 0 .. WordMod - 1
      BY <1>2, <2>2, SizeFacts
    <3>2. \A x \in 0 .. WordMod - 1 : x % WordMod = x
      BY SizeFacts
    <3>. QED BY <2>2, <3>1, <3>2 DEF ShortOf
  <2>4. /\ updater'[u].pc = "drop" /\ updater'[u].needed = ShortOf(updater[u].frames)
        /\ updater'[u].frames = updater[u].frames /\ updater'[u].lost = updater[u].lost
    BY <1>3, <1>6 DEF MeasureOldest, TypeOK, Handling
  <2>5. Fits(u)'
    BY <1>2, <2>1, <2>2, <2>3, <2>4, SizeFacts DEF Fits
  <2>. QED BY <1>1, <2>5, RoomStep
<1>7. CASE DropChunk(u)
  <2>1. Droppable(u) \in 0 .. Len(pcm.frames) /\ Droppable(u) <= updater[u].needed
    BY <1>2, <1>3, SizeFacts DEF Droppable, Least
  <2>2. /\ Len(pcm'.frames) = Len(pcm.frames) - Droppable(u) /\ pcm'.channels = pcm.channels
    BY <1>7, <2>1, RingTailType DEF DropChunk
  <2>3. Free' = Free + Droppable(u)
    BY <1>1, <1>2, <2>1, <2>2 DEF Free
  <2>4. /\ updater'[u].pc = "drop" /\ updater'[u].frames = updater[u].frames
        /\ updater'[u].needed = updater[u].needed - Droppable(u)
        /\ updater'[u].lost = updater[u].lost + Droppable(u)
    BY <1>3, <1>7 DEF DropChunk, TypeOK, Handling
  <2>5. /\ updater[u].frames = FramePcm /\ updater[u].needed + updater[u].lost <= FramePcm
        /\ Free + updater[u].needed = FramePcm /\ updater[u].lost \in 0 .. FramePcm
    BY <1>4, <1>7 DEF DropChunk, Fits
  <2>6. Droppable(u) \in Nat
    BY <1>2, <2>1
  <2>7. /\ updater'[u].lost \in 0 .. FramePcm
        /\ updater'[u].needed + updater'[u].lost <= FramePcm
        /\ Free' + updater'[u].needed = FramePcm
    <3>1. \A d \in Nat, needed \in Nat, lost \in 0 .. FramePcm, room \in Nat :
             d <= needed /\ needed + lost <= FramePcm /\ room + needed = FramePcm =>
                /\ lost + d \in 0 .. FramePcm /\ (needed - d) + (lost + d) <= FramePcm
                /\ (room + d) + (needed - d) = FramePcm
      BY SizeFacts
    <3>2. /\ Droppable(u) \in Nat /\ updater[u].needed \in Nat /\ Free \in Nat
          /\ updater[u].lost \in 0 .. FramePcm /\ Droppable(u) <= updater[u].needed
          /\ updater[u].needed + updater[u].lost <= FramePcm
          /\ Free + updater[u].needed = FramePcm
      BY <1>2, <1>3, <2>1, <2>5, <2>6
    <3>3. /\ updater[u].lost + Droppable(u) \in 0 .. FramePcm
          /\ (updater[u].needed - Droppable(u)) + (updater[u].lost + Droppable(u)) <= FramePcm
          /\ (Free + Droppable(u)) + (updater[u].needed - Droppable(u)) = FramePcm
      BY <3>1, <3>2
    <3>. QED BY <2>3, <2>4, <3>3, Zenon
  <2>8. Fits(u)'
    BY <2>4, <2>5, <2>7 DEF Fits
  <2>. QED BY <1>1, <2>8, RoomStep
<1>8. CASE DropDone(u)
  <2>1. Free' = Free
    BY <1>8 DEF DropDone, Free, ring, setup
  <2>2. /\ updater'[u].pc = "write" /\ updater'[u].frames = updater[u].frames
        /\ updater'[u].lost = updater[u].lost
    BY <1>3, <1>8 DEF DropDone, Goto, TypeOK, Handling
  <2>3. Fits(u)'
    BY <1>2, <1>3, <1>4, <1>8, <2>1, <2>2, SizeFacts DEF DropDone, Fits
  <2>. QED BY <1>1, <2>3, RoomStep
<1>9. CASE KeepRoom(u)
  <2>1. Free' = Free
    BY <1>9 DEF KeepRoom, Free, ring, setup
  <2>2. /\ updater'[u].pc = (IF Free = 0 THEN "rate" ELSE "write") /\ updater'[u].frames = Free
        /\ updater'[u].lost = updater[u].frames - Free
    BY <1>3, <1>9 DEF KeepRoom, TypeOK, Handling
  <2>3. Fits(u)'
    BY <1>2, <1>3, <1>4, <1>9, <2>1, <2>2, SizeFacts DEF KeepRoom, Fits
  <2>. QED BY <1>1, <2>3, RoomStep
<1>10. CASE WritePcm(u)
  <2>1. Writable(u) \in Nat /\ Writable(u) <= Free /\ Writable(u) <= updater[u].frames
        /\ (Writable(u) = Free \/ Writable(u) = updater[u].frames)
    BY <1>2, <1>3 DEF Writable, Least
  <2>2. /\ Len(pcm'.frames) = Len(pcm.frames) + Writable(u) /\ pcm'.channels = pcm.channels
    <3>1. FromScratch(Writable(u)) \in Seq(PcmFrame) /\ Len(FromScratch(Writable(u))) = Writable(u)
      BY <2>1, FromScratchType
    <3>2. pcm.frames \in Seq(PcmFrame)
      BY DEF TypeOK
    <3>3. /\ pcm.frames \o FromScratch(Writable(u)) \in Seq(PcmFrame)
          /\ Len(pcm.frames \o FromScratch(Writable(u))) = Len(pcm.frames) + Writable(u)
      BY <3>1, <3>2, Joined
    <3>. QED BY <1>10, <3>3 DEF WritePcm, TypeOK
  <2>3. Free' = Free - Writable(u)
    BY <1>1, <1>2, <2>1, <2>2 DEF Free
  <2>4. /\ updater'[u].pc = "rate" /\ updater'[u].lost = updater[u].lost
    BY <1>3, <1>10 DEF WritePcm, Goto, TypeOK, Handling
  <2>5. updater[u].lost > 0 => Free <= updater[u].frames
    BY <1>4, <1>10 DEF WritePcm, Fits
  <2>6. Fits(u)'
    BY <1>2, <1>3, <1>4, <2>1, <2>3, <2>4, <2>5, SizeFacts DEF Fits
  <2>. QED BY <1>1, <2>6, RoomStep
<1>. QED BY <1>5, <1>6, <1>7, <1>8, <1>9, <1>10

LEMMA RoomUpdate ==
    ASSUME SingleTask, TypeOK, TypeOK', OneUpdater, LayoutInv, LoopInv, RoomInv,
           NEW u \in Updaters, Update(u)
    PROVE  RoomInv'
<1>1. CASE UpdateRefused(u)
  BY <1>1 DEF UpdateRefused, ring, setup, calls, RoomInv, Fits, Free
<1>2. CASE UpdateBegin(u)
  <2>1. reader' # "in"
    BY <1>2, ReadApart DEF UpdateBegin
  <2>2. \A v \in Updaters : updater'[v].pc \in {"idle", "format"} /\ updater'[v].lost = updater[v].lost
    <3>1. updater[u] \in Fetching
      BY <1>2, FetchingType DEF UpdateBegin, Outside
    <3>2. updater'[u].pc = "format" /\ updater'[u].lost = updater[u].lost
      BY <1>2, <3>1 DEF UpdateBegin, Goto, TypeOK, Fetching
    <3>3. \A v \in Updaters \ {u} : updater'[v] = updater[v] /\ updater[v].pc = "idle"
      BY <1>2 DEF UpdateBegin, GuardFree, Goto, TypeOK, OneUpdater
    <3>. QED BY <3>2, <3>3
  <2>. QED BY <2>1, <2>2 DEF RoomInv, Fits
<1>. QED BY <1>1, <1>2, RoomDecode, RoomWrite DEF Update, UpdateRuns, Write

LEMMA RoomNext ==
    ASSUME SingleTask, TypeOK, TypeOK', OneUpdater, LayoutInv, LoopInv, RoomInv, [Next]_vars
    PROVE  RoomInv'
<1>1. CASE Lifetime \/ ResetCounters
  BY <1>1, AloneIsIdle, RestKeepsRoom
     DEF Lifetime, End, Begin, BeginRejected, BeginFails, BeginSucceeds, ResetCounters, calls
<1>2. CASE Producer \/ SetCodecRefused \/ UNCHANGED vars
  BY <1>2 DEF Producer, PushRefused, PushEncoded, SetCodecRefused, vars, ring, setup, calls,
     RoomInv, Fits, Free
<1>3. CASE Reset \/ ResetSteps \/ \E f \in Negotiations : SetCodecConfig(f)
  <2>1. \A u \in Updaters : updater[u].pc = "idle"
    BY <1>3, Apart DEF SingleTask, Reset, ResetSteps, ResetQueue, ResetPcm, ResetDecoder,
       SetCodecConfig, LoopInv
  <2>2. UNCHANGED updater
    BY <1>3 DEF Reset, ResetSteps, ResetQueue, ResetPcm, ResetDecoder, SetCodecConfig
  <2>. QED BY <2>1, <2>2, RestKeepsRoom
<1>4. CASE Read
  <2>1. (\A u \in Updaters : updater[u].pc = "idle") /\ UNCHANGED updater
    BY <1>4, ReadApart DEF Read, ReadBegin, ReadEnd, RoomInv
  <2>. QED BY <2>1, RestKeepsRoom
<1>5. ASSUME NEW u \in Updaters, Update(u) PROVE RoomInv'
  BY <1>5, RoomUpdate
<1>. QED BY <1>1, <1>2, <1>3, <1>4, <1>5 DEF Next, Control

LEMMA LoopHolds == ASSUME OneLoop PROVE Spec => [](TypeOK /\ OneUpdater /\ LayoutInv /\ LoopInv)
<1>1. TypeOK /\ LayoutInv /\ LoopInv /\ [Next]_vars => LoopInv'
  BY LoopNext
<1>. QED BY <1>1, TypeInit, TypeNext, OneUpdaterInit, OneUpdaterNext, LayoutInit, LayoutNext,
         LoopInit, PTL DEF Spec

LEMMA RoomHolds == ASSUME SingleTask PROVE Spec => []RoomInv
<1>1. /\ TypeOK /\ TypeOK' /\ OneUpdater /\ LayoutInv /\ LoopInv /\ RoomInv /\ [Next]_vars
      => RoomInv'
  BY RoomNext
<1>2. Spec => [](TypeOK /\ OneUpdater /\ LayoutInv /\ LoopInv)
  BY LoopHolds DEF SingleTask
<1>. QED BY <1>1, <1>2, RoomInit, PTL DEF Spec

(* PCM is given up only for want of room: a frame that cost any leaves the  *)
(* ring full, also when the ring is smaller than a frame.                   *)
THEOREM LossOnlyWhenFull ==
    ASSUME SingleTask
    PROVE  Spec => []LossIsNeeded
<1>1. RoomInv => LossIsNeeded
  BY DEF RoomInv, Fits, LossIsNeeded
<1>. QED BY <1>1, RoomHolds, PTL

-----------------------------------------------------------------------------
(* Sessions never mix: everything that update() can reach was delivered or  *)
(* decoded since the last reset() began.                                    *)

AllFrom(s, k) == \A i \in 1 .. Len(s) : s[i].session = k

Belongs(u) ==
    /\ updater[u].session =
          IF updater[u].pc \in {"idle", "format", "pop"} THEN 0 ELSE session
    /\ updater[u].pc \in Inside \ {"rate"} =>
          \A i \in 1 .. FramePcm : pcmScratch[i].session = session

(* The format is settled and no reset() is emptying the buffers.            *)
Settled == control.pc = "idle" /\ IsValid(format)

SessionInv ==
    /\ Settled \/ control.pc \in {"pcm", "decoder"} => AllFrom(queue, session)
    /\ Settled \/ control.pc = "decoder" => AllFrom(pcm.frames, session)
    /\ Settled => decoder.history \in {0, session}
    /\ \A u \in Updaters : Belongs(u)

(* What the buffers do to their contents keeps one session's contents one   *)
(* session's.                                                               *)
LEMMA PartsAreFrom ==
    ASSUME NEW S, NEW s \in Seq(S), NEW k, AllFrom(s, k)
    PROVE  /\ s # <<>> => Head(s).session = k /\ AllFrom(Tail(s), k)
           /\ \A e \in S : e.session = k => AllFrom(Append(s, e), k)
           /\ \A n \in 0 .. Len(s) :
                 AllFrom(SubSeq(s, 1, n), k) /\ AllFrom(SubSeq(s, n + 1, Len(s)), k)
<1>1. Len(s) \in Nat
  BY LenProperties
<1>2. ASSUME s # <<>> PROVE Head(s).session = k /\ AllFrom(Tail(s), k)
  <2>1. /\ Len(Tail(s)) = Len(s) - 1 /\ Head(s) = s[1] /\ Len(s) > 0
        /\ \A i \in 1 .. Len(Tail(s)) : Tail(s)[i] = s[i + 1]
    BY <1>2, HeadTailProperties, EmptySeq
  <2>. QED BY <1>1, <2>1 DEF AllFrom
<1>3. ASSUME NEW e \in S, e.session = k PROVE AllFrom(Append(s, e), k)
  <2>1. /\ Len(Append(s, e)) = Len(s) + 1 /\ Append(s, e)[Len(s) + 1] = e
        /\ \A i \in 1 .. Len(s) : Append(s, e)[i] = s[i]
    BY AppendProperties
  <2>. QED BY <1>1, <1>3, <2>1 DEF AllFrom
<1>4. ASSUME NEW n \in 0 .. Len(s)
      PROVE  AllFrom(SubSeq(s, 1, n), k) /\ AllFrom(SubSeq(s, n + 1, Len(s)), k)
  <2>1. \A i \in 1 .. Len(s) : s[i] \in S
    BY ElementOfSeq
  <2>2. /\ Len(SubSeq(s, 1, n)) = n
        /\ \A i \in 1 .. n : SubSeq(s, 1, n)[i] = s[i]
    <3>1. 1 \in Int /\ n \in Int /\ \A i \in 1 .. n : s[i] \in S
      BY <1>1, <2>1
    <3>2. /\ Len(SubSeq(s, 1, n)) = IF 1 <= n THEN n - 1 + 1 ELSE 0
          /\ \A i \in 1 .. n - 1 + 1 : SubSeq(s, 1, n)[i] = s[1 + i - 1]
      BY <3>1, SubSeqProperties
    <3>. QED BY <1>1, <3>2
  <2>3. /\ Len(SubSeq(s, n + 1, Len(s))) = Len(s) - n
        /\ \A i \in 1 .. Len(s) - n : SubSeq(s, n + 1, Len(s))[i] = s[n + i]
    <3>1. n + 1 \in Int /\ Len(s) \in Int /\ \A i \in n + 1 .. Len(s) : s[i] \in S
      BY <1>1, <2>1
    <3>2. /\ Len(SubSeq(s, n + 1, Len(s))) =
                IF n + 1 <= Len(s) THEN Len(s) - (n + 1) + 1 ELSE 0
          /\ \A i \in 1 .. Len(s) - (n + 1) + 1 :
                SubSeq(s, n + 1, Len(s))[i] = s[(n + 1) + i - 1]
      BY <3>1, SubSeqProperties
    <3>. QED BY <1>1, <3>2
  <2>. QED BY <1>1, <2>2, <2>3 DEF AllFrom
<1>. QED BY <1>2, <1>3, <1>4

LEMMA NothingIsFrom == \A k : AllFrom(<<>>, k)
BY DEF AllFrom

LEMMA SessionInit == Init => SessionInv
<1> SUFFICES ASSUME Init PROVE SessionInv
  OBVIOUS
<1>1. ~Settled /\ control.pc = "idle"
  BY NoFormatInvalid DEF Init, Settled, Quiet
<1>2. \A u \in Updaters : Belongs(u)
  BY DEF Init, Belongs, Idle, Inside
<1>. QED BY <1>1, <1>2 DEF SessionInv

(* A call that finds update() at rest, and ends a session or changes none.  *)
LEMMA RestKeepsSession ==
    ASSUME SessionInv, \A u \in Updaters : updater[u].pc = "idle", UNCHANGED updater
    PROVE  \A u \in Updaters : Belongs(u)'
BY DEF SessionInv, Belongs, Inside

LEMMA SessionControl ==
    ASSUME SingleTask, TypeOK, LayoutInv, LoopInv, SessionInv, Control
    PROVE  SessionInv'
<1>1. CASE SetCodecRefused \/ ResetCounters
  BY <1>1 DEF SetCodecRefused, ResetCounters, ring, setup, calls, numbers, SessionInv, Settled,
     Belongs, AllFrom, IsValid
<1>2. CASE Reset \/ ResetSteps \/ \E f \in Negotiations : SetCodecConfig(f)
  <2>1. \A u \in Updaters : updater[u].pc = "idle"
    BY <1>2, Apart DEF SingleTask, Reset, ResetSteps, ResetQueue, ResetPcm, ResetDecoder,
       SetCodecConfig, LoopInv
  <2>2. UNCHANGED updater
    BY <1>2 DEF Reset, ResetSteps, ResetQueue, ResetPcm, ResetDecoder, SetCodecConfig
  <2>3. \A u \in Updaters : Belongs(u)'
    BY <2>1, <2>2, RestKeepsSession
  <2>4. CASE Reset
    BY <2>3, <2>4 DEF Reset, StartReset, SessionInv, Settled
  <2>5. CASE ResetQueue
    <3>1. queue' = <<>> /\ control'.pc = "pcm"
      BY <2>5 DEF ResetQueue, Queue!Empty, TypeOK, Quiet
    <3>. QED BY <2>3, <3>1 DEF SessionInv, Settled, AllFrom
  <2>6. CASE ResetPcm
    <3>1. /\ pcm'.frames = <<>> /\ control'.pc = "decoder" /\ UNCHANGED <<queue, session>>
          /\ control.pc = "pcm"
      BY <2>6 DEF ResetPcm, Ring, TypeOK, Quiet, numbers
    <3>. QED BY <2>3, <3>1 DEF SessionInv, Settled, AllFrom
  <2>7. CASE ResetDecoder
    <3>1. /\ control.pc = "decoder" /\ control'.pc = "idle"
          /\ UNCHANGED <<queue, pcm, session, format>>
          /\ decoder.ready => decoder'.history = 0
      BY <2>7 DEF ResetDecoder, Decoder, Quiet, ring, setup, numbers
    <3>2. IsValid(format) => decoder.ready
      BY DEF LayoutInv
    <3>. QED BY <2>3, <3>1, <3>2 DEF SessionInv, Settled, AllFrom, IsValid
  <2>8. ASSUME NEW f \in Negotiations, SetCodecConfig(f) PROVE SessionInv'
    <3>1. \/ control'.pc = "queue"
          \/ control' = control /\ control.pc = "idle" /\ format' = NoFormat
      BY <2>8 DEF SetCodecConfig, SetUnknownCodec, SetInvalidCodec, RebuildFails, SetCodec,
         StartReset, Quiet
    <3>. QED BY <2>3, <3>1, NoFormatInvalid DEF SessionInv, Settled, IsValid
  <2>. QED BY <1>2, <2>4, <2>5, <2>6, <2>7, <2>8 DEF ResetSteps
<1>. QED BY <1>1, <1>2 DEF Control

LEMMA SessionProducer ==
    ASSUME TypeOK, TypeOK', SessionInv, Producer
    PROVE  SessionInv'
<1>1. CASE PushRefused
  BY <1>1 DEF PushRefused, ring, setup, calls, numbers, SessionInv, Settled, Belongs, AllFrom,
     IsValid
<1>2. ASSUME NEW kind \in Kinds, NEW t \in Timestamps, PushEncoded(kind, t)
      PROVE  SessionInv'
  <2> DEFINE p == [kind |-> kind, n |-> pushes + 1, session |-> session]
  <2>1. p \in Packet /\ p.session = session
    BY <1>2, SizesAssumption DEF PushEncoded, TypeOK, Packet
  <2>2. queue' = queue \/ queue' = Append(queue, p)
    BY <1>2 DEF PushEncoded, Queue!Accept
  <2>3. queue \in Seq(Packet)
    BY DEF TypeOK
  <2> HIDE DEF p
  <2>4. AllFrom(queue, session) => AllFrom(queue', session)
    BY <2>1, <2>2, <2>3, PartsAreFrom
  <2>5. UNCHANGED <<pcm, pcmScratch, decoder, format, updater, control, session>>
    BY <1>2 DEF PushEncoded, setup, calls
  <2>. QED BY <2>4, <2>5 DEF SessionInv, Settled, Belongs, AllFrom, IsValid
<1>. QED BY <1>1, <1>2 DEF Producer

LEMMA SessionRead ==
    ASSUME TypeOK, SessionInv, Read
    PROVE  SessionInv'
<1>1. CASE ReadBegin
  BY <1>1 DEF ReadBegin, ring, setup, numbers, SessionInv, Settled, Belongs, AllFrom, IsValid
<1>2. ASSUME NEW n \in ReadSizes, ReadEnd(n) PROVE SessionInv'
  <2>1. pcm.frames \in Seq(PcmFrame) /\ Len(pcm.frames) \in Nat
    BY LenProperties DEF TypeOK
  <2>2. PICK got \in 0 .. Len(pcm.frames) : pcm' = RingTail(got)
    <3>1. Least(n, Len(pcm.frames)) \in 0 .. Len(pcm.frames)
      BY <2>1, SizesAssumption DEF Least
    <3>. QED BY <1>2, <3>1 DEF ReadEnd
  <2>3. pcm'.frames = SubSeq(pcm.frames, got + 1, Len(pcm.frames))
    BY <2>2 DEF RingTail, TypeOK
  <2>4. AllFrom(pcm.frames, session) => AllFrom(pcm'.frames, session)
    BY <2>1, <2>3, PartsAreFrom
  <2>5. UNCHANGED <<queue, pcmScratch, decoder, format, updater, control, session>>
    BY <1>2 DEF ReadEnd, setup
  <2>. QED BY <2>4, <2>5 DEF SessionInv, Settled, Belongs, AllFrom, IsValid
<1>. QED BY <1>1, <1>2 DEF Read

(* One task moves inside update().                                          *)
LEMMA SessionStep ==
    ASSUME TypeOK, OneUpdater, LayoutInv, LoopInv, SessionInv,
           NEW u \in Updaters, Update(u), updater[u].pc # "idle",
           \A v \in Updaters \ {u} : updater'[v] = updater[v],
           UNCHANGED <<control, session>>,
           IsValid(format) =>
               /\ AllFrom(queue', session) /\ AllFrom(pcm'.frames, session)
               /\ decoder'.history \in {0, session},
           Belongs(u)'
    PROVE  SessionInv'
<1>1. IsValid(format') <=> IsValid(format)
  BY FormatStaysValid
<1>2. control.pc = "idle" /\ control'.pc = "idle"
  BY DEF LoopInv
<1>3. \A v \in Updaters \ {u} : Belongs(v)'
  BY DEF OneUpdater, SessionInv, Belongs, Inside
<1>. QED BY <1>1, <1>2, <1>3 DEF SessionInv, Settled, AllFrom, IsValid

(* A task inside update() behind its look at the format.                    *)
LEMMA InsideIsSettled ==
    ASSUME LoopInv, SessionInv, NEW u \in Updaters, updater[u].pc \notin {"idle", "format"}
    PROVE  /\ IsValid(format) /\ AllFrom(queue, session) /\ AllFrom(pcm.frames, session)
           /\ decoder.history \in {0, session}
BY DEF LoopInv, SessionInv, Settled

LEMMA SessionDecode ==
    ASSUME TypeOK, OneUpdater, LayoutInv, LoopInv, SessionInv, NEW u \in Updaters, Update(u),
           CheckFormat(u) \/ PopPacket(u) \/ UpdateEnds(u) \/ Decode(u) \/ AdoptRate(u)
    PROVE  SessionInv'
<1>1. Belongs(u) /\ updater[u] \in UpdaterState
  BY PlaceType DEF SessionInv
<1>2. /\ updater[u].pc # "idle" /\ UNCHANGED <<control, session, pcm>>
      /\ \A v \in Updaters \ {u} : updater'[v] = updater[v]
  BY DEF CheckFormat, PopPacket, UpdateEnds, Decode, PacketEnds, PacketCut, SkipByte,
     DecodeFrame, AdoptRate, Goto, Leave, NextItem, ring, setup, numbers, TypeOK
<1>3. CASE CheckFormat(u) \/ UpdateEnds(u) \/ PacketEnds(u) \/ PacketCut(u)
  <2>1. updater'[u].pc \in {"idle", "pop"} /\ updater'[u].session = 0
    <3>1. CASE CheckFormat(u)
      <4>1. updater[u] \in Fetching
        BY <3>1, FetchingType DEF CheckFormat, Outside
      <4>. QED BY <1>1, <3>1, <4>1 DEF CheckFormat, Goto, Leave, Idle, TypeOK, Fetching, Belongs
    <3>2. CASE UpdateEnds(u) \/ PacketEnds(u) \/ PacketCut(u)
      BY <3>2 DEF UpdateEnds, PacketEnds, PacketCut, Leave, Idle, TypeOK
    <3>. QED BY <1>3, <3>1, <3>2
  <2>2. Belongs(u)'
    BY <2>1 DEF Belongs, Inside
  <2>3. UNCHANGED <<queue, decoder>>
    BY <1>3 DEF CheckFormat, UpdateEnds, PacketEnds, PacketCut, ring
  <2>4. IsValid(format) =>
           AllFrom(queue, session) /\ AllFrom(pcm.frames, session)
           /\ decoder.history \in {0, session}
    BY <1>2 DEF LoopInv, SessionInv, Settled
  <2>. QED BY <1>2, <2>2, <2>3, <2>4, SessionStep
<1>4. CASE PopPacket(u)
  <2>1. queue \in Seq(Packet) /\ queue # <<>> /\ packetScratch' = Head(queue)
        /\ queue' = Tail(queue) /\ UNCHANGED decoder
    BY <1>4 DEF PopPacket, Queue!Take, TypeOK
  <2>2. /\ IsValid(format) /\ AllFrom(queue, session) /\ AllFrom(pcm.frames, session)
        /\ decoder.history \in {0, session}
    BY <1>4, InsideIsSettled DEF PopPacket
  <2>3. packetScratch'.session = session /\ AllFrom(queue', session)
    BY <2>1, <2>2, PartsAreFrom
  <2>4. updater[u] \in Fetching
    BY <1>4, FetchingType DEF PopPacket, Outside
  <2>5. updater'[u].pc = "decode" /\ updater'[u].session = session
    BY <1>4, <2>3, <2>4 DEF PopPacket, TypeOK, Fetching
  <2>6. Belongs(u)'
    BY <1>2, <2>5 DEF Belongs, Inside
  <2>. QED BY <1>2, <2>1, <2>2, <2>3, <2>6, SessionStep
<1>5. CASE SkipByte(u) \/ AdoptRate(u)
  <2>1. updater[u].pc \in {"decode", "rate"} /\ NextItem(u) /\ UNCHANGED <<queue, decoder>>
    BY <1>5 DEF SkipByte, AdoptRate, ring
  <2>2. /\ IsValid(format) /\ AllFrom(queue, session) /\ AllFrom(pcm.frames, session)
        /\ decoder.history \in {0, session}
    BY <2>1, InsideIsSettled
  <2>3. updater'[u].pc = "decode" /\ updater'[u].session = updater[u].session
    BY <2>1 DEF NextItem, Idle, TypeOK
  <2>4. Belongs(u)'
    BY <1>1, <1>2, <2>1, <2>3 DEF Belongs, Inside
  <2>. QED BY <1>2, <2>1, <2>2, <2>4, SessionStep
<1>6. CASE DecodeFrame(u)
  <2>1. updater[u].pc = "decode" /\ updater[u].session = session /\ UNCHANGED queue
    BY <1>1, <1>6 DEF DecodeFrame, Belongs
  <2>2. /\ IsValid(format) /\ AllFrom(queue, session) /\ AllFrom(pcm.frames, session)
    BY <2>1, InsideIsSettled
  <2>3. decoder'.history = session
    BY <1>6, <2>1 DEF DecodeFrame, TypeOK
  <2>4. \A i \in 1 .. FramePcm : pcmScratch'[i].session = session
    <3> DEFINE decoded == [i \in 1 .. FramePcm |->
                             [n |-> serial + i, session |-> updater[u].session]]
    <3>1. /\ Len(decoded) = FramePcm
          /\ \A i \in 1 .. FramePcm : decoded[i].session = session
      <4>1. decoded \in Seq(PcmFrame) /\ DOMAIN decoded = 1 .. FramePcm
        <5>1. \A i \in 1 .. FramePcm : decoded[i] \in PcmFrame
          BY PlaceType DEF TypeOK, PcmFrame
        <5>2. FramePcm \in Nat
          BY SizesAssumption
        <5>3. decoded \in Seq(PcmFrame)
          BY <5>1, <5>2, IsASeq
        <5>. QED BY <5>3
      <4>2. Len(decoded) = FramePcm
        BY <4>1, SizesAssumption, LenProperties
      <4>. QED BY <2>1, <4>2
    <3>2. pcmScratch' = IntoScratch(decoded)
      BY <1>6 DEF DecodeFrame
    <3> HIDE DEF decoded
    <3>. QED BY <3>1, <3>2, SizeFacts DEF IntoScratch
  <2>5. updater'[u].pc = "room" /\ updater'[u].session = updater[u].session
    BY <1>1, <1>6 DEF DecodeFrame, TypeOK, UpdaterState
  <2>6. Belongs(u)'
    BY <1>2, <2>1, <2>4, <2>5 DEF Belongs
  <2>. QED BY <1>2, <2>1, <2>2, <2>3, <2>6, SessionStep
<1>. QED BY <1>3, <1>4, <1>5, <1>6 DEF Decode

LEMMA SessionWrite ==
    ASSUME TypeOK, OneUpdater, LayoutInv, LoopInv, RoomInv, SessionInv,
           NEW u \in Updaters, Update(u),
           \/ CheckRoom(u) \/ MeasureOldest(u) \/ DropChunk(u) \/ DropDone(u)
           \/ KeepRoom(u) \/ WritePcm(u)
    PROVE  SessionInv'
<1>1. /\ updater[u].pc \in Inside \ {"rate"} /\ updater[u].pc \notin {"idle", "format", "pop"}
      /\ UNCHANGED <<control, session, queue, decoder>>
      /\ \A v \in Updaters \ {u} : updater'[v] = updater[v]
  BY DEF CheckRoom, MeasureOldest, DropChunk, DropDone, KeepRoom, WritePcm, Inside, Goto, ring,
     numbers, TypeOK
<1>2. /\ IsValid(format) /\ AllFrom(queue, session) /\ AllFrom(pcm.frames, session)
      /\ decoder.history \in {0, session}
  BY <1>1, InsideIsSettled
<1>3. updater[u] \in Handling /\ updater[u].frames \in Nat /\ updater[u].needed \in Nat
  BY <1>1, HandlingType DEF Handling
<1>4. /\ updater[u].session = session
      /\ \A i \in 1 .. FramePcm : pcmScratch[i].session = session
  BY <1>1 DEF SessionInv, Belongs
<1>5. pcm.frames \in Seq(PcmFrame) /\ Len(pcm.frames) \in Nat
  BY LenProperties DEF TypeOK
<1>6. updater'[u].pc \in Inside /\ updater'[u].session = session
  <2>1. CASE CheckRoom(u)
    <3>1. config.policy \in {"DropOldest", "DropNewest"}
      BY InputsAssumption DEF TypeOK
    <3>. QED BY <1>3, <1>4, <2>1, <3>1 DEF CheckRoom, Goto, TypeOK, Handling, Inside
  <2>2. CASE MeasureOldest(u)
    BY <1>3, <1>4, <2>2 DEF MeasureOldest, TypeOK, Handling, Inside
  <2>3. CASE DropChunk(u)
    BY <1>3, <1>4, <2>3 DEF DropChunk, TypeOK, Handling
  <2>4. CASE DropDone(u) \/ WritePcm(u)
    BY <1>3, <1>4, <2>4 DEF DropDone, WritePcm, Goto, TypeOK, Handling, Inside
  <2>5. CASE KeepRoom(u)
    BY <1>3, <1>4, <2>5 DEF KeepRoom, TypeOK, Handling, Inside
  <2>. QED BY <2>1, <2>2, <2>3, <2>4, <2>5
<1>7. CASE CheckRoom(u) \/ MeasureOldest(u) \/ DropDone(u) \/ KeepRoom(u)
  <2>1. UNCHANGED <<pcm, pcmScratch>>
    BY <1>7 DEF CheckRoom, MeasureOldest, DropDone, KeepRoom, ring
  <2>2. Belongs(u)'
    BY <1>1, <1>4, <1>6, <2>1 DEF Belongs, Inside
  <2>. QED BY <1>1, <1>2, <2>1, <2>2, SessionStep
<1>8. CASE DropChunk(u)
  <2>1. Droppable(u) \in 0 .. Len(pcm.frames)
    BY <1>3, <1>5, SizeFacts DEF Droppable, Least
  <2> DEFINE dropped == SubSeq(pcm.frames, 1, Droppable(u))
  <2>2. AllFrom(dropped, session)
        /\ AllFrom(SubSeq(pcm.frames, Droppable(u) + 1, Len(pcm.frames)), session)
    BY <1>2, <1>5, <2>1, PartsAreFrom
  <2>3. AllFrom(pcm'.frames, session)
    <3>1. pcm'.frames = SubSeq(pcm.frames, Droppable(u) + 1, Len(pcm.frames))
      BY <1>8 DEF DropChunk, RingTail, TypeOK
    <3>. QED BY <2>2, <3>1
  <2>4. \A i \in 1 .. FramePcm : pcmScratch'[i].session = session
    <3>1. pcmScratch' = IntoScratch(dropped)
      BY <1>8 DEF DropChunk
    <3> HIDE DEF dropped
    <3>. QED BY <1>4, <2>2, <3>1, SizeFacts DEF IntoScratch, AllFrom
  <2>5. Belongs(u)'
    BY <1>1, <1>6, <2>4 DEF Belongs, Inside
  <2>. QED BY <1>1, <1>2, <2>3, <2>5, SessionStep
<1>9. CASE WritePcm(u)
  <2>1. Writable(u) \in Nat /\ Writable(u) <= FramePcm
    <3>1. updater[u].frames <= FramePcm
      BY <1>9 DEF WritePcm, RoomInv, Fits
    <3>. QED BY <1>3, <3>1, FreeType, SizeFacts DEF Writable, Least
  <2>2. /\ FromScratch(Writable(u)) \in Seq(PcmFrame)
        /\ Len(FromScratch(Writable(u))) = Writable(u)
    BY <2>1, FromScratchType
  <2>3. \A i \in 1 .. Writable(u) : FromScratch(Writable(u))[i].session = session
    BY <1>4, <2>1, SizeFacts DEF FromScratch
  <2>4. AllFrom(pcm.frames \o FromScratch(Writable(u)), session)
    BY <1>2, <1>5, <2>1, <2>2, <2>3, Joined DEF AllFrom
  <2>5. pcm'.frames = pcm.frames \o FromScratch(Writable(u))
    BY <1>9 DEF WritePcm, TypeOK
  <2>6. updater'[u].pc = "rate"
    BY <1>3, <1>9 DEF WritePcm, Goto, TypeOK, Handling
  <2>7. Belongs(u)'
    BY <1>1, <1>6, <2>6 DEF Belongs, Inside
  <2>. QED BY <1>1, <1>2, <2>4, <2>5, <2>7, SessionStep
<1>. QED BY <1>7, <1>8, <1>9

LEMMA SessionUpdate ==
    ASSUME SingleTask, TypeOK, OneUpdater, LayoutInv, LoopInv, RoomInv, SessionInv,
           NEW u \in Updaters, Update(u)
    PROVE  SessionInv'
<1>1. CASE UpdateRefused(u)
  BY <1>1 DEF UpdateRefused, ring, setup, calls, numbers, SessionInv, Settled, Belongs, AllFrom,
     IsValid
<1>2. CASE UpdateBegin(u)
  <2>1. \A v \in Updaters :
           updater'[v].pc \in {"idle", "format"} /\ updater'[v].session = 0
    <3>1. updater[u] \in Fetching /\ updater[u].session = 0
      BY <1>2, FetchingType DEF UpdateBegin, Outside, SessionInv, Belongs
    <3>2. updater'[u].pc = "format" /\ updater'[u].session = 0
      BY <1>2, <3>1 DEF UpdateBegin, Goto, TypeOK, Fetching
    <3>3. \A v \in Updaters \ {u} : updater'[v] = updater[v] /\ updater[v].pc = "idle"
      BY <1>2 DEF UpdateBegin, GuardFree, Goto, TypeOK, OneUpdater
    <3>. QED BY <3>2, <3>3 DEF SessionInv, Belongs
  <2>2. UNCHANGED <<queue, pcm, decoder, format, control, session>>
    BY <1>2 DEF UpdateBegin, ring, setup, numbers
  <2>. QED BY <2>1, <2>2 DEF SessionInv, Settled, Belongs, AllFrom, IsValid, Inside
<1>. QED BY <1>1, <1>2, SessionDecode, SessionWrite DEF Update, UpdateRuns, Write

LEMMA SessionNext ==
    ASSUME SingleTask, TypeOK, TypeOK', OneUpdater, LayoutInv, LoopInv, RoomInv, SessionInv,
           [Next]_vars
    PROVE  SessionInv'
<1>1. CASE Lifetime
  <2>1. (\A u \in Updaters : updater[u].pc = "idle") /\ control.pc = "idle"
    BY <1>1, AloneIsIdle DEF Lifetime, End, Begin, BeginRejected, BeginFails, BeginSucceeds
  <2>2. UNCHANGED <<updater, control>> /\ format' = NoFormat
    BY <1>1 DEF Lifetime, End, Begin, BeginRejected, BeginFails, BeginSucceeds, Ended
  <2>3. \A u \in Updaters : Belongs(u)'
    BY <2>1, <2>2, RestKeepsSession
  <2>. QED BY <2>1, <2>2, <2>3, NoFormatInvalid DEF SessionInv, Settled, IsValid
<1>2. CASE UNCHANGED vars
  BY <1>2 DEF vars, ring, setup, calls, numbers, SessionInv, Settled, Belongs, AllFrom, IsValid
<1>3. ASSUME NEW u \in Updaters, Update(u) PROVE SessionInv'
  BY <1>3, SessionUpdate
<1>. QED BY <1>1, <1>2, <1>3, SessionControl, SessionProducer, SessionRead DEF Next

(* Once reset() or setCodecConfig() has returned, no packet, no PCM and no  *)
(* filter memory of an earlier session is left (SPEC.md:480,                *)
(* A2dpSinkStream.cpp:159-219), whatever was pushed while it ran.           *)
THEOREM SessionsStayApart ==
    ASSUME SingleTask
    PROVE  Spec => []NoStaleSession
<1>1. TypeOK /\ LayoutInv /\ SessionInv => NoStaleSession
  <2> SUFFICES ASSUME TypeOK, LayoutInv, SessionInv, control = Quiet, IsReady
               PROVE  /\ \A i \in DOMAIN queue : queue[i].session = session
                      /\ \A i \in DOMAIN pcm.frames : pcm.frames[i].session = session
                      /\ decoder.history \in {0, session}
                      /\ \A u \in Updaters : updater[u].session \in {0, session}
    BY DEF NoStaleSession
  <2>1. Settled
    BY DEF Settled, Quiet, IsReady
  <2>2. DOMAIN queue = 1 .. Len(queue) /\ DOMAIN pcm.frames = 1 .. Len(pcm.frames)
    BY LenProperties DEF TypeOK
  <2>. QED BY <2>1, <2>2 DEF SessionInv, AllFrom, Belongs
<1>2. /\ TypeOK /\ TypeOK' /\ OneUpdater /\ LayoutInv /\ LoopInv /\ RoomInv
      /\ SessionInv /\ [Next]_vars
      => SessionInv'
  BY SessionNext
<1>3. Spec => [](TypeOK /\ OneUpdater /\ LayoutInv /\ LoopInv)
  BY LoopHolds DEF SingleTask
<1>. QED BY <1>1, <1>2, <1>3, RoomHolds, SessionInit, PTL DEF Spec
=============================================================================
