--------------------- MODULE A2dpSinkStreamOrderProofs ---------------------
(***************************************************************************)
(* A2dpSinkStream with the policy DropNewest, in one application loop: the *)
(* PCM is handed out in the order in which it was decoded.                 *)
(***************************************************************************)
EXTENDS A2dpSinkStreamSessionProofs

(* Each frame has a later number than the one before it; none is later than *)
(* `last'.                                                                  *)
InOrder(s, first) == \A i \in 1 .. Len(s) : s[i].n > (IF i = 1 THEN first ELSE s[i - 1].n)
UpTo(s, last)     == \A i \in 1 .. Len(s) : s[i].n <= last

Writing == Inside \ {"rate"}

(* While a frame is being written, it is newer than everything in the ring  *)
(* and everything that was read, and pcmScratch_ holds it.                  *)
Newest ==
    /\ FramePcm <= serial /\ heard <= serial - FramePcm /\ UpTo(pcm.frames, serial - FramePcm)
    /\ \A i \in 1 .. FramePcm : pcmScratch[i].n = (serial - FramePcm) + i

OrderInv ==
    /\ heard <= serial /\ UpTo(pcm.frames, serial)
    /\ \A i \in 1 .. ScratchFrames : pcmScratch[i].n <= serial
    /\ config.policy = "DropNewest" =>
          /\ InOrder(pcm.frames, heard)
          /\ \A u \in Updaters :
                updater[u].pc \in Writing =>
                    updater[u].pc \notin {"DropOldest", "drop"} /\ Newest

LEMMA OrderInit == Init => OrderInv
<1> SUFFICES ASSUME Init PROVE OrderInv
  OBVIOUS
<1>1. heard = 0 /\ serial = 0 /\ pcm.frames = <<>> /\ Len(<<>>) = 0
  BY EmptySeq DEF Init, NoRing
<1>2. \A i \in 1 .. ScratchFrames : pcmScratch[i].n = 0
  BY DEF Init, Blank, Unwritten
<1>3. \A u \in Updaters : updater[u].pc \notin Writing
  BY DEF Init, Idle, Writing, Inside
<1>. QED BY <1>1, <1>2, <1>3 DEF OrderInv, InOrder, UpTo

LEMMA Numbers ==
    ASSUME TypeOK
    PROVE  /\ pcm.frames \in Seq(PcmFrame) /\ Len(pcm.frames) \in Nat
           /\ \A i \in 1 .. Len(pcm.frames) : pcm.frames[i].n \in Nat
           /\ \A i \in 1 .. ScratchFrames : pcmScratch[i].n \in Nat
           /\ heard \in Nat /\ serial \in Nat
<1>1. pcm.frames \in Seq(PcmFrame)
  BY DEF TypeOK
<1>2. Len(pcm.frames) \in Nat /\ \A i \in 1 .. Len(pcm.frames) : pcm.frames[i] \in PcmFrame
  BY <1>1, LenProperties, ElementOfSeq
<1>. QED BY <1>1, <1>2 DEF TypeOK, PcmFrame

(* Steps that touch neither the PCM nor its numbers, and start no writing.  *)
LEMMA OrderKept ==
    ASSUME OrderInv, UNCHANGED <<pcm, pcmScratch, serial, heard, config>>,
           UNCHANGED updater \/ \A u \in Updaters : updater'[u].pc \notin Writing
    PROVE  OrderInv'
BY DEF OrderInv, Newest, InOrder, UpTo

(* The ring is emptied while no call of update() runs.                      *)
LEMMA OrderEmptied ==
    ASSUME OrderInv, pcm'.frames = <<>>, UNCHANGED <<serial, heard, updater>>,
           \A u \in Updaters : updater[u].pc = "idle",
           \A i \in 1 .. ScratchFrames : pcmScratch'[i].n <= serial
    PROVE  OrderInv'
BY EmptySeq DEF OrderInv, InOrder, UpTo, Writing, Inside

LEMMA OrderLifetime ==
    ASSUME TypeOK, OrderInv, Lifetime
    PROVE  OrderInv'
<1>1. \A u \in Updaters : updater[u].pc = "idle"
  BY AloneIsIdle DEF Lifetime, End, Begin, BeginRejected, BeginFails, BeginSucceeds
<1>2. pcm'.frames = <<>> /\ pcmScratch' = Blank /\ UNCHANGED <<serial, heard, updater>>
  <2>1. NoRing.frames = <<>> /\ Ring(2).frames = <<>>
    BY DEF NoRing, Ring
  <2>2. (pcm' = NoRing \/ pcm' = Ring(2)) /\ pcmScratch' = Blank
    BY DEF Lifetime, End, Begin, BeginRejected, BeginFails, BeginSucceeds, Ended
  <2>3. UNCHANGED <<updater, numbers>>
    BY DEF Lifetime, End, Begin, BeginRejected, BeginFails, BeginSucceeds
  <2>. QED BY <2>1, <2>2, <2>3 DEF numbers
<1>3. \A i \in 1 .. ScratchFrames : pcmScratch'[i].n <= serial
  BY <1>2, Numbers DEF Blank, Unwritten
<1>. QED BY <1>1, <1>2, <1>3, OrderEmptied

LEMMA OrderControl ==
    ASSUME SingleTask, TypeOK, LoopInv, OrderInv, Control
    PROVE  OrderInv'
<1>1. CASE SetCodecRefused \/ ResetCounters \/ Reset \/ ResetQueue \/ ResetDecoder
  BY <1>1, OrderKept DEF SetCodecRefused, ResetCounters, Reset, ResetQueue, ResetDecoder, ring,
     setup, calls, numbers
<1>2. CASE ResetPcm \/ \E f \in Negotiations : SetCodecConfig(f)
  <2>1. (\A u \in Updaters : updater[u].pc = "idle") /\ UNCHANGED updater
    BY <1>2, Apart DEF SingleTask, ResetPcm, SetCodecConfig, LoopInv
  <2>2. UNCHANGED <<pcmScratch, config, serial, heard>>
    BY <1>2 DEF ResetPcm, SetCodecConfig, setup, numbers
  <2>3. pcm' = pcm \/ pcm'.frames = <<>>
    BY <1>2 DEF ResetPcm, SetCodecConfig, SetUnknownCodec, SetInvalidCodec, RebuildFails,
       SetCodec, NoRing, Ring
  <2>4. \A i \in 1 .. ScratchFrames : pcmScratch'[i].n <= serial
    BY <2>2 DEF OrderInv
  <2>. QED BY <2>1, <2>2, <2>3, <2>4, OrderKept, OrderEmptied
<1>. QED BY <1>1, <1>2 DEF Control, ResetSteps

LEMMA OrderRead ==
    ASSUME TypeOK, RoomInv, OrderInv, Read
    PROVE  OrderInv'
<1>1. CASE ReadBegin
  BY <1>1, OrderKept DEF ReadBegin, ring, setup, numbers
<1>2. ASSUME NEW n \in ReadSizes, ReadEnd(n) PROVE OrderInv'
  <2>1. (\A u \in Updaters : updater[u].pc = "idle")
        /\ UNCHANGED <<updater, pcmScratch, serial, config>>
    BY <1>2 DEF ReadEnd, RoomInv, setup
  <2>2. PICK got \in 0 .. Len(pcm.frames) :
           pcm' = RingTail(got) /\ heard' = IF got = 0 THEN heard ELSE pcm.frames[got].n
    <3>1. Least(n, Len(pcm.frames)) \in 0 .. Len(pcm.frames)
      BY Numbers, SizesAssumption DEF Least
    <3>. QED BY <1>2, <3>1 DEF ReadEnd
  <2>3. /\ Len(pcm'.frames) = Len(pcm.frames) - got
        /\ \A i \in 1 .. Len(pcm.frames) - got : pcm'.frames[i] = pcm.frames[got + i]
    <3>1. pcm'.frames = SubSeq(pcm.frames, got + 1, Len(pcm.frames))
      BY <2>2 DEF RingTail, TypeOK
    <3>2. got + 1 \in Int /\ Len(pcm.frames) \in Int
          /\ \A i \in got + 1 .. Len(pcm.frames) : pcm.frames[i] \in PcmFrame
      BY Numbers, ElementOfSeq
    <3>3. \A i \in 1 .. Len(pcm.frames) - (got + 1) + 1 :
             SubSeq(pcm.frames, got + 1, Len(pcm.frames))[i] = pcm.frames[(got + 1) + i - 1]
      BY <3>2, SubSeqProperties
    <3>. QED BY <2>2, <3>1, <3>3, RingTailType, Numbers
  <2>4. heard' <= serial
    BY <2>2, Numbers DEF OrderInv, UpTo
  <2>5. UpTo(pcm'.frames, serial)
    <3>1. Len(pcm.frames) \in Nat /\ \A i \in 1 .. Len(pcm.frames) : pcm.frames[i].n <= serial
      BY Numbers DEF OrderInv, UpTo
    <3>2. \A i \in 1 .. Len(pcm.frames) - got : got + i \in 1 .. Len(pcm.frames)
      BY <3>1
    <3>. QED BY <2>3, <3>1, <3>2 DEF UpTo
  <2>6. ASSUME config.policy = "DropNewest" PROVE InOrder(pcm'.frames, heard')
    <3>1. /\ Len(pcm.frames) \in Nat
          /\ \A i \in 1 .. Len(pcm.frames) :
                pcm.frames[i].n > (IF i = 1 THEN heard ELSE pcm.frames[i - 1].n)
      BY <2>6, Numbers DEF OrderInv, InOrder
    <3>2. ASSUME NEW i \in 1 .. Len(pcm.frames) - got
          PROVE  pcm'.frames[i].n > (IF i = 1 THEN heard' ELSE pcm'.frames[i - 1].n)
      <4>1. got + i \in 1 .. Len(pcm.frames) /\ pcm'.frames[i] = pcm.frames[got + i]
        BY <2>3, <3>1
      <4>2. CASE i = 1
        BY <2>2, <3>1, <4>1, <4>2
      <4>3. CASE i # 1
        <5>1. i - 1 \in 1 .. Len(pcm.frames) - got /\ (got + i) - 1 = got + (i - 1)
              /\ got + i # 1
          BY <3>1, <4>3
        <5>2. pcm'.frames[i - 1] = pcm.frames[got + (i - 1)]
          BY <2>3, <5>1
        <5>. QED BY <3>1, <4>1, <4>3, <5>1, <5>2
      <4>. QED BY <4>2, <4>3
    <3>. QED BY <2>3, <3>2 DEF InOrder
  <2>. QED BY <2>1, <2>4, <2>5, <2>6 DEF OrderInv, Writing, Inside, InOrder, UpTo
<1>. QED BY <1>1, <1>2 DEF Read

(* A frame is decoded: it gets the next FramePcm numbers.                   *)
LEMMA OrderDecodeFrame ==
    ASSUME TypeOK, OneUpdater, OrderInv, NEW u \in Updaters, DecodeFrame(u)
    PROVE  OrderInv'
<1>1. /\ updater[u] \in UpdaterState /\ updater[u].pc = "decode"
      /\ UNCHANGED <<pcm, heard, config>> /\ serial' = serial + FramePcm
  BY PlaceType DEF DecodeFrame, setup
<1>2. /\ updater'[u].pc = "room"
      /\ \A v \in Updaters \ {u} : updater'[v] = updater[v] /\ updater[v].pc = "idle"
  BY <1>1 DEF DecodeFrame, TypeOK, UpdaterState, OneUpdater
<1> DEFINE decoded == [i \in 1 .. FramePcm |->
                         [n |-> serial + i, session |-> updater[u].session]]
<1>3. Len(decoded) = FramePcm /\ \A i \in 1 .. FramePcm : decoded[i].n = serial + i
  <2>1. \A i \in 1 .. FramePcm : decoded[i] \in PcmFrame
    BY PlaceType DEF TypeOK, PcmFrame
  <2>2. FramePcm \in Nat
    BY SizesAssumption
  <2>3. decoded \in Seq(PcmFrame)
    BY <2>1, <2>2, IsASeq
  <2>4. DOMAIN decoded = 1 .. FramePcm
    OBVIOUS
  <2>5. Len(decoded) = FramePcm
    BY <2>2, <2>3, <2>4, LenProperties
  <2>. QED BY <2>5
<1>4. pcmScratch' = IntoScratch(decoded)
  BY DEF DecodeFrame
<1> HIDE DEF decoded
<1>5. /\ \A i \in 1 .. FramePcm : pcmScratch'[i].n = serial + i
      /\ \A i \in 1 .. ScratchFrames : pcmScratch'[i].n <= serial'
  BY <1>1, <1>3, <1>4, SizeFacts, Numbers DEF IntoScratch, OrderInv
<1>6. heard' <= serial' /\ UpTo(pcm'.frames, serial')
  BY <1>1, SizeFacts, Numbers DEF OrderInv, UpTo
<1>7. Newest'
  <2>1. serial' - FramePcm = serial /\ FramePcm <= serial'
    BY <1>1, SizeFacts, Numbers
  <2>. QED BY <1>1, <1>5, <2>1 DEF OrderInv, Newest, UpTo
<1>. QED BY <1>1, <1>2, <1>5, <1>6, <1>7 DEF OrderInv, InOrder, Writing, Inside

LEMMA OrderDropChunk ==
    ASSUME TypeOK, OrderInv, NEW u \in Updaters, DropChunk(u)
    PROVE  OrderInv'
<1>1. /\ config.policy # "DropNewest" /\ UNCHANGED <<serial, heard, config>>
  BY DEF DropChunk, OrderInv, Writing, Inside, setup, numbers
<1>2. Droppable(u) \in 0 .. Len(pcm.frames)
  BY Numbers, PlaceType, SizeFacts DEF Droppable, Least
<1> DEFINE d == Droppable(u)
<1>3. /\ Len(SubSeq(pcm.frames, 1, d)) = d
      /\ \A i \in 1 .. d : SubSeq(pcm.frames, 1, d)[i] = pcm.frames[i]
  <2>1. 1 \in Int /\ d \in Int /\ \A i \in 1 .. d : pcm.frames[i] \in PcmFrame
    BY <1>2, Numbers, ElementOfSeq
  <2> HIDE DEF d
  <2>2. /\ Len(SubSeq(pcm.frames, 1, d)) = IF 1 <= d THEN d - 1 + 1 ELSE 0
        /\ \A i \in 1 .. d - 1 + 1 : SubSeq(pcm.frames, 1, d)[i] = pcm.frames[1 + i - 1]
    BY <2>1, SubSeqProperties
  <2>3. d \in Nat
    BY <1>2, Numbers DEF d
  <2>. QED BY <2>2, <2>3
<1>4. /\ Len(pcm'.frames) = Len(pcm.frames) - d
      /\ \A i \in 1 .. Len(pcm.frames) - d : pcm'.frames[i] = pcm.frames[d + i]
  <2>1. d + 1 \in Int /\ Len(pcm.frames) \in Int
        /\ \A i \in d + 1 .. Len(pcm.frames) : pcm.frames[i] \in PcmFrame
    BY <1>2, Numbers, ElementOfSeq
  <2>2. pcm' = RingTail(d) /\ pcm'.frames = SubSeq(pcm.frames, d + 1, Len(pcm.frames))
    BY DEF DropChunk, RingTail, TypeOK
  <2>3. d \in 0 .. Len(pcm.frames)
    BY <1>2
  <2> HIDE DEF d
  <2>4. \A i \in 1 .. Len(pcm.frames) - (d + 1) + 1 :
           SubSeq(pcm.frames, d + 1, Len(pcm.frames))[i] = pcm.frames[(d + 1) + i - 1]
    BY <2>1, SubSeqProperties
  <2>. QED BY <2>2, <2>3, <2>4, RingTailType, Numbers
<1>5. pcmScratch' = IntoScratch(SubSeq(pcm.frames, 1, d))
  BY DEF DropChunk
<1>6. d \in 0 .. Len(pcm.frames)
  BY <1>2
<1> HIDE DEF d
<1>7. \A i \in 1 .. ScratchFrames : pcmScratch'[i].n <= serial
  BY <1>3, <1>5, <1>6, Numbers, SizeFacts DEF IntoScratch, OrderInv, UpTo
<1>8. UpTo(pcm'.frames, serial)
  BY <1>4, <1>6, Numbers DEF OrderInv, UpTo
<1>. QED BY <1>1, <1>7, <1>8 DEF OrderInv, UpTo

(* The frame goes behind everything that is older.                          *)
LEMMA OrderWritePcm ==
    ASSUME TypeOK, OneUpdater, RoomInv, OrderInv, NEW u \in Updaters, WritePcm(u)
    PROVE  OrderInv'
<1>1. updater[u] \in Handling /\ updater[u].frames \in Nat /\ updater[u].pc = "write"
  BY HandlingType DEF WritePcm, Handling, Inside
<1>2. Writable(u) \in Nat /\ Writable(u) <= FramePcm
  <2>1. updater[u].frames <= FramePcm
    BY <1>1 DEF RoomInv, Fits
  <2>. QED BY <1>1, <2>1, FreeType, SizeFacts DEF Writable, Least
<1> DEFINE k == Writable(u)
           t == FromScratch(k)
<1>3. t \in Seq(PcmFrame) /\ Len(t) = k
  BY <1>2, FromScratchType
<1>4. \A i \in 1 .. k : t[i] = pcmScratch[i]
  BY <1>2, SizeFacts DEF FromScratch
<1>5. pcm'.frames = pcm.frames \o t /\ UNCHANGED <<pcmScratch, serial, heard, config>>
  BY DEF WritePcm, TypeOK, setup, numbers
<1>6. k \in Nat /\ k <= FramePcm
  BY <1>2
<1> HIDE DEF k, t
<1>7. /\ Len(pcm'.frames) = Len(pcm.frames) + k
      /\ \A i \in 1 .. Len(pcm.frames) + k :
            pcm'.frames[i] = IF i <= Len(pcm.frames) THEN pcm.frames[i]
                                                     ELSE pcmScratch[i - Len(pcm.frames)]
  <2>1. /\ Len(pcm.frames \o t) = Len(pcm.frames) + Len(t)
        /\ \A i \in 1 .. Len(pcm.frames) + Len(t) :
              (pcm.frames \o t)[i] = IF i <= Len(pcm.frames) THEN pcm.frames[i]
                                                             ELSE t[i - Len(pcm.frames)]
    BY <1>3, Numbers, Joined
  <2>2. \A i \in 1 .. Len(pcm.frames) + k :
           i > Len(pcm.frames) => t[i - Len(pcm.frames)] = pcmScratch[i - Len(pcm.frames)]
    BY <1>4, <1>6, Numbers
  <2>. QED BY <1>3, <1>5, <1>6, <2>1, <2>2, Numbers
<1> DEFINE had == Len(pcm.frames)
<1>8. /\ had \in Nat /\ serial \in Int /\ heard \in Int /\ FramePcm \in Int
      /\ \A i \in 1 .. had : pcm.frames[i].n <= serial
      /\ \A i \in 1 .. FramePcm : pcmScratch[i].n <= serial
  BY Numbers, SizeFacts DEF OrderInv, UpTo
<1> HIDE DEF had
<1>9. /\ Len(pcm'.frames) = had + k
      /\ \A i \in 1 .. had + k :
            /\ i <= had => i \in 1 .. had /\ pcm'.frames[i] = pcm.frames[i]
            /\ i > had => i - had \in 1 .. FramePcm /\ pcm'.frames[i] = pcmScratch[i - had]
  BY <1>6, <1>7, <1>8 DEF had
<1>10. UpTo(pcm'.frames, serial)
  BY <1>6, <1>8, <1>9 DEF UpTo
<1>11. ASSUME config.policy = "DropNewest" PROVE InOrder(pcm'.frames, heard)
  <2>1. /\ heard <= serial - FramePcm
        /\ \A i \in 1 .. had : pcm.frames[i].n <= serial - FramePcm
        /\ \A i \in 1 .. FramePcm : pcmScratch[i].n = (serial - FramePcm) + i
        /\ \A i \in 1 .. had : pcm.frames[i].n > (IF i = 1 THEN heard ELSE pcm.frames[i - 1].n)
    BY <1>1, <1>11 DEF OrderInv, Newest, InOrder, UpTo, Writing, Inside, had
  <2>2. ASSUME NEW i \in 1 .. had + k
        PROVE  pcm'.frames[i].n > (IF i = 1 THEN heard ELSE pcm'.frames[i - 1].n)
    <3>1. i - 1 \in 1 .. had + k \/ i = 1
      BY <1>6, <1>8
    <3>2. CASE i <= had
      <4>1. i # 1 => pcm'.frames[i - 1] = pcm.frames[i - 1]
        BY <1>6, <1>8, <1>9, <3>1, <3>2
      <4>. QED BY <1>9, <2>1, <3>2, <4>1
    <3>3. CASE i > had
      <4>1. i - had \in 1 .. FramePcm /\ pcm'.frames[i].n = (serial - FramePcm) + (i - had)
        BY <1>9, <2>1, <3>3
      <4>2. CASE i = 1
        BY <1>8, <2>1, <4>1, <4>2
      <4>3. CASE i # 1 /\ i - 1 <= had
        <5>1. pcm'.frames[i - 1] = pcm.frames[i - 1] /\ i - 1 \in 1 .. had
          BY <1>9, <3>1, <4>3
        <5>2. pcm.frames[i - 1].n <= serial - FramePcm /\ pcm.frames[i - 1].n \in Int
          BY <2>1, <5>1, Numbers DEF had
        <5>. QED BY <1>8, <4>1, <4>3, <5>1, <5>2
      <4>4. CASE i # 1 /\ i - 1 > had
        <5>1. (i - 1) - had \in 1 .. FramePcm
              /\ pcm'.frames[i - 1].n = (serial - FramePcm) + ((i - 1) - had)
          BY <1>9, <2>1, <3>1, <4>4
        <5>. QED BY <1>8, <4>1, <4>4, <5>1
      <4>. QED BY <1>8, <4>2, <4>3, <4>4
    <3>. QED BY <1>8, <3>2, <3>3
  <2>. QED BY <1>9, <2>2 DEF InOrder
<1>12. \A v \in Updaters : updater'[v].pc \notin Writing
  <2>1. updater'[u].pc = "rate" /\ \A v \in Updaters \ {u} : updater'[v] = updater[v]
    BY <1>1 DEF WritePcm, Goto, TypeOK, Handling
  <2>. QED BY <1>1, <2>1 DEF OneUpdater, Writing, Inside
<1>. QED BY <1>5, <1>10, <1>11, <1>12 DEF OrderInv, InOrder, UpTo

LEMMA OrderUpdate ==
    ASSUME TypeOK, OneUpdater, RoomInv, OrderInv, NEW u \in Updaters, Update(u)
    PROVE  OrderInv'
<1>1. CASE UpdateRefused(u)
  BY <1>1, OrderKept DEF UpdateRefused, ring, setup, calls, numbers
<1>2. CASE \/ UpdateBegin(u) \/ CheckFormat(u) \/ PopPacket(u) \/ UpdateEnds(u)
           \/ PacketEnds(u) \/ PacketCut(u) \/ SkipByte(u) \/ AdoptRate(u)
  <2>1. UNCHANGED <<pcm, pcmScratch, serial, heard, config>>
    BY <1>2 DEF UpdateBegin, CheckFormat, PopPacket, UpdateEnds, PacketEnds, PacketCut, SkipByte,
       AdoptRate, ring, setup, numbers
  <2>2. /\ \A v \in Updaters \ {u} : updater'[v] = updater[v]
        /\ updater[u].pc # "idle" \/ UpdateBegin(u)
    BY <1>2 DEF UpdateBegin, CheckFormat, PopPacket, UpdateEnds, PacketEnds, PacketCut, SkipByte,
       AdoptRate, Goto, Leave, NextItem, TypeOK
  <2>3. \A v \in Updaters \ {u} : updater[v].pc = "idle"
    BY <2>2 DEF OneUpdater, UpdateBegin, GuardFree
  <2>4. updater'[u].pc \in {"idle", "format", "pop", "decode"}
    <3>1. CASE Leave(u)
      BY <3>1 DEF Leave, Idle, TypeOK
    <3>2. CASE NextItem(u)
      BY <3>2 DEF NextItem, Idle, TypeOK
    <3>3. CASE PacketEnds(u) \/ PacketCut(u)
      BY <3>3 DEF PacketEnds, PacketCut, Idle, TypeOK
    <3>4. CASE \/ UpdateBegin(u) \/ PopPacket(u)
                \/ (updater[u].pc = "format" /\ Goto(u, "pop"))
      <4>1. updater[u] \in Fetching
        BY <3>4, FetchingType DEF UpdateBegin, PopPacket, Outside
      <4>2. CASE PopPacket(u)
        BY <4>1, <4>2 DEF PopPacket, TypeOK, Fetching
      <4>3. CASE Goto(u, "pop") \/ Goto(u, "format")
        BY <4>1, <4>3 DEF Goto, TypeOK, Fetching
      <4>. QED BY <3>4, <4>2, <4>3 DEF UpdateBegin
    <3>5. CheckFormat(u) => Leave(u) \/ (updater[u].pc = "format" /\ Goto(u, "pop"))
      BY DEF CheckFormat
    <3>6. (UpdateEnds(u) => Leave(u)) /\ (SkipByte(u) \/ AdoptRate(u) => NextItem(u))
      BY DEF UpdateEnds, SkipByte, AdoptRate
    <3>. QED BY <1>2, <3>1, <3>2, <3>3, <3>4, <3>5, <3>6
  <2>. QED BY <2>1, <2>2, <2>3, <2>4, OrderKept DEF Writing, Inside
<1>3. CASE CheckRoom(u) \/ MeasureOldest(u) \/ DropDone(u) \/ KeepRoom(u)
  <2>1. UNCHANGED <<pcm, pcmScratch, serial, heard, config>>
    BY <1>3 DEF CheckRoom, MeasureOldest, DropDone, KeepRoom, ring, setup, numbers
  <2>2. /\ updater[u].pc \in Writing /\ updater[u] \in Handling
        /\ \A v \in Updaters \ {u} : updater'[v] = updater[v]
    BY <1>3, HandlingType DEF CheckRoom, MeasureOldest, DropDone, KeepRoom, Goto, TypeOK,
       Writing, Inside
  <2>3. config.policy = "DropNewest" => updater'[u].pc \notin {"DropOldest", "drop"}
    <3>1. CASE CheckRoom(u)
      BY <2>2, <3>1 DEF CheckRoom, Goto, TypeOK, Handling
    <3>2. CASE DropDone(u)
      BY <2>2, <3>2 DEF DropDone, Goto, TypeOK, Handling
    <3>3. CASE KeepRoom(u)
      BY <2>2, <3>3 DEF KeepRoom, TypeOK, Handling
    <3>4. CASE MeasureOldest(u)
      BY <2>2, <3>4 DEF MeasureOldest, OrderInv
    <3>. QED BY <1>3, <3>1, <3>2, <3>3, <3>4
  <2>. QED BY <2>1, <2>2, <2>3 DEF OrderInv, Newest, InOrder, UpTo
<1>. QED BY <1>1, <1>2, <1>3, OrderDecodeFrame, OrderDropChunk, OrderWritePcm
         DEF Update, UpdateRuns, Decode, Write

LEMMA OrderNext ==
    ASSUME SingleTask, TypeOK, OneUpdater, LoopInv, RoomInv, OrderInv, [Next]_vars
    PROVE  OrderInv'
<1>1. CASE Producer \/ UNCHANGED vars
  BY <1>1, OrderKept DEF Producer, PushRefused, PushEncoded, vars, ring, setup, calls, numbers
<1>2. ASSUME NEW u \in Updaters, Update(u) PROVE OrderInv'
  BY <1>2, OrderUpdate
<1>. QED BY <1>1, <1>2, OrderLifetime, OrderControl, OrderRead DEF Next

(* With DropNewest no PCM frame is handed out twice or out of order         *)
(* (A2dpSinkStream.h:24-27), for frames, rings and reads of any size.       *)
THEOREM NewestIsContiguous ==
    ASSUME SingleTask
    PROVE  Spec => []NewestKeepsOrder
<1>1. TypeOK /\ OrderInv => NewestKeepsOrder
  <2>1. TypeOK => DOMAIN pcm.frames = 1 .. Len(pcm.frames)
    BY LenProperties DEF TypeOK
  <2>. QED BY <2>1 DEF OrderInv, InOrder, NewestKeepsOrder, PlayedInOrder
<1>2. TypeOK /\ OneUpdater /\ LoopInv /\ RoomInv /\ OrderInv /\ [Next]_vars => OrderInv'
  BY OrderNext
<1>3. Spec => [](TypeOK /\ OneUpdater /\ LayoutInv /\ LoopInv)
  BY LoopHolds DEF SingleTask
<1>. QED BY <1>1, <1>2, <1>3, RoomHolds, OrderInit, PTL DEF Spec
=============================================================================
