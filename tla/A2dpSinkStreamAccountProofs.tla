-------------------- MODULE A2dpSinkStreamAccountProofs --------------------
(***************************************************************************)
(* A2dpSinkStream in one application loop, with a ring that holds at least *)
(* one SBC frame: no decoded PCM frame is lost without being counted.      *)
(***************************************************************************)
EXTENDS A2dpSinkStreamSessionProofs

WideRings == \A c \in Configs : c.pcmFrames >= FramePcm

-----------------------------------------------------------------------------
(* Counting modulo WordMod: the counters wrap, the sum does not care.       *)

Wraps(x) == \E q \in Int : x = q * WordMod

LEMMA Modulus == WordMod \in Nat /\ WordMod > 0
BY SizesAssumption

LEMMA WrapsZero == Wraps(0)
<1>1. 0 \in Int /\ 0 = 0 * WordMod
  BY Modulus
<1>. QED BY <1>1 DEF Wraps

LEMMA WrapsDifference ==
    ASSUME NEW x \in Int
    PROVE  Wraps(x - (x % WordMod))
<1>1. x \div WordMod \in Int /\ x = WordMod * (x \div WordMod) + (x % WordMod)
  BY Modulus, SMTT(30)
<1>2. x - (x % WordMod) = (x \div WordMod) * WordMod
  BY <1>1, Modulus, WordType, SMTT(30) DEF Word
<1>. QED BY <1>1, <1>2 DEF Wraps

LEMMA WrapsSum ==
    ASSUME NEW x \in Int, NEW y \in Int, Wraps(x), Wraps(y)
    PROVE  Wraps(x + y) /\ Wraps(x - y)
<1>1. PICK a \in Int : x = a * WordMod
  BY DEF Wraps
<1>2. PICK b \in Int : y = b * WordMod
  BY DEF Wraps
<1>3. x + y = (a + b) * WordMod /\ x - y = (a - b) * WordMod
  BY <1>1, <1>2, Modulus, SMTT(30)
<1>. QED BY <1>3 DEF Wraps

LEMMA WrapsTimes ==
    ASSUME NEW x \in Int, NEW k \in Int, Wraps(x)
    PROVE  Wraps(k * x)
<1>1. PICK a \in Int : x = a * WordMod
  BY DEF Wraps
<1>2. k * x = (k * a) * WordMod /\ k * a \in Int
  BY <1>1, Modulus, SMTT(30)
<1>. QED BY <1>2 DEF Wraps

LEMMA WrapsIsZero ==
    ASSUME NEW x \in Int, Wraps(x)
    PROVE  x % WordMod = 0
<1>1. PICK q \in Int : x = q * WordMod
  BY DEF Wraps
<1>2. PICK d \in Int : x - (x % WordMod) = d * WordMod
  BY WrapsDifference DEF Wraps
<1>3. x % WordMod \in 0 .. WordMod - 1
  BY WordType DEF Word
<1>4. x % WordMod = (q - d) * WordMod
  BY <1>1, <1>2, <1>3, Modulus, SMTT(30)
<1>5. \A e \in Int : e * WordMod \in 0 .. WordMod - 1 => e = 0
  <2>1. ASSUME NEW e \in Int, e >= 1 PROVE e * WordMod >= WordMod
    BY <2>1, Modulus, SMTT(30)
  <2>2. ASSUME NEW e \in Int, e <= -1 PROVE e * WordMod < 0
    BY <2>2, Modulus, SMTT(30)
  <2>3. \A e \in Int : e * WordMod \in Int
    BY Modulus
  <2>. QED BY <2>1, <2>2, <2>3, Modulus
<1>6. q - d = 0
  BY <1>3, <1>4, <1>5
<1>. QED BY <1>4, <1>6, Modulus

-----------------------------------------------------------------------------
(* What the counters say is missing, and what update() is about to write.   *)

Balance == kept + counters.overflow - FramePcm * counters.decoded
Owed(u) == IF updater[u].pc = "rate" THEN 0 ELSE updater[u].frames

AccountInv ==
    /\ \A u \in Updaters : updater[u].pc = "write" => updater[u].frames <= Free
    /\ \A u \in Updaters : updater[u].pc \in Inside => Wraps(Balance + Owed(u))
    /\ (\A u \in Updaters : updater[u].pc \notin Inside) => Wraps(Balance)

LEMMA CountsType ==
    ASSUME TypeOK
    PROVE  /\ kept \in Int /\ counters.overflow \in Int /\ counters.decoded \in Int
           /\ FramePcm \in Int /\ FramePcm * counters.decoded \in Int /\ Balance \in Int
<1>1. kept \in Int /\ counters.overflow \in Int /\ counters.decoded \in Int /\ FramePcm \in Int
  BY SizeFacts, Modulus DEF TypeOK, Counts, Word
<1>2. FramePcm * counters.decoded \in Int
  BY <1>1
<1>. QED BY <1>1, <1>2 DEF Balance

(* No other task is inside update() beside u.                               *)
LEMMA AccountOutside ==
    ASSUME NEW u \in Updaters, updater'[u].pc \notin Inside, Wraps(Balance'),
           \A v \in Updaters \ {u} : updater'[v].pc = "idle"
    PROVE  AccountInv'
<1>1. \A v \in Updaters : updater'[v].pc \notin Inside
  BY DEF Inside
<1>. QED BY <1>1 DEF AccountInv, Inside, Wraps

LEMMA AccountInside ==
    ASSUME NEW u \in Updaters, updater'[u].pc \in Inside, Wraps(Balance' + Owed(u)'),
           updater'[u].pc = "write" => updater'[u].frames <= Free',
           \A v \in Updaters \ {u} : updater'[v].pc = "idle"
    PROVE  AccountInv'
BY DEF AccountInv, Inside, Wraps, Owed

LEMMA AccountRest ==
    ASSUME \A u \in Updaters : updater'[u].pc = "idle", Wraps(Balance')
    PROVE  AccountInv'
BY DEF AccountInv, Inside, Wraps

LEMMA AccountKept ==
    ASSUME AccountInv, UNCHANGED <<updater, kept, pcm, config>>,
           counters'.overflow = counters.overflow, counters'.decoded = counters.decoded
    PROVE  AccountInv'
<1>1. Balance' = Balance /\ Free' = Free
  BY DEF Balance, Free
<1>. QED BY <1>1 DEF AccountInv, Wraps, Owed

LEMMA RestIsBalanced ==
    ASSUME AccountInv, \A u \in Updaters : updater[u].pc = "idle"
    PROVE  Wraps(Balance)
BY DEF AccountInv, Inside

LEMMA ZeroBalance ==
    ASSUME counters' = ZeroCounters, kept' = 0
    PROVE  Wraps(Balance')
<1>1. FramePcm * 0 = 0
  BY SizeFacts
<1>2. Balance' = 0
  BY <1>1 DEF Balance, ZeroCounters
<1>. QED BY <1>2, WrapsZero

LEMMA AccountInit == Init => AccountInv
<1> SUFFICES ASSUME Init PROVE AccountInv
  OBVIOUS
<1>1. FramePcm * 0 = 0
  BY SizeFacts
<1>2. Balance = 0
  BY <1>1 DEF Init, Balance, ZeroCounters
<1>3. \A u \in Updaters : updater[u].pc = "idle"
  BY DEF Init, Idle
<1>. QED BY <1>2, <1>3, WrapsZero DEF AccountInv, Inside

LEMMA AccountControl ==
    ASSUME SingleTask, TypeOK, LoopInv, AccountInv, Lifetime \/ Control
    PROVE  AccountInv'
<1>1. CASE SetCodecRefused
  BY <1>1, AccountKept DEF SetCodecRefused, ring, setup, calls, account
<1>2. CASE ResetCounters \/ Lifetime
  <2>1. (\A u \in Updaters : updater[u].pc = "idle") /\ UNCHANGED updater
    BY <1>2, AloneIsIdle
       DEF Lifetime, End, Begin, BeginRejected, BeginFails, BeginSucceeds, ResetCounters, calls
  <2>2. (counters' = ZeroCounters /\ kept' = 0) \/ UNCHANGED <<counters, kept>>
    BY <1>2
       DEF Lifetime, End, Begin, BeginRejected, BeginFails, BeginSucceeds, ResetCounters, account
  <2>3. Wraps(Balance')
    BY <2>1, <2>2, ZeroBalance, RestIsBalanced DEF Balance
  <2>. QED BY <2>1, <2>3, AccountRest
<1>3. CASE Reset \/ ResetSteps \/ \E f \in Negotiations : SetCodecConfig(f)
  <2>1. \A u \in Updaters : updater[u].pc = "idle"
    BY <1>3, Apart DEF SingleTask, Reset, ResetSteps, ResetQueue, ResetPcm, ResetDecoder,
       SetCodecConfig, LoopInv
  <2>2. UNCHANGED <<updater, counters, kept>>
    BY <1>3 DEF Reset, ResetSteps, ResetQueue, ResetPcm, ResetDecoder, SetCodecConfig, account
  <2>3. Wraps(Balance')
    BY <2>1, <2>2, RestIsBalanced DEF Balance
  <2>. QED BY <2>1, <2>2, <2>3, AccountRest
<1>. QED BY <1>1, <1>2, <1>3 DEF Control

LEMMA AccountProducer ==
    ASSUME TypeOK, AccountInv, Producer
    PROVE  AccountInv'
<1>1. CASE PushRefused
  BY <1>1, AccountKept DEF PushRefused, ring, setup, calls, account
<1>2. ASSUME NEW kind \in Kinds, NEW t \in Timestamps, PushEncoded(kind, t)
      PROVE  AccountInv'
  <2>1. counters'.overflow = counters.overflow /\ counters'.decoded = counters.decoded
    BY <1>2 DEF PushEncoded, TypeOK, Counts
  <2>2. UNCHANGED <<updater, kept, pcm, config>>
    BY <1>2 DEF PushEncoded, setup, calls
  <2>. QED BY <2>1, <2>2, AccountKept
<1>. QED BY <1>1, <1>2 DEF Producer

LEMMA AccountRead ==
    ASSUME RoomInv, AccountInv, Read
    PROVE  AccountInv'
<1>1. CASE ReadBegin
  BY <1>1, AccountKept DEF ReadBegin, ring, setup, account
<1>2. ASSUME NEW n \in ReadSizes, ReadEnd(n) PROVE AccountInv'
  <2>1. (\A u \in Updaters : updater[u].pc = "idle") /\ UNCHANGED <<updater, kept, counters>>
    BY <1>2 DEF ReadEnd, RoomInv, account
  <2>2. Wraps(Balance')
    BY <2>1, RestIsBalanced DEF Balance
  <2>. QED BY <2>1, <2>2, AccountRest
<1>. QED BY <1>1, <1>2 DEF Read

(* Outside a frame nothing is owed.                                         *)
LEMMA AccountFetch ==
    ASSUME TypeOK, OneUpdater, AccountInv, NEW u \in Updaters,
           \/ UpdateBegin(u) \/ CheckFormat(u) \/ PopPacket(u) \/ UpdateEnds(u)
           \/ PacketEnds(u) \/ PacketCut(u) \/ SkipByte(u) \/ AdoptRate(u)
    PROVE  AccountInv'
<1>1. /\ \A v \in Updaters \ {u} : updater'[v] = updater[v]
      /\ updater[u].pc # "idle" \/ UpdateBegin(u)
      /\ UNCHANGED kept
  BY DEF UpdateBegin, CheckFormat, PopPacket, UpdateEnds, PacketEnds, PacketCut, SkipByte,
     AdoptRate, Goto, Leave, NextItem, account, TypeOK
<1>2. \A v \in Updaters \ {u} : updater[v].pc = "idle"
  BY <1>1 DEF OneUpdater, UpdateBegin, GuardFree
<1>3. counters'.overflow = counters.overflow /\ counters'.decoded = counters.decoded
  BY DEF UpdateBegin, CheckFormat, PopPacket, UpdateEnds, PacketEnds, PacketCut, SkipByte,
     AdoptRate, Bump, account, TypeOK, Counts
<1>4. Wraps(Balance)
  <2>1. CASE updater[u].pc = "rate"
    BY <2>1, CountsType DEF AccountInv, Owed, Inside
  <2>2. CASE updater[u].pc # "rate"
    <3>1. updater[u].pc \in {"idle", "format", "pop", "decode"}
      BY <2>2 DEF UpdateBegin, CheckFormat, PopPacket, UpdateEnds, PacketEnds, PacketCut, SkipByte,
         AdoptRate
    <3>. QED BY <1>2, <3>1 DEF AccountInv, Inside
  <2>. QED BY <2>1, <2>2
<1>5. Wraps(Balance')
  BY <1>1, <1>3, <1>4 DEF Balance
<1>6. updater'[u].pc \notin Inside
  <2>1. CASE Leave(u)
    BY <2>1 DEF Leave, Idle, TypeOK, Inside
  <2>2. CASE NextItem(u)
    BY <2>2 DEF NextItem, Idle, TypeOK, Inside
  <2>3. CASE PacketEnds(u) \/ PacketCut(u)
    BY <2>3 DEF PacketEnds, PacketCut, Idle, TypeOK, Inside
  <2>4. CASE UpdateBegin(u) \/ PopPacket(u) \/ (updater[u].pc = "format" /\ Goto(u, "pop"))
    <3>1. updater[u] \in Fetching
      BY <2>4, FetchingType DEF UpdateBegin, PopPacket, Outside
    <3>2. CASE PopPacket(u)
      BY <3>1, <3>2 DEF PopPacket, TypeOK, Fetching, Inside
    <3>3. CASE Goto(u, "pop") \/ Goto(u, "format")
      BY <3>1, <3>3 DEF Goto, TypeOK, Fetching, Inside
    <3>. QED BY <2>4, <3>2, <3>3 DEF UpdateBegin
  <2>5. CheckFormat(u) => Leave(u) \/ (updater[u].pc = "format" /\ Goto(u, "pop"))
    BY DEF CheckFormat
  <2>6. (UpdateEnds(u) => Leave(u)) /\ (SkipByte(u) \/ AdoptRate(u) => NextItem(u))
    BY DEF UpdateEnds, SkipByte, AdoptRate
  <2>. QED BY <2>1, <2>2, <2>3, <2>4, <2>5, <2>6
<1>. QED BY <1>1, <1>2, <1>5, <1>6, AccountOutside

(* A decoded frame is counted, and owed to the ring.                        *)
LEMMA AccountDecodeFrame ==
    ASSUME TypeOK, OneUpdater, AccountInv, NEW u \in Updaters, DecodeFrame(u)
    PROVE  AccountInv'
<1>1. updater[u].pc = "decode" /\ updater[u] \in UpdaterState
  BY PlaceType DEF DecodeFrame
<1>2. /\ updater'[u].pc = "room" /\ updater'[u].frames = FramePcm
      /\ \A v \in Updaters \ {u} : updater'[v] = updater[v] /\ updater[v].pc = "idle"
  BY <1>1 DEF DecodeFrame, TypeOK, UpdaterState, OneUpdater
<1>3. /\ counters'.overflow = counters.overflow /\ UNCHANGED kept
      /\ counters'.decoded = (counters.decoded + 1) % WordMod
  BY DEF DecodeFrame, Bump, TypeOK, Counts
<1>4. Wraps(Balance)
  BY <1>1, <1>2 DEF AccountInv, Inside
<1> DEFINE lap == (counters.decoded + 1) - ((counters.decoded + 1) % WordMod)
<1>5. lap \in Int /\ Wraps(FramePcm * lap) /\ FramePcm * lap \in Int
  <2>1. counters.decoded + 1 \in Int /\ (counters.decoded + 1) % WordMod \in Int
    BY CountsType, WordType, Modulus DEF Word
  <2>2. Wraps(lap) /\ lap \in Int
    BY <2>1, WrapsDifference
  <2> HIDE DEF lap
  <2>3. FramePcm \in Int
    BY CountsType
  <2>4. FramePcm * lap \in Int
    BY <2>2, <2>3
  <2>. QED BY <2>2, <2>3, <2>4, WrapsTimes
<1>6. Balance' + FramePcm = Balance + FramePcm * lap
  <2>1. counters'.decoded = (counters.decoded + 1) - lap
    BY <1>3, CountsType, WordType, Modulus DEF Word
  <2> HIDE DEF lap
  <2>2. FramePcm * ((counters.decoded + 1) - lap) =
           (FramePcm * counters.decoded + FramePcm) - FramePcm * lap
    BY <1>5, CountsType, SMTT(30)
  <2>. QED BY <1>3, <1>5, <2>1, <2>2, CountsType DEF Balance
<1>7. Wraps(Balance' + Owed(u)')
  <2> HIDE DEF lap
  <2>1. Wraps(Balance + FramePcm * lap)
    BY <1>4, <1>5, CountsType, WrapsSum
  <2>. QED BY <1>2, <1>6, <2>1 DEF Owed
<1>. QED BY <1>2, <1>7, AccountInside DEF Inside

(* Frames that are given up are counted.                                    *)
LEMMA AccountOverflow ==
    ASSUME TypeOK, NEW n \in Int,
           counters'.overflow = (counters.overflow + n) % WordMod,
           counters'.decoded = counters.decoded, kept' \in Int,
           NEW a \in Int, NEW b \in Int, Wraps(Balance + a), (kept' - kept) + n + b = a
    PROVE  Wraps(Balance' + b)
<1> DEFINE lap == (counters.overflow + n) - ((counters.overflow + n) % WordMod)
<1>1. counters.overflow + n \in Int /\ (counters.overflow + n) % WordMod \in Int
  <2>1. counters.overflow + n \in Int
    BY CountsType
  <2>2. (counters.overflow + n) % WordMod \in Word
    BY <2>1, WordType
  <2>. QED BY <2>1, <2>2, Modulus DEF Word
<1>2. Wraps(lap) /\ lap \in Int
  BY <1>1, WrapsDifference
<1>3. counters'.overflow = (counters.overflow + n) - lap
  BY <1>1, CountsType
<1> HIDE DEF lap
<1>4. Balance' + b = (Balance + a) - lap
  BY <1>2, <1>3, CountsType DEF Balance
<1>. QED BY <1>2, <1>4, CountsType, WrapsSum

LEMMA AccountWrite ==
    ASSUME WideRings, TypeOK, TypeOK', OneUpdater, LayoutInv, LoopInv, RoomInv, AccountInv,
           NEW u \in Updaters,
           \/ CheckRoom(u) \/ MeasureOldest(u) \/ DropChunk(u) \/ DropDone(u)
           \/ KeepRoom(u) \/ WritePcm(u)
    PROVE  AccountInv'
<1>1. /\ updater[u].pc \in Inside \ {"rate"} /\ UNCHANGED config
      /\ \A v \in Updaters \ {u} : updater'[v] = updater[v]
  BY WriteFrame
<1>2. \A v \in Updaters \ {u} : updater'[v].pc = "idle"
  BY <1>1 DEF OneUpdater, Inside
<1>3. /\ updater[u] \in Handling /\ updater[u].frames \in Nat /\ updater[u].needed \in Nat
      /\ updater[u].lost \in Int
  BY <1>1, HandlingType DEF Handling
<1>4. Wraps(Balance + updater[u].frames) /\ Balance \in Int
  BY <1>1, CountsType DEF AccountInv, Owed
<1>5. /\ Free = config.pcmFrames - Len(pcm.frames) /\ Free \in Nat
      /\ Len(pcm.frames) \in Nat /\ config.pcmFrames \in Nat /\ config.pcmFrames >= FramePcm
  BY <1>1, RingIsThere DEF WideRings, TypeOK
<1>6. CASE CheckRoom(u) \/ MeasureOldest(u) \/ DropDone(u)
  <2>1. UNCHANGED <<pcm, counters, kept>>
    BY <1>6 DEF CheckRoom, MeasureOldest, DropDone, ring, account
  <2>2. Free' = Free /\ Balance' = Balance
    BY <1>1, <2>1 DEF Free, Balance
  <2>3. updater'[u].pc \in Inside \ {"rate"} /\ updater'[u].frames = updater[u].frames
    <3>1. CASE CheckRoom(u)
      <4>1. config.policy \in {"DropOldest", "DropNewest"}
        BY InputsAssumption DEF TypeOK
      <4>. QED BY <1>3, <3>1, <4>1 DEF CheckRoom, Goto, TypeOK, Handling, Inside
    <3>2. CASE MeasureOldest(u)
      BY <1>3, <3>2 DEF MeasureOldest, TypeOK, Handling, Inside
    <3>3. CASE DropDone(u)
      BY <1>3, <3>3 DEF DropDone, Goto, TypeOK, Handling, Inside
    <3>. QED BY <1>6, <3>1, <3>2, <3>3
  <2>4. updater'[u].pc = "write" => updater[u].frames <= Free
    <3>1. CASE CheckRoom(u)
      <4>1. config.policy \in {"DropOldest", "DropNewest"}
        BY InputsAssumption DEF TypeOK
      <4>. QED BY <1>3, <1>5, <3>1, <4>1 DEF CheckRoom, Goto, TypeOK, Handling
    <3>2. CASE MeasureOldest(u)
      BY <1>3, <3>2 DEF MeasureOldest, TypeOK, Handling
    <3>3. CASE DropDone(u)
      <4>1. updater[u].frames = FramePcm /\ Free + updater[u].needed = FramePcm
        BY <3>3 DEF DropDone, RoomInv, Fits
      <4>2. updater[u].needed = 0 \/ Len(pcm.frames) = 0
        BY <1>3, <1>5, <3>3, SizeFacts DEF DropDone, Droppable, Least
      <4>. QED BY <1>3, <1>5, <4>1, <4>2, SizeFacts
    <3>. QED BY <1>6, <3>1, <3>2, <3>3
  <2>5. Wraps(Balance' + Owed(u)')
    BY <1>4, <2>2, <2>3 DEF Owed
  <2>. QED BY <1>2, <2>2, <2>3, <2>4, <2>5, AccountInside
<1>7. CASE DropChunk(u)
  <2>1. Droppable(u) \in Int
    BY <1>3, <1>5, SizeFacts DEF Droppable, Least
  <2>2. /\ counters'.overflow = (counters.overflow + Droppable(u)) % WordMod
        /\ counters'.decoded = counters.decoded /\ kept' = kept - Droppable(u)
    BY <1>7 DEF DropChunk, Bump, TypeOK, Counts
  <2>3. updater'[u].pc = "drop" /\ updater'[u].frames = updater[u].frames
    BY <1>3, <1>7 DEF DropChunk, TypeOK, Handling
  <2>4. kept' \in Int /\ (kept' - kept) + Droppable(u) + updater[u].frames = updater[u].frames
    BY <1>3, <2>1, <2>2, CountsType
  <2>5. Wraps(Balance' + updater[u].frames)
    BY <1>3, <1>4, <2>1, <2>2, <2>4, AccountOverflow
  <2>6. Wraps(Balance' + Owed(u)')
    BY <2>3, <2>5 DEF Owed
  <2>. QED BY <1>2, <2>3, <2>6, AccountInside DEF Inside
<1>8. CASE KeepRoom(u)
  <2>1. /\ counters'.overflow = (counters.overflow + (updater[u].frames - Free)) % WordMod
        /\ counters'.decoded = counters.decoded /\ kept' = kept
        /\ UNCHANGED pcm
    BY <1>8 DEF KeepRoom, Bump, TypeOK, Counts, ring
  <2>2. /\ updater'[u].pc = (IF Free = 0 THEN "rate" ELSE "write")
        /\ updater'[u].frames = Free
    BY <1>3, <1>8 DEF KeepRoom, TypeOK, Handling
  <2>3. /\ updater[u].frames - Free \in Int /\ Free \in Int /\ updater[u].frames \in Int
        /\ kept' \in Int /\ (kept' - kept) + (updater[u].frames - Free) + Free = updater[u].frames
    <3>1. kept \in Int /\ kept' = kept /\ Free \in Nat /\ updater[u].frames \in Nat
      BY <1>3, <1>5, <2>1, CountsType
    <3> DEFINE room == Free
               frames == updater[u].frames
    <3>2. room \in Nat /\ frames \in Nat
      BY <3>1
    <3> HIDE DEF room, frames
    <3>3. (kept' - kept) + (frames - room) + room = frames
      BY <3>1, <3>2
    <3>. QED BY <3>1, <3>2, <3>3 DEF room, frames
  <2>4. Wraps(Balance' + Free)
    BY <1>4, <2>1, <2>3, AccountOverflow
  <2>5. Free' = Free
    BY <1>1, <2>1 DEF Free
  <2>6. Wraps(Balance' + Owed(u)')
    BY <2>2, <2>4 DEF Owed
  <2>. QED BY <1>2, <1>5, <2>2, <2>5, <2>6, AccountInside DEF Inside
<1>9. CASE WritePcm(u)
  <2>1. updater[u].pc = "write" /\ updater[u].frames <= Free
    BY <1>9 DEF WritePcm, AccountInv
  <2>2. Writable(u) = updater[u].frames
    BY <2>1 DEF Writable, Least
  <2>3. Balance' = Balance + updater[u].frames
    <3>1. UNCHANGED counters /\ kept' = kept + updater[u].frames
      BY <1>9, <2>2 DEF WritePcm
    <3>. QED BY <1>3, <3>1, CountsType DEF Balance
  <2>4. updater'[u].pc = "rate"
    BY <1>3, <1>9 DEF WritePcm, Goto, TypeOK, Handling
  <2>5. Balance' + Owed(u)' = Balance + updater[u].frames
    BY <1>3, <1>4, <2>3, <2>4 DEF Owed
  <2>. QED BY <1>2, <1>4, <2>4, <2>5, AccountInside DEF Inside
<1>. QED BY <1>6, <1>7, <1>8, <1>9

LEMMA AccountNext ==
    ASSUME SingleTask, WideRings, TypeOK, TypeOK', OneUpdater, LayoutInv, LoopInv, RoomInv,
           AccountInv, [Next]_vars
    PROVE  AccountInv'
<1>1. CASE UNCHANGED vars
  BY <1>1, AccountKept DEF vars, ring, setup, calls, account
<1>2. ASSUME NEW u \in Updaters, Update(u) PROVE AccountInv'
  <2>1. CASE UpdateRefused(u)
    BY <2>1, AccountKept DEF UpdateRefused, ring, setup, calls, account
  <2>. QED BY <1>2, <2>1, AccountFetch, AccountDecodeFrame, AccountWrite
           DEF Update, UpdateRuns, Decode, Write
<1>. QED BY <1>1, <1>2, AccountControl, AccountProducer, AccountRead DEF Next

(* Every PCM frame that was decoded went into the ring or is counted in     *)
(* pcmOverflowFrameCount() (A2dpSinkStream.cpp:231-267), under both         *)
(* policies and however often the counters wrap.                            *)
THEOREM EveryFrameIsAccounted ==
    ASSUME SingleTask, WideRings
    PROVE  Spec => []FramesAccounted
<1>1. TypeOK /\ AccountInv => FramesAccounted
  <2>1. ASSUME TypeOK, AccountInv,
               \A u \in Updaters : updater[u].pc \in {"idle", "format", "pop", "decode"}
        PROVE  Balance % WordMod = 0
    <3>1. Wraps(Balance)
      BY <2>1 DEF AccountInv, Inside
    <3>. QED BY <2>1, <3>1, CountsType, WrapsIsZero
  <2>. QED BY <2>1 DEF FramesAccounted, Balance
<1>2. /\ TypeOK /\ TypeOK' /\ OneUpdater /\ LayoutInv /\ LoopInv /\ RoomInv
      /\ AccountInv /\ [Next]_vars
      => AccountInv'
  BY AccountNext
<1>3. Spec => [](TypeOK /\ OneUpdater /\ LayoutInv /\ LoopInv)
  BY LoopHolds DEF SingleTask
<1>. QED BY <1>1, <1>2, <1>3, RoomHolds, AccountInit, PTL DEF Spec
=============================================================================
