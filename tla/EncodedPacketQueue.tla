------------------------- MODULE EncodedPacketQueue -------------------------
(***************************************************************************)
(* src/EncodedPacketQueue.{h,cpp}: a single-producer single-consumer byte  *)
(* ring of length-prefixed records.  The producer is the Bluetooth media   *)
(* callback, the consumer is update(), and clear() is called by whoever    *)
(* resets the stream.  One action is one access to a shared variable: a    *)
(* load of the other side's counter together with the test that uses it, a *)
(* memcpy into or out of the ring, the store of a counter.                 *)
(*                                                                         *)
(* A byte of the ring is modelled by where it came from: byte `at' of the  *)
(* record of packet `pkt'.  Counters are size_t: they wrap at SizeMod.     *)
(***************************************************************************)
EXTENDS Integers, Sequences

CONSTANTS
    Packets,         \* the packets a Source may deliver
    LengthOf,        \* their payload lengths in bytes
    Capacities,      \* the sizes begin() may be asked for
    HeaderBytes,     \* kHeaderBytes
    MaxPacketBytes,  \* maxPacketBytes(): what a uint16_t length can say
    OutCapacity,     \* the size of the buffer update() gives to pop()
    SizeMod,         \* the number of values of a size_t
    ClearDuringPush, \* may clear() run while the producer is inside push()?
    ClearDuringPop   \* may clear() run while the consumer is inside pop()?

NoPacket == "none"        \* not a packet: the byte was never written
Garbage  == "garbage"     \* what bytes of different records read as

ASSUME PacketsAssumption ==
    /\ LengthOf \in [Packets -> Nat]
    /\ NoPacket \notin Packets /\ Garbage \notin Packets
ASSUME SizesAssumption ==
    /\ HeaderBytes \in Nat \ {0}
    /\ MaxPacketBytes \in Nat
    /\ OutCapacity \in Nat
    /\ Capacities \subseteq Nat
    /\ SizeMod \in Nat \ {0}
    /\ \A c \in Capacities : c < SizeMod
    /\ HeaderBytes + MaxPacketBytes < SizeMod
ASSUME SwitchesAssumption ==
    ClearDuringPush \in BOOLEAN /\ ClearDuringPop \in BOOLEAN

VARIABLES
    capacity,   \* capacity_; 0 stands for buffer_ == nullptr
    buffer,     \* the bytes of buffer_
    writePos,   \* writePos_, stored by the producer only
    readPos,    \* readPos_, stored by the consumer and by clear()
    packets,    \* packets_, the packet count both sides update
    producer,   \* [pc, pkt]: where push() is, and the packet it copies
    consumer,   \* [pc, op, pkt, length, read, out]: pop() or drop()
    clearer,    \* [pc, write]: clear()
    records,    \* history: [start, pkt] of each record stored, oldest first
    doomed,     \* history: how many of them the running clear() will discard
    delivered,  \* history: what the last completed pop() copied out
    overlapped  \* history: the latest clear() ran while push() was in progress

ringVars == <<capacity, buffer, writePos, readPos, packets>>
history  == <<records, doomed, delivered, overlapped>>
vars     == <<ringVars, producer, consumer, clearer, history>>

-----------------------------------------------------------------------------
(* size_t arithmetic. *)

PlusUnwrapped(pos, n) == pos + n
Plus(pos, n)    == IF pos + n < SizeMod THEN pos + n ELSE pos + n - SizeMod
Minus(to, from) == IF to >= from THEN to - from ELSE to - from + SizeMod

RecordBytes(p) == HeaderBytes + LengthOf[p]

UsedBytes == Minus(writePos, readPos)

(* push() may ever store this packet: not empty, and its length can be said. *)
Acceptable(p) == LengthOf[p] # 0 /\ LengthOf[p] <= MaxPacketBytes

(* The whole packet or nothing; the subtraction is unsigned too. *)
FitsWithoutHeader(p) == LengthOf[p] <= Minus(capacity, UsedBytes)
FitsEmptyRing(p)     == RecordBytes(p) <= capacity
FitsStrictly(p)      == RecordBytes(p) < Minus(capacity, UsedBytes)
Fits(p) == RecordBytes(p) <= Minus(capacity, UsedBytes)

-----------------------------------------------------------------------------
(* The ring.  A chunk starts at offset % capacity and continues at byte 0   *)
(* of the buffer when it reaches the end.                                   *)

Index(offset) == offset % capacity

CellAt(offset, i) ==
    IF Index(offset) + i < capacity
    THEN Index(offset) + i
    ELSE Index(offset) + i - capacity

(* How far cell k lies ahead of the cell of `offset', going round. *)
Ahead(offset, k) ==
    IF k >= Index(offset)
    THEN k - Index(offset)
    ELSE k - Index(offset) + capacity

Byte(p, i) == [pkt |-> p, at |-> i]

(* writeAt(): bytes first .. first + length - 1 of p's record, at offset. *)
WriteAt(offset, p, first, length) ==
    [k \in DOMAIN buffer |->
        IF Ahead(offset, k) < length
        THEN Byte(p, first + Ahead(offset, k))
        ELSE buffer[k]]

(* readAt(): whether the bytes there are those of p's record. *)
ReadsAs(offset, p, first, length) ==
    \A i \in 0 .. length - 1 : buffer[CellAt(offset, i)] = Byte(p, first + i)

Blank(n) == [k \in 0 .. n - 1 |-> Byte(NoPacket, 0)]

-----------------------------------------------------------------------------

Idle == [producer |-> [pc |-> "idle", pkt |-> NoPacket],
         consumer |-> [pc |-> "idle", op |-> "none", pkt |-> NoPacket,
                       length |-> 0, read |-> 0, out |-> NoPacket],
         clearer  |-> [pc |-> "idle", write |-> 0]]

AllIdle == producer.pc = "idle" /\ consumer.pc = "idle" /\ clearer.pc = "idle"

Init ==
    /\ capacity = 0 /\ buffer = Blank(0)
    /\ writePos = 0 /\ readPos = 0 /\ packets = 0
    /\ producer = Idle.producer
    /\ consumer = Idle.consumer
    /\ clearer = Idle.clearer
    /\ records = <<>> /\ doomed = 0 /\ delivered = NoPacket /\ overlapped = FALSE

(* begin() frees the old storage; it fails, leaving none, on a capacity     *)
(* that cannot hold one byte of payload, and when malloc() does.            *)
SetStorage(n) ==
    /\ AllIdle
    /\ capacity' = n /\ buffer' = Blank(n)
    /\ writePos' = 0 /\ readPos' = 0 /\ packets' = 0
    /\ records' = <<>> /\ doomed' = 0 /\ overlapped' = FALSE
    /\ UNCHANGED <<delivered, producer, consumer, clearer>>

End == SetStorage(0)

Begin(n) == SetStorage(IF n > HeaderBytes THEN n ELSE 0)

-----------------------------------------------------------------------------
(* push(): producer side. *)

(* Lines 82-88: the early returns leave everything as it was; otherwise the *)
(* producer goes on with the packet.  readPos is read here and never again. *)
PushAdmit(p) ==
    /\ producer.pc = "idle"
    /\ ~ClearDuringPush => clearer.pc = "idle"
    /\ capacity # 0 /\ Acceptable(p) /\ Fits(p)
    /\ producer' = [pc |-> "header", pkt |-> p]
    /\ overlapped' = (overlapped \/ clearer.pc # "idle")
    /\ UNCHANGED <<ringVars, consumer, clearer, records, doomed, delivered>>

PushHeader ==
    /\ producer.pc = "header"
    /\ buffer' = WriteAt(writePos, producer.pkt, 0, HeaderBytes)
    /\ producer' = [producer EXCEPT !.pc = "payload"]
    /\ UNCHANGED <<capacity, writePos, readPos, packets, consumer, clearer, history>>

PushPayload ==
    /\ producer.pc = "payload"
    /\ buffer' = WriteAt(Plus(writePos, HeaderBytes), producer.pkt,
                         HeaderBytes, LengthOf[producer.pkt])
    /\ producer' = [producer EXCEPT !.pc = "publish"]
    /\ UNCHANGED <<capacity, writePos, readPos, packets, consumer, clearer, history>>

PushPublish ==
    /\ producer.pc = "publish"
    /\ writePos' = Plus(writePos, RecordBytes(producer.pkt))
    /\ records' = Append(records, [start |-> writePos, pkt |-> producer.pkt])
    /\ producer' = [producer EXCEPT !.pc = "count"]
    /\ UNCHANGED <<capacity, buffer, readPos, packets, consumer, clearer>>
    /\ UNCHANGED <<doomed, delivered, overlapped>>

PushCount ==
    /\ producer.pc = "count"
    /\ packets' = Plus(packets, 1)
    /\ producer' = Idle.producer
    /\ UNCHANGED <<capacity, buffer, writePos, readPos, consumer, clearer, history>>

-----------------------------------------------------------------------------
(* peek(), pop() and drop(): consumer side. *)

NonEmpty == UsedBytes >= HeaderBytes

(* What the header bytes at readPos say: a packet's header, or a length     *)
(* made of bytes of different records.                                      *)
HeaderSays(p, length) ==
    \/ p \in Packets /\ ReadsAs(readPos, p, 0, HeaderBytes) /\ length = LengthOf[p]
    \/ /\ p = Garbage
       /\ \A q \in Packets : ~ReadsAs(readPos, q, 0, HeaderBytes)
       /\ length \in 0 .. MaxPacketBytes

(* Line 125. *)
OutHoldsLess(length) == length < OutCapacity
OutHolds(length)     == length <= OutCapacity

(* Lines 124 and 138.  pop() leaves a packet too long for `out' in place.   *)
ConsumerPeek(op) ==
    /\ consumer.pc = "idle"
    /\ ~ClearDuringPop => clearer.pc = "idle"
    /\ capacity # 0 /\ NonEmpty
    /\ \E p \in Packets \cup {Garbage}, length \in 0 .. MaxPacketBytes :
          /\ HeaderSays(p, length)
          /\ op = "pop" => OutHolds(length)
          /\ consumer' = [Idle.consumer EXCEPT
                            !.pc = "payload", !.op = op, !.pkt = p, !.length = length,
                            !.read = readPos]
    /\ UNCHANGED <<ringVars, producer, clearer, history>>

PopPayloadAtHeader ==
    /\ consumer.pc = "payload" /\ consumer.op = "pop"
    /\ consumer' = [consumer EXCEPT
            !.pc = "advance",
            !.read = readPos,
            !.out = IF ReadsAs(readPos, consumer.pkt, HeaderBytes, consumer.length)
                    THEN consumer.pkt
                    ELSE Garbage]
    /\ UNCHANGED <<ringVars, producer, clearer, history>>

(* Lines 127-128: readPos is loaded a second time, then the payload copied. *)
PopPayload ==
    /\ consumer.pc = "payload" /\ consumer.op = "pop"
    /\ consumer' = [consumer EXCEPT
            !.pc = "advance",
            !.read = readPos,
            !.out = IF ReadsAs(Plus(readPos, HeaderBytes), consumer.pkt,
                               HeaderBytes, consumer.length)
                    THEN consumer.pkt
                    ELSE Garbage]
    /\ UNCHANGED <<ringVars, producer, clearer, history>>

(* Line 140: drop() loads readPos a second time and copies nothing. *)
DropReload ==
    /\ consumer.pc = "payload" /\ consumer.op = "drop"
    /\ consumer' = [consumer EXCEPT !.pc = "advance", !.read = readPos]
    /\ UNCHANGED <<ringVars, producer, clearer, history>>

(* Lines 130 and 141. *)
AfterPayload(pos, length) == Plus(pos, length)
AfterRecord(pos, length)  == Plus(pos, HeaderBytes + length)

Rest(seq) == IF seq = <<>> THEN <<>> ELSE Tail(seq)

ConsumerAdvance ==
    /\ consumer.pc = "advance"
    /\ readPos' = AfterRecord(consumer.read, consumer.length)
    /\ records' = Rest(records)
    /\ doomed' = IF doomed > 0 THEN doomed - 1 ELSE 0
    /\ delivered' = IF consumer.op = "pop" THEN consumer.out ELSE delivered
    /\ consumer' = [consumer EXCEPT !.pc = "count"]
    /\ UNCHANGED <<capacity, buffer, writePos, packets, producer, clearer, overlapped>>

ConsumerCountPopOnly ==
    /\ consumer.pc = "count"
    /\ packets' = IF consumer.op = "pop" THEN Minus(packets, 1) ELSE packets
    /\ consumer' = Idle.consumer
    /\ UNCHANGED <<capacity, buffer, writePos, readPos, producer, clearer, history>>

ConsumerCount ==
    /\ consumer.pc = "count"
    /\ packets' = Minus(packets, 1)
    /\ consumer' = Idle.consumer
    /\ UNCHANGED <<capacity, buffer, writePos, readPos, producer, clearer, history>>

-----------------------------------------------------------------------------
(* clear(): two stores and a load, nothing that stops either side. *)

ClearLoad ==
    /\ clearer.pc = "idle"
    /\ ~ClearDuringPush => producer.pc = "idle"
    /\ ~ClearDuringPop => consumer.pc = "idle"
    /\ clearer' = [pc |-> "store", write |-> writePos]
    /\ doomed' = Len(records)
    /\ overlapped' = (producer.pc # "idle")
    /\ UNCHANGED <<ringVars, producer, consumer, records, delivered>>

ClearStoreRewinds ==
    /\ clearer.pc = "store"
    /\ readPos' = 0 /\ writePos' = 0
    /\ records' = SubSeq(records, doomed + 1, Len(records))
    /\ doomed' = 0
    /\ clearer' = [clearer EXCEPT !.pc = "zero"]
    /\ UNCHANGED <<capacity, buffer, packets, producer, consumer, delivered, overlapped>>

ClearStore ==
    /\ clearer.pc = "store"
    /\ readPos' = clearer.write
    /\ records' = SubSeq(records, doomed + 1, Len(records))
    /\ doomed' = 0
    /\ clearer' = [clearer EXCEPT !.pc = "zero"]
    /\ UNCHANGED <<capacity, buffer, writePos, packets, producer, consumer>>
    /\ UNCHANGED <<delivered, overlapped>>

ClearZeroForgotten ==
    /\ clearer.pc = "zero"
    /\ clearer' = Idle.clearer
    /\ UNCHANGED <<ringVars, producer, consumer, history>>

ClearZero ==
    /\ clearer.pc = "zero"
    /\ packets' = 0
    /\ clearer' = Idle.clearer
    /\ UNCHANGED <<capacity, buffer, writePos, readPos, producer, consumer, history>>

-----------------------------------------------------------------------------

PushGoesOn == PushHeader \/ PushPayload \/ PushPublish \/ PushCount
Push       == (\E p \in Packets : PushAdmit(p)) \/ PushGoesOn
Pop        == ConsumerPeek("pop") \/ PopPayload
Drop       == ConsumerPeek("drop") \/ DropReload
Remove     == ConsumerAdvance \/ ConsumerCount
Clear      == ClearLoad \/ ClearStore \/ ClearZero

Next == (\E n \in Capacities : Begin(n)) \/ End \/ Push \/ Pop \/ Drop \/ Remove \/ Clear

Spec == Init /\ [][Next]_vars

(* update() is called again and again and pops until the queue is empty,    *)
(* between two clear()s of the same loop too: hence strong fairness, a      *)
(* clear() in progress disables pop() for its duration.  A call that has    *)
(* begun, of push(), drop() or clear(), runs to its end.                    *)
Fairness ==
    /\ SF_vars(Pop) /\ WF_vars(DropReload) /\ WF_vars(Remove)
    /\ WF_vars(PushGoesOn)
    /\ WF_vars(ClearStore \/ ClearZero)

FairSpec == Spec /\ Fairness

-----------------------------------------------------------------------------
(* Properties. *)

Cells == [pkt : Packets \cup {NoPacket}, at : Nat]
Positions == 0 .. SizeMod - 1

(* Type correctness of the ring, of the three calls in progress and of the *)
(* history.                                                                *)
TypeOK ==
    /\ capacity \in Capacities \cup {0}
    /\ buffer \in [0 .. capacity - 1 -> Cells]
    /\ writePos \in Positions /\ readPos \in Positions /\ packets \in Positions
    /\ producer \in [pc : {"idle"}, pkt : {NoPacket}]
                    \cup [pc : {"header", "payload", "publish", "count"},
                          pkt : {p \in Packets : Acceptable(p)}]
    /\ consumer \in [pc : {"idle", "payload", "advance", "count"},
                     op : {"none", "pop", "drop"},
                     pkt : Packets \cup {NoPacket, Garbage},
                     length : 0 .. MaxPacketBytes,
                     read : Positions,
                     out : Packets \cup {NoPacket, Garbage}]
    /\ clearer \in [pc : {"idle", "store", "zero"}, write : Positions]
    /\ records \in Seq([start : Positions, pkt : Packets])
    /\ doomed \in Nat
    /\ delivered \in Packets \cup {NoPacket, Garbage}
    /\ overlapped \in BOOLEAN

RecordIntact(i) ==
    ReadsAs(records[i].start, records[i].pkt, 0, RecordBytes(records[i].pkt))

(* Every record stored can still be read as it was written, however the     *)
(* ring wrapped since and whatever the producer is copying now: push()      *)
(* never writes over a byte that pop() has still to read.                   *)
RecordsIntact == \A i \in 1 .. Len(records) : RecordIntact(i)

-----------------------------------------------------------------------------
(* The inductive invariant: what holds between any two steps as long as     *)
(* clear() keeps out of pop() and the capacity divides SizeMod.             *)

(* Where record i starts; past the last record, where the next one will.    *)
Start(i) == IF i <= Len(records) THEN records[i].start ELSE writePos

(* Bytes from readPos to there. *)
Distance(i) == Minus(Start(i), readPos)

SizeOf(i) == RecordBytes(records[i].pkt)

(* The records fill the ring from readPos to writePos without a gap.        *)
Chained ==
    /\ UsedBytes <= capacity
    /\ Start(1) = readPos
    /\ \A i \in 1 .. Len(records) :
          /\ Acceptable(records[i].pkt)
          /\ Distance(i + 1) = Distance(i) + SizeOf(i)
          /\ \A j \in i + 1 .. Len(records) + 1 : Distance(i) + SizeOf(i) <= Distance(j)

Writing == producer.pc \in {"header", "payload", "publish"}

(* push() has the room it was promised, and what it copied is in place.     *)
ProducerInv ==
    /\ Writing => capacity # 0 /\ UsedBytes + RecordBytes(producer.pkt) <= capacity
    /\ producer.pc \in {"payload", "publish"} =>
          ReadsAs(writePos, producer.pkt, 0, HeaderBytes)
    /\ producer.pc = "publish" =>
          ReadsAs(writePos, producer.pkt, 0, RecordBytes(producer.pkt))

(* pop() and drop() are at the oldest record, and what pop() copied is it.  *)
ConsumerInv ==
    /\ consumer.pc \in {"payload", "advance"} =>
          /\ capacity # 0 /\ records # <<>>
          /\ consumer.op \in {"pop", "drop"}
          /\ consumer.pkt = records[1].pkt
          /\ consumer.length = LengthOf[records[1].pkt]
    /\ consumer.pc = "advance" =>
          /\ consumer.read = readPos
          /\ consumer.op = "pop" => consumer.out = records[1].pkt

(* clear() will catch up to the end of the records that were stored when it *)
(* loaded writePos, and the consumer waits for it.                          *)
ClearInv ==
    /\ IF clearer.pc = "store"
       THEN doomed <= Len(records) /\ clearer.write = Start(doomed + 1)
       ELSE doomed = 0
    /\ clearer.pc # "idle" => consumer.pc = "idle"

RingInvariant ==
    TypeOK /\ Chained /\ RecordsIntact /\ ProducerInv /\ ConsumerInv /\ ClearInv

(* 1 while a call has moved its position and not yet the packet count.      *)
CountDue(side) == IF side.pc = "count" THEN 1 ELSE 0

(* packets_ is the number of records stored, as counted so far, and a       *)
(* clear() in progress has met no push().                                   *)
CountTallies ==
    /\ clearer.pc = "idle" =>
          Plus(packets, CountDue(producer)) = Plus(Len(records), CountDue(consumer))
    /\ clearer.pc # "idle" => producer.pc = "idle"
    /\ clearer.pc = "store" => doomed = Len(records)
    /\ clearer.pc = "zero" => records = <<>>

(* packets_ is the number of records stored, give or take the call of each  *)
(* side that has yet to count: it may read as the largest size_t while      *)
(* pop() is ahead of push() (lines 102, 131 and 142), and is right again    *)
(* when both have counted.  A clear() that meets no push() finds nothing    *)
(* half counted and leaves nothing behind (lines 40-43); one that does may  *)
(* leave the count off, until the next clear() that does not puts it right. *)
CountsEven == ~overlapped => CountTallies

-----------------------------------------------------------------------------

RecordEnd(r) == Plus(r.start, RecordBytes(r.pkt))

(* The records fill the ring from readPos to writePos, each starting where  *)
(* the one before it ends: no gap a peek() could land in, no record that a  *)
(* counter has already passed, and never more bytes than the ring has       *)
(* (push(), pop(), drop() and clear(), lines 85-101, 130, 141 and 40).      *)
RecordsChained ==
    /\ UsedBytes <= capacity
    /\ records = <<>> <=> readPos = writePos
    /\ records # <<>> => /\ records[1].start = readPos
                         /\ RecordEnd(records[Len(records)]) = writePos
    /\ \A i \in 1 .. Len(records) - 1 : records[i + 1].start = RecordEnd(records[i])
    /\ \A i \in 1 .. Len(records) :
          Minus(records[i].start, readPos) + RecordBytes(records[i].pkt) <= UsedBytes

CellsOf(offset, length) == {CellAt(offset, i) : i \in 0 .. length - 1}

(* The two memcpy()s never meet: while push() copies a packet in, the cells *)
(* it writes hold no byte of a stored record, so no cell that pop() may be  *)
(* copying out at the same time (writeAt() and readAt() need no lock).      *)
NoTornAccess ==
    producer.pc \in {"header", "payload", "publish"} =>
        \A i \in 1 .. Len(records) :
            CellsOf(writePos, RecordBytes(producer.pkt))
                \cap CellsOf(records[i].start, RecordBytes(records[i].pkt)) = {}

(* Bytes of the oldest n records, headers included. *)
BytesThrough[n \in 0 .. Len(records)] ==
    IF n = 0 THEN 0 ELSE BytesThrough[n - 1] + SizeOf(n)

StoredBytes == BytesThrough[Len(records)]

(* push() refuses a packet for want of room exactly when the records stored *)
(* leave less than it needs: no byte is lost to an earlier pop(), drop() or *)
(* clear(), and none is given out twice, when the counters wrap too.        *)
RoomIsExact ==
    capacity # 0 /\ clearer.pc = "idle" =>
        \A p \in Packets : Acceptable(p) =>
            (Fits(p) <=> StoredBytes + RecordBytes(p) <= capacity)

(* With nobody inside a call, packetCount() is the number of packets stored *)
(* and isEmpty() says whether pop() would find one, unless the latest       *)
(* clear() ran beside a push(), which line 42 does not provide for.         *)
CountMatchesAtRest == AllIdle /\ ~overlapped => packets = Len(records)

(* What a reset discarded never comes back: once every call has returned,   *)
(* a queue that was emptied is one in which pop() finds nothing ("everything *)
(* currently stored" is discarded, EncodedPacketQueue.cpp:35-39).           *)
ClearedStaysCleared ==
    AllIdle /\ records = <<>> => readPos = writePos

(* The consumer makes way: as long as there are packets, pop() and drop()   *)
(* go on removing them, whatever the producer does and however the ring     *)
(* wraps (a packet that fits `out'; pop(), lines 121-132).                  *)
Drains == []<>(records = <<>> \/ consumer.pc = "count")

(* The queue as the two sides see it: clear() takes effect when it loads    *)
(* writePos, so what the producer adds afterwards survives.                 *)
StoredPackets ==
    [i \in 1 .. Len(records) - doomed |-> records[doomed + i].pkt]

Fifo == INSTANCE PacketFifo WITH fifo <- StoredPackets, output <- delivered

(* The ring implements the first-in first-out queue of whole packets: what  *)
(* pop() hands out is the oldest packet stored, every byte of it.           *)
ImplementsFifo == Fifo!Spec
=============================================================================
