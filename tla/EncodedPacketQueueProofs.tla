---------------------- MODULE EncodedPacketQueueProofs ----------------------
(***************************************************************************)
(* Theorems about EncodedPacketQueue, for every set of packets, capacity   *)
(* and counter width.                                                      *)
(***************************************************************************)
EXTENDS EncodedPacketQueue, SequenceTheorems, WellFoundedInduction, TLAPS

USE DEF NoPacket, Garbage

-----------------------------------------------------------------------------
(* Counter arithmetic. *)

(* A counter advanced by less than its range stays in its range.            *)
LEMMA PlusType ==
    ASSUME NEW pos \in Positions, NEW n \in 0 .. SizeMod
    PROVE  Plus(pos, n) \in Positions
BY SizesAssumption DEF Plus, Positions

(* The distance between two counters is in the range.                       *)
LEMMA MinusType ==
    ASSUME NEW to \in Positions, NEW from \in Positions
    PROVE  Minus(to, from) \in Positions
BY SizesAssumption DEF Minus, Positions

LEMMA RecordBytesType ==
    ASSUME NEW p \in Packets, Acceptable(p)
    PROVE  RecordBytes(p) \in HeaderBytes + 1 .. SizeMod - 1
BY PacketsAssumption, SizesAssumption DEF Acceptable, RecordBytes

-----------------------------------------------------------------------------
(* Type correctness, whatever the capacity and whoever calls clear().       *)

LEMMA IndexType ==
    ASSUME NEW pos \in Nat, capacity \in Nat \ {0}
    PROVE  Index(pos) \in 0 .. capacity - 1
BY SMT DEF Index

LEMMA WriteAtType ==
    ASSUME TypeOK, NEW pos \in Nat, NEW p \in Packets,
           NEW first \in Nat, NEW length \in Nat
    PROVE  WriteAt(pos, p, first, length) \in [0 .. capacity - 1 -> Cells]
<1>1. capacity \in Nat
  BY SizesAssumption DEF TypeOK
<1>2. ASSUME NEW k \in 0 .. capacity - 1 PROVE first + Ahead(pos, k) \in Nat
  <2>1. Index(pos) \in 0 .. capacity - 1
    BY <1>1, IndexType
  <2>. QED BY <2>1, <1>1 DEF Ahead
<1>. QED BY <1>1, <1>2 DEF WriteAt, TypeOK, Cells, Byte

LEMMA TypeInit == Init => TypeOK
<1> SUFFICES ASSUME Init PROVE TypeOK
  OBVIOUS
<1>1. overlapped \in BOOLEAN
  BY Zenon DEF Init
<1>. QED BY <1>1, SizesAssumption, EmptySeq DEF Init, TypeOK, Idle, Blank, Positions, Cells, Byte

LEMMA TypeNext == TypeOK /\ [Next]_vars => TypeOK'
<1> SUFFICES ASSUME TypeOK, [Next]_vars PROVE TypeOK'
  OBVIOUS
<1> USE SizesAssumption, PacketsAssumption
<1>0. capacity \in Nat /\ writePos \in Nat
  BY DEF TypeOK, Positions
<1>1. ASSUME NEW n \in Capacities \cup {0}, SetStorage(n) PROVE TypeOK'
  <2>1. overlapped' \in BOOLEAN
    BY <1>1, Zenon DEF SetStorage
  <2>. QED BY <1>1, <2>1, EmptySeq DEF SetStorage, TypeOK, Blank, Positions, Cells, Byte
<1>2. ASSUME NEW p \in Packets, PushAdmit(p) PROVE TypeOK'
  BY <1>2 DEF PushAdmit, TypeOK, ringVars, history
<1>3. CASE PushHeader
  <2>1. producer.pkt \in Packets /\ producer' \in [pc : {"header", "payload", "publish", "count"},
                          pkt : {p \in Packets : Acceptable(p)}]
    BY <1>3 DEF PushHeader, TypeOK
  <2>2. buffer' \in [0 .. capacity - 1 -> Cells]
    BY <1>3, <1>0, <2>1, WriteAtType DEF PushHeader
  <2>. QED BY <1>3, <2>1, <2>2 DEF PushHeader, TypeOK, history
<1>4. CASE PushPayload
  <2>1. producer.pkt \in Packets /\ producer' \in [pc : {"header", "payload", "publish", "count"},
                          pkt : {p \in Packets : Acceptable(p)}]
    BY <1>4 DEF PushPayload, TypeOK
  <2>2. Plus(writePos, HeaderBytes) \in Nat
    <3>1. HeaderBytes \in 0 .. SizeMod /\ writePos \in Positions
      BY DEF TypeOK
    <3>. QED BY <3>1, PlusType DEF Positions
  <2>3. buffer' \in [0 .. capacity - 1 -> Cells]
    BY <1>4, <2>1, <2>2, WriteAtType DEF PushPayload
  <2>. QED BY <1>4, <2>1, <2>3 DEF PushPayload, TypeOK, history
<1>5. CASE PushPublish
  <2>1. producer.pkt \in Packets /\ Acceptable(producer.pkt)
        /\ producer' \in [pc : {"header", "payload", "publish", "count"},
                          pkt : {p \in Packets : Acceptable(p)}]
    BY <1>5 DEF PushPublish, TypeOK
  <2>2. writePos' \in Positions
    <3>1. RecordBytes(producer.pkt) \in 0 .. SizeMod /\ writePos \in Positions
      BY <2>1, RecordBytesType DEF TypeOK
    <3>. QED BY <1>5, <3>1, PlusType DEF PushPublish
  <2>3. records' \in Seq([start : Positions, pkt : Packets])
    <3>1. [start |-> writePos, pkt |-> producer.pkt] \in [start : Positions, pkt : Packets]
      BY <2>1 DEF TypeOK
    <3>. QED BY <1>5, <3>1, AppendProperties DEF PushPublish, TypeOK
  <2>. QED BY <1>5, <2>1, <2>2, <2>3 DEF PushPublish, TypeOK
<1>6. CASE PushCount
  <2>1. packets' \in Positions
    BY <1>6, PlusType DEF PushCount, TypeOK
  <2>. QED BY <1>6, <2>1 DEF PushCount, TypeOK, Idle, history
<1>7. ASSUME NEW op \in {"pop", "drop"}, ConsumerPeek(op) PROVE TypeOK'
  <2>1. consumer' \in [pc : {"idle", "payload", "advance", "count"},
                        op : {"none", "pop", "drop"},
                        pkt : Packets \cup {NoPacket, Garbage},
                        length : 0 .. MaxPacketBytes,
                        read : Positions,
                        out : Packets \cup {NoPacket, Garbage}]
    BY <1>7 DEF ConsumerPeek, TypeOK, Idle
  <2>2. UNCHANGED <<ringVars, producer, clearer, history>>
    BY <1>7 DEF ConsumerPeek
  <2>3. TypeOK
    OBVIOUS
  <2>. QED BY ONLY <2>1, <2>2, <2>3 DEF TypeOK, ringVars, history
<1>8. CASE PopPayload \/ DropReload
  BY <1>8 DEF PopPayload, DropReload, TypeOK, ringVars, history
<1>9. CASE ConsumerAdvance
  <2>1. readPos' \in Positions
    <3>1. HeaderBytes + consumer.length \in 0 .. SizeMod
      BY DEF TypeOK
    <3>. QED BY <1>9, <3>1, PlusType DEF ConsumerAdvance, AfterRecord, TypeOK
  <2>2. records' \in Seq([start : Positions, pkt : Packets])
    BY <1>9, HeadTailProperties DEF ConsumerAdvance, Rest, TypeOK
  <2>3. doomed' \in Nat
    BY <1>9 DEF ConsumerAdvance, TypeOK
  <2>. QED BY <1>9, <2>1, <2>2, <2>3 DEF ConsumerAdvance, TypeOK
<1>10. CASE ConsumerCount
  <2>1. packets' \in Positions
    <3>1. 1 \in Positions \/ SizeMod = 1
      BY DEF Positions
    <3>. QED BY <1>10, <3>1, MinusType DEF ConsumerCount, TypeOK, Positions, Minus
  <2>. QED BY <1>10, <2>1 DEF ConsumerCount, TypeOK, Idle, history, Positions
<1>11. CASE ClearLoad
  BY <1>11, LenProperties DEF ClearLoad, TypeOK, ringVars
<1>12. CASE ClearStore
  <2>1. records' \in Seq([start : Positions, pkt : Packets])
    <3>1. \A i \in doomed + 1 .. Len(records) :
             records[i] \in [start : Positions, pkt : Packets]
      <4>1. records \in Seq([start : Positions, pkt : Packets]) /\ doomed \in Nat
        BY DEF TypeOK
      <4>2. \A i \in 1 .. Len(records) : records[i] \in [start : Positions, pkt : Packets]
        BY <4>1, ElementOfSeq
      <4>3. Len(records) \in Nat
        BY <4>1, LenProperties
      <4>. QED BY <4>1, <4>2, <4>3
    <3>2. doomed + 1 \in Int /\ Len(records) \in Int
      BY LenProperties DEF TypeOK
    <3>. QED BY <1>12, <3>1, <3>2, SubSeqProperties DEF ClearStore
  <2>2. readPos' \in Positions /\ clearer' \in [pc : {"idle", "store", "zero"}, write : Positions]
    BY <1>12 DEF ClearStore, TypeOK
  <2>3. UNCHANGED <<capacity, buffer, writePos, packets, producer, consumer>>
        /\ UNCHANGED <<delivered, overlapped>> /\ doomed' \in Nat
    BY <1>12 DEF ClearStore, TypeOK
  <2>4. TypeOK
    OBVIOUS
  <2>. QED BY ONLY <2>1, <2>2, <2>3, <2>4 DEF TypeOK
<1>13. CASE ClearZero
  BY <1>13 DEF ClearZero, TypeOK, Idle, history, Positions
<1>14. CASE UNCHANGED vars
  BY <1>14 DEF vars, ringVars, history, TypeOK
<1>. QED
  BY <1>1, <1>2, <1>3, <1>4, <1>5, <1>6, <1>7, <1>8, <1>9, <1>10, <1>11, <1>12, <1>13, <1>14
     DEF Next, Begin, End, Push, PushGoesOn, Pop, Drop, Remove, Clear

(* Every call leaves the counters, the ring and the calls in progress well  *)
(* formed, under any interleaving of push(), pop(), drop() and clear().     *)
THEOREM TypeCorrect == Spec => []TypeOK
BY TypeInit, TypeNext, PTL DEF Spec

-----------------------------------------------------------------------------
(* What the ring's correctness rests on: clear() keeps out of pop() and of  *)
(* drop(), and a wrapping counter keeps its place in the ring.              *)

RingContract ==
    /\ ~ClearDuringPop
    /\ \A c \in Capacities \ {0} : SizeMod % c = 0

(* Division by a symbolic capacity, the only nonlinear facts needed.        *)
LEMMA Remainder ==
    ASSUME NEW c \in Nat \ {0}, NEW q \in Int, NEW r \in 0 .. c - 1
    PROVE  (c * q + r) % c = r
BY SMT

LEMMA Division ==
    ASSUME NEW a \in Int, NEW c \in Nat \ {0}
    PROVE  \E q \in Int : \E r \in 0 .. c - 1 : a = c * q + r /\ r = a % c
<1>1. a = c * (a \div c) + (a % c) /\ a % c \in 0 .. c - 1 /\ a \div c \in Int
  BY SMT
<1>. QED BY <1>1

(* Distances along the counters' range. *)
LEMMA MinusOfPlus ==
    ASSUME NEW a \in Positions, NEW d \in 0 .. SizeMod - 1
    PROVE  Minus(Plus(a, d), a) = d
BY SizesAssumption DEF Minus, Plus, Positions

LEMMA PlusOfMinus ==
    ASSUME NEW a \in Positions, NEW b \in Positions
    PROVE  Plus(a, Minus(b, a)) = b
BY SizesAssumption DEF Minus, Plus, Positions

LEMMA PlusOfPlus ==
    ASSUME NEW a \in Positions, NEW d \in Nat, NEW e \in Nat, d + e < SizeMod
    PROVE  Plus(Plus(a, d), e) = Plus(a, d + e)
BY SizesAssumption DEF Plus, Positions

LEMMA MinusOfMinus ==
    ASSUME NEW a \in Positions, NEW b \in Positions, NEW c \in Positions,
           Minus(c, a) <= Minus(b, a)
    PROVE  Minus(b, c) = Minus(b, a) - Minus(c, a)
BY SizesAssumption DEF Minus, Positions

-----------------------------------------------------------------------------
(* Reading and writing the ring, in bytes counted from a fixed counter a.   *)

LEMMA CapacityType ==
    ASSUME RingContract, TypeOK, capacity # 0
    PROVE  capacity \in Nat \ {0} /\ capacity < SizeMod /\ SizeMod % capacity = 0
BY SizesAssumption DEF RingContract, TypeOK

(* Advancing a wrapping counter advances its place in a ring whose size     *)
(* divides the counter's range.                                             *)
LEMMA IndexAdvances ==
    ASSUME RingContract, TypeOK, capacity # 0,
           NEW a \in Positions, NEW d \in 0 .. capacity
    PROVE  Index(Plus(a, d)) = IF Index(a) + d < capacity
                               THEN Index(a) + d ELSE Index(a) + d - capacity
<1>0. /\ capacity \in Nat \ {0} /\ capacity < SizeMod /\ SizeMod % capacity = 0
      /\ SizeMod \in Nat \ {0} /\ a \in 0 .. SizeMod - 1
  BY CapacityType, SizesAssumption DEF Positions
<1>1. PICK q \in Int, r \in 0 .. capacity - 1 : a = capacity * q + r /\ r = a % capacity
  BY <1>0, Division, a \in Int
<1>2. PICK m \in Int : SizeMod = capacity * m
  <2>0. SizeMod \in Int
    BY <1>0
  <2>1. PICK m \in Int, z \in 0 .. capacity - 1 :
           SizeMod = capacity * m + z /\ z = SizeMod % capacity
    BY <1>0, <2>0, Division
  <2>2. SizeMod = capacity * m
    BY <1>0, <2>1
  <2>. QED BY <2>2
<1> DEFINE e == IF r + d < capacity THEN r + d ELSE r + d - capacity
           s == IF r + d < capacity THEN q ELSE q + 1
           t == IF a + d < SizeMod THEN s ELSE s - m
<1>3. e \in 0 .. capacity - 1 /\ s \in Int /\ t \in Int
  BY <1>0
<1>4. Plus(a, d) = capacity * t + e
  <2>1. capacity * (q + 1) = capacity * q + capacity
    BY <1>0
  <2>2. a + d = capacity * s + e
    BY <1>0, <1>1, <2>1
  <2>3. capacity * (s - m) = capacity * s - capacity * m
    BY <1>0, <1>3
  <2> HIDE DEF s, e
  <2>4. CASE a + d < SizeMod
    BY <2>4, <2>2 DEF Plus
  <2>5. CASE ~(a + d < SizeMod)
    BY <2>5, <2>2, <2>3, <1>0, <1>2, <1>3 DEF Plus
  <2>. QED BY <2>4, <2>5
<1> HIDE DEF t, e
<1>5. (capacity * t + e) % capacity = e
  BY <1>0, <1>3, Remainder
<1>. QED BY <1>1, <1>4, <1>5 DEF e, Index

(* The byte k bytes after a + d is the byte d + k bytes after a.            *)
LEMMA CellShift ==
    ASSUME RingContract, TypeOK, capacity # 0,
           NEW a \in Positions, NEW d \in Nat, NEW k \in Nat, d + k < capacity
    PROVE  CellAt(Plus(a, d), k) = CellAt(a, d + k)
<1>1. Index(a) \in 0 .. capacity - 1
  BY CapacityType, IndexType DEF Positions
<1>2. Index(Plus(a, d)) = IF Index(a) + d < capacity
                          THEN Index(a) + d ELSE Index(a) + d - capacity
  BY CapacityType, IndexAdvances
<1>. QED BY <1>1, <1>2, CapacityType DEF CellAt

(* A write of `length' bytes at a + d changes those bytes and no others.    *)
LEMMA WriteEffect ==
    ASSUME RingContract, TypeOK, capacity # 0,
           NEW a \in Positions, NEW d \in Nat, NEW length \in Nat,
           d + length <= capacity,
           NEW p, NEW first \in Nat,
           NEW e \in Nat, e < capacity
    PROVE  WriteAt(Plus(a, d), p, first, length)[CellAt(a, e)]
             = IF d <= e /\ e < d + length
               THEN Byte(p, first + (e - d))
               ELSE buffer[CellAt(a, e)]
<1>1. Index(a) \in 0 .. capacity - 1
  BY CapacityType, IndexType DEF Positions
<1>2. Index(Plus(a, d)) = IF Index(a) + d < capacity
                          THEN Index(a) + d ELSE Index(a) + d - capacity
  BY CapacityType, IndexAdvances
<1>3. CellAt(a, e) \in 0 .. capacity - 1
  BY <1>1, CapacityType DEF CellAt
<1>4. DOMAIN buffer = 0 .. capacity - 1
  BY DEF TypeOK
<1>5. Ahead(Plus(a, d), CellAt(a, e)) = IF e >= d THEN e - d ELSE e - d + capacity
  BY <1>1, <1>2, CapacityType DEF Ahead, CellAt
<1>6. Ahead(Plus(a, d), CellAt(a, e)) < length <=> d <= e /\ e < d + length
  BY <1>5, CapacityType
<1>. QED BY <1>3, <1>4, <1>5, <1>6 DEF WriteAt

-----------------------------------------------------------------------------
(* The ring invariant. *)

Record == [start : Positions, pkt : Packets]

LEMMA RecordType ==
    ASSUME TypeOK, NEW i \in 1 .. Len(records)
    PROVE  /\ Len(records) \in Nat
           /\ records[i].start \in Positions
           /\ records[i].pkt \in Packets
<1>1. records \in Seq(Record)
  BY DEF TypeOK, Record
<1>2. records[i] \in Record
  BY <1>1, ElementOfSeq
<1>. QED BY <1>1, <1>2, LenProperties DEF Record

LEMMA CapacityNat == TypeOK => capacity \in Nat
BY SizesAssumption DEF TypeOK

LEMMA CountersType ==
    TypeOK => /\ UsedBytes \in Nat /\ capacity \in Nat
              /\ writePos \in Positions /\ readPos \in Positions
<1> SUFFICES ASSUME TypeOK
             PROVE  /\ UsedBytes \in Nat /\ capacity \in Nat
                    /\ writePos \in Positions /\ readPos \in Positions
  OBVIOUS
<1>1. writePos \in Positions /\ readPos \in Positions
  BY DEF TypeOK
<1>2. UsedBytes \in Nat
  BY <1>1, MinusType DEF UsedBytes, Positions
<1>. QED BY <1>1, <1>2, CapacityNat

LEMMA StartType ==
    ASSUME TypeOK, NEW i \in Nat \ {0}
    PROVE  Start(i) \in Positions /\ Distance(i) \in Positions /\ Len(records) \in Nat
<1>1. Len(records) \in Nat
  BY LenProperties DEF TypeOK
<1>2. Start(i) \in Positions
  <2>1. CASE i <= Len(records)
    BY <2>1, <1>1, RecordType DEF Start
  <2>2. CASE ~(i <= Len(records))
    BY <2>2 DEF Start, TypeOK
  <2>. QED BY <2>1, <2>2
<1>. QED BY <1>1, <1>2, MinusType DEF Distance, TypeOK

LEMMA SizeType ==
    ASSUME TypeOK, Chained, NEW i \in 1 .. Len(records)
    PROVE  SizeOf(i) \in HeaderBytes + 1 .. SizeMod - 1
BY RecordType, RecordBytesType DEF Chained, SizeOf

(* A stored record lies whole between readPos and writePos.                 *)
LEMMA RecordInside ==
    ASSUME TypeOK, Chained, NEW i \in 1 .. Len(records)
    PROVE  /\ Distance(i) \in Nat /\ UsedBytes \in Nat
           /\ Distance(i) + SizeOf(i) <= UsedBytes
           /\ Plus(readPos, Distance(i)) = records[i].start
<1>1. Len(records) \in Nat /\ Len(records) + 1 \in i + 1 .. Len(records) + 1
  BY RecordType
<1>2. Distance(Len(records) + 1) = UsedBytes
  BY <1>1 DEF Distance, Start, UsedBytes
<1>3. Start(i) = records[i].start
  BY DEF Start
<1>4. Plus(readPos, Distance(i)) = records[i].start
  BY <1>3, RecordType, PlusOfMinus DEF Distance, TypeOK
<1>5. UsedBytes \in Nat
  BY MinusType DEF UsedBytes, TypeOK, Positions
<1>6. Distance(i) \in Nat
  BY StartType DEF Positions
<1>. QED BY <1>1, <1>2, <1>4, <1>5, <1>6 DEF Chained

LEMMA FirstRecord ==
    ASSUME TypeOK, Chained, UsedBytes # 0
    PROVE  records # <<>> /\ 1 \in 1 .. Len(records)
<1>1. ASSUME Len(records) = 0 PROVE FALSE
  <2>1. writePos = readPos
    BY <1>1 DEF Chained, Start
  <2>. QED BY <2>1 DEF UsedBytes, Minus, TypeOK, Positions
<1>2. Len(records) \in Nat
  BY LenProperties DEF TypeOK
<1>. QED BY <1>1, <1>2

(* The invariant's parts depend on these variables only. *)
LEMMA FrameChained ==
    ASSUME Chained, UNCHANGED <<capacity, writePos, readPos, records>>
    PROVE  Chained'
BY DEF Chained, UsedBytes, Distance, Start, SizeOf

LEMMA FrameIntact ==
    ASSUME RecordsIntact, UNCHANGED <<capacity, buffer, records>>
    PROVE  RecordsIntact'
BY DEF RecordsIntact, RecordIntact, ReadsAs, CellAt, Index

(* Removing the oldest k records, readPos moving to the next one, leaves    *)
(* the others chained and intact.                                           *)
LEMMA RemoveOldest ==
    ASSUME TypeOK, Chained, RecordsIntact, TypeOK',
           NEW k \in 0 .. Len(records),
           readPos' = Start(k + 1),
           Len(records') = Len(records) - k,
           \A i \in 1 .. Len(records) - k : records'[i] = records[i + k],
           UNCHANGED <<capacity, buffer, writePos>>
    PROVE  /\ Chained' /\ RecordsIntact'
           /\ UsedBytes' <= UsedBytes
<1> DEFINE n == Len(records)
           d == Distance(k + 1)
<1>1. n \in Nat /\ n - k \in Nat /\ d \in Nat
  BY StartType DEF Positions
<1>2. \A i \in 1 .. n - k + 1 : Start(i)' = Start(i + k)
  BY <1>1 DEF Start
<1>3. \A i \in 1 .. n - k + 1 : d <= Distance(i + k)
  <2> SUFFICES ASSUME NEW i \in 1 .. n - k + 1 PROVE d <= Distance(i + k)
    OBVIOUS
  <2>0. CASE i = 1
    <3>1. i + k = k + 1
      BY <2>0
    <3>2. Distance(i + k) = d
      BY <3>1
    <3>. QED BY <3>2, <1>1
  <2> SUFFICES ASSUME i # 1 PROVE d <= Distance(i + k)
    BY <2>0
  <2>1. k + 1 \in 1 .. Len(records) /\ i + k \in (k + 1) + 1 .. Len(records) + 1
    BY <1>1
  <2>2. d + SizeOf(k + 1) <= Distance(i + k)
    BY <2>1 DEF Chained
  <2>3. SizeOf(k + 1) \in Nat
    BY <2>1, SizeType, SizesAssumption
  <2>4. Distance(i + k) \in Nat
    BY <2>1, <1>1, StartType DEF Positions
  <2>. QED BY <2>2, <2>3, <2>4, <1>1
<1>4. \A i \in 1 .. n - k + 1 : Distance(i)' = Distance(i + k) - d
  <2> SUFFICES ASSUME NEW i \in 1 .. n - k + 1 PROVE Distance(i)' = Distance(i + k) - d
    OBVIOUS
  <2>1. Distance(i)' = Minus(Start(i + k), Start(k + 1))
    BY <1>2 DEF Distance
  <2>2. Start(i + k) \in Positions /\ Start(k + 1) \in Positions /\ readPos \in Positions
    <3>1. i + k \in 1 .. Len(records) + 1 /\ k + 1 \in 1 .. Len(records) + 1
      BY <1>1
    <3>. QED BY <3>1, StartType DEF TypeOK
  <2>3. Minus(Start(k + 1), readPos) <= Minus(Start(i + k), readPos)
    BY <1>3 DEF Distance
  <2>. QED BY <2>1, <2>2, <2>3, MinusOfMinus DEF Distance
<1>5. UsedBytes' = UsedBytes - d
  <2>0. PICK m \in 1 .. n - k + 1 : m = n - k + 1
    <3>1. n - k + 1 \in 1 .. n - k + 1
      BY <1>1
    <3>. QED BY <3>1
  <2>1. Distance(m)' = Distance(n + 1) - d
    <3>1. m + k = n + 1
      BY <1>1, <2>0
    <3>2. Distance(m)' = Distance(m + k) - d
      BY <1>4
    <3>. QED BY <3>1, <3>2
  <2>2. Distance(m)' = UsedBytes'
    <3>1. ~(m <= Len(records'))
      BY <1>1, <2>0
    <3>2. Start(m)' = writePos'
      BY <3>1 DEF Start
    <3>. QED BY <3>2 DEF Distance, UsedBytes
  <2>3. Distance(n + 1) = UsedBytes
    BY <1>1 DEF Distance, Start, UsedBytes
  <2>. QED BY <2>1, <2>2, <2>3
<1>6. UsedBytes \in Nat
  BY MinusType DEF UsedBytes, TypeOK, Positions
<1>7. \A i \in 1 .. n - k : SizeOf(i)' = SizeOf(i + k)
  BY DEF SizeOf, RecordBytes
<1>8. capacity \in Nat
  BY CapacityNat
<1>9. Chained'
  <2>1. UsedBytes' <= capacity'
    BY <1>1, <1>5, <1>6, <1>8 DEF Chained
  <2>2. Start(1)' = readPos'
    BY <1>1, <1>2
  <2>3. ASSUME NEW i \in 1 .. Len(records')
        PROVE  /\ Acceptable(records'[i].pkt)
               /\ Distance(i + 1)' = Distance(i)' + SizeOf(i)'
               /\ \A j \in i + 1 .. Len(records') + 1 :
                      Distance(i)' + SizeOf(i)' <= Distance(j)'
    <3>1. i + k \in 1 .. n /\ i \in 1 .. n - k
      BY <1>1
    <3>2. Acceptable(records'[i].pkt)
      BY <3>1 DEF Chained
    <3>3. /\ Distance(i + k) \in Nat /\ Distance((i + k) + 1) \in Nat
          /\ SizeOf(i + k) \in Nat
      <4>1. i + k \in Nat \ {0} /\ (i + k) + 1 \in Nat \ {0}
        BY <3>1, <1>1
      <4>2. Distance(i + k) \in Nat /\ Distance((i + k) + 1) \in Nat
        BY <4>1, StartType DEF Positions
      <4>3. SizeOf(i + k) \in HeaderBytes + 1 .. SizeMod - 1
        BY <3>1, SizeType
      <4>. QED BY <4>2, <4>3, SizesAssumption
    <3>4. Distance((i + k) + 1) = Distance(i + k) + SizeOf(i + k)
      BY <3>1 DEF Chained
    <3>5. Distance(i + 1)' = Distance(i)' + SizeOf(i)'
      <4>1. i + 1 \in 1 .. n - k + 1 /\ i \in 1 .. n - k + 1 /\ (i + 1) + k = (i + k) + 1
        BY <3>1, <1>1
      <4>2. Distance(i + 1)' = Distance((i + k) + 1) - d /\ Distance(i)' = Distance(i + k) - d
        BY <4>1, <1>4
      <4>. QED BY <4>2, <3>1, <3>3, <3>4, <1>1, <1>7
    <3>6. ASSUME NEW j \in i + 1 .. Len(records') + 1
          PROVE  Distance(i)' + SizeOf(i)' <= Distance(j)'
      <4>1. j \in 1 .. n - k + 1 /\ i \in 1 .. n - k + 1 /\ j + k \in (i + k) + 1 .. n + 1
        BY <3>1, <1>1
      <4>2. Distance(j)' = Distance(j + k) - d /\ Distance(i)' = Distance(i + k) - d
        BY <4>1, <1>4
      <4>3. Distance(i + k) + SizeOf(i + k) <= Distance(j + k)
        BY <3>1, <4>1 DEF Chained
      <4>4. Distance(j + k) \in Nat
        BY <4>1, <1>1, StartType DEF Positions
      <4>. QED BY <4>2, <4>3, <4>4, <3>1, <3>3, <1>1, <1>7
    <3>. QED BY <3>2, <3>5, <3>6
  <2>. QED BY <2>1, <2>2, <2>3 DEF Chained
<1>10. RecordsIntact'
  <2> SUFFICES ASSUME NEW i \in 1 .. Len(records') PROVE RecordIntact(i)'
    BY DEF RecordsIntact
  <2>1. i + k \in 1 .. n /\ records'[i] = records[i + k]
    BY <1>1
  <2>2. RecordIntact(i + k)
    BY <2>1 DEF RecordsIntact
  <2>. QED BY <2>1, <2>2 DEF RecordIntact, ReadsAs, CellAt, Index, RecordBytes
<1>. QED BY <1>1, <1>5, <1>6, <1>9, <1>10

LEMMA InvInit == Init => RingInvariant
<1> SUFFICES ASSUME Init PROVE RingInvariant
  OBVIOUS
<1>1. Len(records) = 0
  BY DEF Init
<1>2. Chained
  BY <1>1 DEF Chained, Init, UsedBytes, Minus, Start
<1>3. RecordsIntact
  BY <1>1 DEF RecordsIntact
<1>. QED
  BY <1>2, <1>3, TypeInit DEF RingInvariant, Init, Idle, ProducerInv, ConsumerInv, ClearInv, Writing

(* Steps that leave the ring and its records alone. *)
LEMMA InvFrame ==
    ASSUME RingInvariant, TypeOK',
           UNCHANGED <<capacity, buffer, writePos, readPos, records>>,
           ProducerInv', ConsumerInv', ClearInv'
    PROVE  RingInvariant'
BY FrameChained, FrameIntact DEF RingInvariant

LEMMA FrameProducer ==
    ASSUME ProducerInv, UNCHANGED <<capacity, buffer, writePos, readPos, producer>>
    PROVE  ProducerInv'
BY DEF ProducerInv, Writing, ReadsAs, CellAt, Index, UsedBytes, RecordBytes

LEMMA FrameConsumer ==
    ASSUME ConsumerInv, UNCHANGED <<capacity, readPos, records, consumer>>
    PROVE  ConsumerInv'
BY DEF ConsumerInv

LEMMA FrameClear ==
    ASSUME ClearInv, UNCHANGED <<writePos, records, doomed, clearer>>,
           consumer' = consumer \/ consumer'.pc = "idle" \/ clearer.pc = "idle"
    PROVE  ClearInv'
BY DEF ClearInv, Start

-----------------------------------------------------------------------------
(* One lemma per step of push(). *)

LEMMA InvPushAdmit ==
    ASSUME RingInvariant, TypeOK', NEW p \in Packets, PushAdmit(p)
    PROVE  RingInvariant'
<1>1. TypeOK /\ Chained
  BY DEF RingInvariant
<1>2. capacity \in Nat /\ UsedBytes \in Nat /\ capacity < SizeMod
  <2>1. UsedBytes \in Positions
    BY <1>1, MinusType DEF UsedBytes, TypeOK
  <2>2. capacity < SizeMod
    BY <1>1, SizesAssumption DEF TypeOK
  <2>. QED BY <1>1, <2>1, <2>2, CapacityNat DEF Positions
<1>3. RecordBytes(p) <= capacity - UsedBytes
  BY <1>1, <1>2 DEF PushAdmit, Fits, Chained, Minus
<1>4. RecordBytes(p) \in Nat
  BY RecordBytesType, SizesAssumption DEF PushAdmit
<1>5. ProducerInv'
  <2>1. producer' = [pc |-> "header", pkt |-> p] /\ capacity' = capacity
        /\ UsedBytes' = UsedBytes /\ capacity # 0
    BY DEF PushAdmit, ringVars, UsedBytes
  <2>. QED BY <2>1, <1>2, <1>3, <1>4 DEF ProducerInv, Writing, RecordBytes
<1>6. ConsumerInv' /\ ClearInv'
  BY FrameConsumer, FrameClear DEF PushAdmit, ringVars, history, RingInvariant
<1>. QED BY <1>5, <1>6, InvFrame DEF PushAdmit, ringVars, history

(* A chunk written d bytes past writePos, in the room push() was given,     *)
(* leaves every stored record intact.                                       *)
LEMMA WriteKeepsRecords ==
    ASSUME RingContract, RingInvariant, Writing,
           NEW d \in Nat, NEW length \in Nat, NEW first \in Nat,
           d + length <= RecordBytes(producer.pkt),
           buffer' = WriteAt(Plus(writePos, d), producer.pkt, first, length),
           UNCHANGED <<capacity, records>>
    PROVE  RecordsIntact'
<1>1. TypeOK /\ Chained /\ RecordsIntact /\ ProducerInv
  BY DEF RingInvariant
<1>2. producer.pkt \in Packets /\ RecordBytes(producer.pkt) \in Nat
  BY <1>1, RecordBytesType, SizesAssumption DEF TypeOK, Writing
<1>3. /\ capacity # 0 /\ capacity \in Nat /\ UsedBytes \in Nat /\ readPos \in Positions
      /\ UsedBytes + d + length <= capacity /\ capacity < SizeMod
  <2>1. UsedBytes \in Nat /\ readPos \in Positions
    BY <1>1, MinusType DEF UsedBytes, TypeOK, Positions
  <2>. QED BY <1>1, <1>2, <2>1, CapacityNat, CapacityType DEF ProducerInv
<1>4. Plus(writePos, d) = Plus(readPos, UsedBytes + d)
  <2>1. writePos = Plus(readPos, UsedBytes)
    BY <1>1, PlusOfMinus DEF UsedBytes, TypeOK
  <2>2. UsedBytes + d < SizeMod
    BY <1>3, SizesAssumption
  <2>. QED BY <2>1, <2>2, <1>3, PlusOfPlus
<1> SUFFICES ASSUME NEW i \in 1 .. Len(records) PROVE RecordIntact(i)'
  BY DEF RecordsIntact
<1>5. RecordIntact(i)
  BY <1>1 DEF RecordsIntact
<1> DEFINE D == Distance(i)
           s == RecordBytes(records[i].pkt)
<1>6. D \in Nat /\ s \in Nat /\ D + s <= UsedBytes /\ Plus(readPos, D) = records[i].start
  BY <1>1, RecordInside, SizeType, SizesAssumption DEF SizeOf
<1> SUFFICES ASSUME NEW k \in 0 .. s - 1
             PROVE  buffer'[CellAt(records[i].start, k)] = buffer[CellAt(records[i].start, k)]
  BY <1>5 DEF RecordIntact, ReadsAs, CellAt, Index, RecordBytes
<1> HIDE DEF D, s
<1>7. CellAt(records[i].start, k) = CellAt(readPos, D + k)
  <2>1. k \in Nat /\ D + k < capacity
    BY <1>3, <1>6
  <2>. QED BY <2>1, <1>1, <1>3, <1>6, CellShift
<1>8. /\ UsedBytes + d \in Nat /\ (UsedBytes + d) + length <= capacity
      /\ D + k \in Nat /\ D + k < capacity /\ ~(UsedBytes + d <= D + k)
  BY <1>3, <1>6
<1>9. buffer'[CellAt(readPos, D + k)] = buffer[CellAt(readPos, D + k)]
  BY <1>1, <1>2, <1>3, <1>4, <1>8, WriteEffect
<1>. QED BY <1>7, <1>9

LEMMA InvPushHeader ==
    ASSUME RingContract, RingInvariant, TypeOK', PushHeader
    PROVE  RingInvariant'
<1>1. TypeOK /\ Chained /\ RecordsIntact /\ ProducerInv /\ ConsumerInv /\ ClearInv
  BY DEF RingInvariant
<1>2. /\ producer.pkt \in Packets /\ Writing /\ producer'.pkt = producer.pkt
      /\ producer'.pc = "payload"
      /\ RecordBytes(producer.pkt) \in Nat /\ HeaderBytes <= RecordBytes(producer.pkt)
      /\ HeaderBytes \in Nat
  BY <1>1, RecordBytesType, SizesAssumption DEF TypeOK, Writing, PushHeader
<1>3. Plus(writePos, 0) = writePos
  BY <1>1, SizesAssumption DEF Plus, TypeOK, Positions
<1>4. RecordsIntact'
  <2>1. buffer' = WriteAt(Plus(writePos, 0), producer.pkt, 0, HeaderBytes)
    BY <1>3 DEF PushHeader
  <2>. QED BY <1>2, <2>1, WriteKeepsRecords DEF PushHeader, history
<1>5. Chained'
  BY <1>1, FrameChained DEF PushHeader, history
<1>6. ProducerInv'
  <2>1. capacity # 0 /\ UsedBytes + RecordBytes(producer.pkt) <= capacity
    BY <1>1, <1>2 DEF ProducerInv
  <2>2. UsedBytes' = UsedBytes /\ capacity' = capacity /\ writePos' = writePos
    BY DEF PushHeader, UsedBytes
  <2>3. UsedBytes \in Nat /\ capacity \in Nat
    BY <1>1, CountersType
  <2>4. ASSUME NEW k \in 0 .. HeaderBytes - 1
        PROVE  buffer'[CellAt(writePos, k)] = Byte(producer.pkt, k)
    <3>1. k \in Nat /\ k < capacity /\ 0 + HeaderBytes <= capacity /\ writePos \in Positions
      BY <1>1, <1>2, <2>1, <2>3 DEF TypeOK
    <3>2. WriteAt(Plus(writePos, 0), producer.pkt, 0, HeaderBytes)[CellAt(writePos, k)]
            = Byte(producer.pkt, 0 + (k - 0))
      BY <1>1, <1>2, <2>1, <3>1, WriteEffect
    <3>. QED BY <1>3, <3>1, <3>2 DEF PushHeader
  <2>5. ReadsAs(writePos, producer.pkt, 0, HeaderBytes)'
    BY <1>2, <2>2, <2>4 DEF ReadsAs, CellAt, Index
  <2>. QED BY <1>2, <2>1, <2>2, <2>5 DEF ProducerInv, RecordBytes
<1>7. ConsumerInv' /\ ClearInv'
  BY <1>1, FrameConsumer, FrameClear DEF PushHeader, history
<1>. QED BY <1>4, <1>5, <1>6, <1>7 DEF RingInvariant

LEMMA InvPushPayload ==
    ASSUME RingContract, RingInvariant, TypeOK', PushPayload
    PROVE  RingInvariant'
<1>1. TypeOK /\ Chained /\ RecordsIntact /\ ProducerInv /\ ConsumerInv /\ ClearInv
  BY DEF RingInvariant
<1> DEFINE len == LengthOf[producer.pkt]
<1>2. /\ producer.pkt \in Packets /\ Writing /\ producer'.pkt = producer.pkt
      /\ producer.pc = "payload" /\ producer'.pc = "publish"
      /\ HeaderBytes \in Nat /\ len \in Nat
      /\ RecordBytes(producer.pkt) = HeaderBytes + len
  BY <1>1, PacketsAssumption, SizesAssumption DEF TypeOK, Writing, PushPayload, RecordBytes
<1>3. RecordsIntact'
  <2>1. buffer' = WriteAt(Plus(writePos, HeaderBytes), producer.pkt, HeaderBytes, len)
    BY DEF PushPayload
  <2>. QED BY <1>2, <2>1, WriteKeepsRecords DEF PushPayload, history
<1>4. Chained'
  BY <1>1, FrameChained DEF PushPayload, history
<1>5. ProducerInv'
  <2>1. capacity # 0 /\ UsedBytes + RecordBytes(producer.pkt) <= capacity
    BY <1>1, <1>2 DEF ProducerInv
  <2>2. UsedBytes' = UsedBytes /\ capacity' = capacity /\ writePos' = writePos
    BY DEF PushPayload, UsedBytes
  <2>3. UsedBytes \in Nat /\ capacity \in Nat /\ writePos \in Positions
    BY <1>1, CountersType
  <2>4. ASSUME NEW k \in 0 .. RecordBytes(producer.pkt) - 1
        PROVE  buffer'[CellAt(writePos, k)] = Byte(producer.pkt, k)
    <3>1. k \in Nat /\ k < capacity /\ HeaderBytes + len <= capacity
      BY <1>2, <2>1, <2>3
    <3>2. buffer' = WriteAt(Plus(writePos, HeaderBytes), producer.pkt, HeaderBytes, len)
      BY DEF PushPayload
    <3> HIDE DEF len
    <3>3. CASE k < HeaderBytes
      <4>1. buffer[CellAt(writePos, k)] = Byte(producer.pkt, k)
        <5>1. ReadsAs(writePos, producer.pkt, 0, HeaderBytes) /\ k \in 0 .. HeaderBytes - 1
          BY <1>1, <1>2, <3>1, <3>3 DEF ProducerInv
        <5>2. 0 + k = k
          BY <3>1
        <5>. QED BY <5>1, <5>2 DEF ReadsAs
      <4>2. ~(HeaderBytes <= k /\ k < HeaderBytes + len)
        BY <1>2, <3>1, <3>3
      <4>3. buffer'[CellAt(writePos, k)] = buffer[CellAt(writePos, k)]
        BY <1>1, <1>2, <2>1, <2>3, <3>1, <3>2, <4>2, WriteEffect
      <4>. QED BY <4>1, <4>3
    <3>4. CASE ~(k < HeaderBytes)
      <4>1. HeaderBytes <= k /\ k < HeaderBytes + len /\ HeaderBytes + (k - HeaderBytes) = k
        BY <1>2, <3>1, <3>4
      <4>2. buffer'[CellAt(writePos, k)] = Byte(producer.pkt, HeaderBytes + (k - HeaderBytes))
        BY <1>1, <1>2, <2>1, <2>3, <3>1, <3>2, <4>1, WriteEffect
      <4>. QED BY <4>1, <4>2
    <3>. QED BY <3>3, <3>4
  <2>5. /\ ReadsAs(writePos, producer.pkt, 0, RecordBytes(producer.pkt))'
        /\ ReadsAs(writePos, producer.pkt, 0, HeaderBytes)'
    BY <1>2, <2>2, <2>4 DEF ReadsAs, CellAt, Index, RecordBytes
  <2>. QED BY <1>2, <2>1, <2>2, <2>5 DEF ProducerInv, RecordBytes
<1>6. ConsumerInv' /\ ClearInv'
  BY <1>1, FrameConsumer, FrameClear DEF PushPayload, history
<1>. QED BY <1>3, <1>4, <1>5, <1>6 DEF RingInvariant

LEMMA InvPushPublish ==
    ASSUME RingContract, RingInvariant, TypeOK', PushPublish
    PROVE  RingInvariant'
<1>1. TypeOK /\ Chained /\ RecordsIntact /\ ProducerInv /\ ConsumerInv /\ ClearInv
  BY DEF RingInvariant
<1> DEFINE p == producer.pkt
           new == [start |-> writePos, pkt |-> p]
<1>2. PICK n \in Nat : n = Len(records)
  BY <1>1, LenProperties DEF TypeOK
<1>3. /\ p \in Packets /\ Acceptable(p) /\ RecordBytes(p) \in Nat /\ RecordBytes(p) > 0
      /\ producer'.pc = "count" /\ producer.pc = "publish"
      /\ writePos' = Plus(writePos, RecordBytes(p))
  BY <1>1, RecordBytesType, SizesAssumption DEF TypeOK, PushPublish
<1>4. /\ capacity # 0 /\ UsedBytes + RecordBytes(p) <= capacity /\ capacity < SizeMod
      /\ UsedBytes \in Nat /\ capacity \in Nat /\ writePos \in Positions /\ readPos \in Positions
  BY <1>1, <1>3, CountersType, CapacityType DEF ProducerInv, Writing
<1>5. /\ Len(records') = n + 1
      /\ \A i \in 1 .. n : records'[i] = records[i]
      /\ records'[n + 1] = new
  <2>1. records \in Seq(Record) /\ new \in Record
    BY <1>1, <1>3, <1>4 DEF TypeOK, Record
  <2>. QED BY <1>2, <2>1, AppendProperties DEF PushPublish
<1>6. UsedBytes' = UsedBytes + RecordBytes(p)
  <2>1. writePos = Plus(readPos, UsedBytes)
    BY <1>4, PlusOfMinus DEF UsedBytes
  <2>2. UsedBytes + RecordBytes(p) \in 0 .. SizeMod - 1
    BY <1>3, <1>4, SizesAssumption
  <2>3. writePos' = Plus(readPos, UsedBytes + RecordBytes(p))
    BY <1>3, <1>4, <2>1, <2>2, SizesAssumption, PlusOfPlus
  <2>4. Minus(Plus(readPos, UsedBytes + RecordBytes(p)), readPos) = UsedBytes + RecordBytes(p)
    BY <1>4, <2>2, MinusOfPlus
  <2>5. readPos' = readPos
    BY DEF PushPublish
  <2>. QED BY <2>3, <2>4, <2>5 DEF UsedBytes
<1>7. \A i \in 1 .. n + 1 : Start(i)' = Start(i)
  <2>1. \A i \in 1 .. n : Start(i)' = Start(i)
    BY <1>2, <1>5 DEF Start
  <2>2. Start(n + 1)' = Start(n + 1)
    BY <1>2, <1>5 DEF Start
  <2>. QED BY <2>1, <2>2
<1>8. \A i \in 1 .. n + 1 : Distance(i)' = Distance(i)
  BY <1>7 DEF Distance, PushPublish
<1>9. Distance(n + 1)' = UsedBytes /\ Distance(n + 2)' = UsedBytes'
  <2>1. Distance(n + 1) = UsedBytes
    BY <1>2 DEF Distance, Start, UsedBytes
  <2>2. Start(n + 2)' = writePos'
    BY <1>5 DEF Start
  <2>. QED BY <2>1, <2>2, <1>8 DEF Distance, UsedBytes
<1>10. /\ \A i \in 1 .. n : SizeOf(i)' = SizeOf(i)
       /\ SizeOf(n + 1)' = RecordBytes(p)
  BY <1>5 DEF SizeOf, RecordBytes
<1>11. Chained'
  <2>1. UsedBytes' <= capacity'
    BY <1>4, <1>6 DEF PushPublish
  <2>2. Start(1)' = readPos'
    BY <1>1, <1>7 DEF Chained, PushPublish
  <2>3. ASSUME NEW i \in 1 .. n + 1
        PROVE  /\ Acceptable(records'[i].pkt)
               /\ Distance(i + 1)' = Distance(i)' + SizeOf(i)'
               /\ \A j \in i + 1 .. (n + 1) + 1 : Distance(i)' + SizeOf(i)' <= Distance(j)'
    <3>1. CASE i = n + 1
      <4>1. Acceptable(records'[i].pkt)
        BY <3>1, <1>3, <1>5
      <4>2. Distance(i + 1)' = Distance(i)' + SizeOf(i)'
        BY <3>1, <1>6, <1>9, <1>10
      <4>3. \A j \in i + 1 .. (n + 1) + 1 : j = i + 1
        BY <3>1
      <4>4. Distance(i + 1)' \in Int
        BY <3>1, <1>3, <1>4, <1>6, <1>9
      <4>. QED BY <4>1, <4>2, <4>3, <4>4
    <3>2. CASE i # n + 1
      <4>1. i \in 1 .. n /\ i + 1 \in 1 .. n + 1
        BY <3>2
      <4>2. /\ Acceptable(records[i].pkt)
            /\ Distance(i + 1) = Distance(i) + SizeOf(i)
            /\ \A j \in i + 1 .. n + 1 : Distance(i) + SizeOf(i) <= Distance(j)
        BY <4>1, <1>1, <1>2 DEF Chained
      <4>3. Distance(i)' = Distance(i) /\ Distance(i + 1)' = Distance(i + 1) /\ SizeOf(i)' = SizeOf(i)
        BY <4>1, <1>8, <1>10
      <4>4. ASSUME NEW j \in i + 1 .. (n + 1) + 1
            PROVE  Distance(i)' + SizeOf(i)' <= Distance(j)'
        <5>1. CASE j = n + 2
          <6>1. Distance(i) + SizeOf(i) <= UsedBytes
            BY <4>1, <1>1, <1>2, RecordInside
          <6>2. Distance(i) + SizeOf(i) \in Int
            BY <4>1, <1>1, <1>2, RecordInside, SizeType, SizesAssumption
          <6>. QED BY <5>1, <6>1, <6>2, <4>3, <1>3, <1>4, <1>6, <1>9
        <5>2. CASE j # n + 2
          <6>1. j \in i + 1 .. n + 1 /\ j \in 1 .. n + 1
            BY <5>2
          <6>. QED BY <6>1, <4>2, <4>3, <1>8
        <5>. QED BY <5>1, <5>2
      <4>. QED BY <4>1, <4>2, <4>3, <4>4, <1>5
    <3>. QED BY <3>1, <3>2
  <2>. QED BY <2>1, <2>2, <2>3, <1>5 DEF Chained
<1>12. RecordsIntact'
  <2> SUFFICES ASSUME NEW i \in 1 .. n + 1 PROVE RecordIntact(i)'
    BY <1>5 DEF RecordsIntact
  <2>1. CASE i = n + 1
    <3>1. ReadsAs(writePos, p, 0, RecordBytes(p))
      BY <1>1, <1>3 DEF ProducerInv
    <3>2. records'[i].start = writePos /\ records'[i].pkt = p
      BY <2>1, <1>5
    <3>. QED BY <3>1, <3>2 DEF RecordIntact, ReadsAs, CellAt, Index, RecordBytes, PushPublish
  <2>2. CASE i # n + 1
    <3>1. i \in 1 .. n /\ records'[i] = records[i]
      BY <2>2, <1>5
    <3>2. RecordIntact(i)
      BY <3>1, <1>1, <1>2 DEF RecordsIntact
    <3>. QED BY <3>1, <3>2 DEF RecordIntact, ReadsAs, CellAt, Index, RecordBytes, PushPublish
  <2>. QED BY <2>1, <2>2
<1>13. ProducerInv'
  BY <1>3 DEF ProducerInv, Writing
<1>14. ConsumerInv'
  <2>1. records # <<>> => records'[1] = records[1] /\ records' # <<>>
    <3>1. records # <<>> => 1 \in 1 .. n
      BY <1>1, <1>2, EmptySeq DEF TypeOK
    <3>2. records' # <<>>
      BY <1>2, <1>5
    <3>. QED BY <3>1, <3>2, <1>5
  <2>. QED BY <2>1, <1>1 DEF ConsumerInv, PushPublish
<1>15. ClearInv'
  <2>1. CASE clearer.pc = "store"
    <3>1. doomed \in Nat /\ doomed <= n /\ clearer.write = Start(doomed + 1)
      BY <2>1, <1>1, <1>2 DEF ClearInv, TypeOK
    <3>2. doomed + 1 \in 1 .. n + 1 /\ doomed <= n + 1
      BY <3>1
    <3>3. PICK d \in Nat : d = doomed
      BY <3>1
    <3>4. Start(d + 1)' = Start(d + 1)
      BY <3>2, <3>3, <1>7
    <3>5. doomed' = doomed /\ clearer' = clearer /\ consumer' = consumer
      BY DEF PushPublish
    <3>6. Start(doomed + 1)' = Start(d + 1)'
      BY <3>3, <3>5 DEF Start
    <3>7. Start(doomed + 1) = Start(d + 1)
      BY <3>3
    <3>. QED BY <2>1, <3>1, <3>2, <3>4, <3>5, <3>6, <3>7, <1>1, <1>5 DEF ClearInv
  <2>2. CASE clearer.pc # "store"
    BY <2>2, <1>1 DEF ClearInv, PushPublish
  <2>. QED BY <2>1, <2>2
<1>. QED BY <1>11, <1>12, <1>13, <1>14, <1>15 DEF RingInvariant

LEMMA InvPushCount ==
    ASSUME RingInvariant, TypeOK', PushCount
    PROVE  RingInvariant'
<1>1. ProducerInv'
  BY DEF ProducerInv, Writing, PushCount, Idle
<1>2. ConsumerInv' /\ ClearInv'
  BY FrameConsumer, FrameClear DEF PushCount, history, RingInvariant
<1>. QED BY <1>1, <1>2, InvFrame DEF PushCount, history

-----------------------------------------------------------------------------
(* One lemma per step of pop() and drop(). *)

(* A header that reads as a packet's is the oldest record's header.         *)
LEMMA HeaderIsOldest ==
    ASSUME RingInvariant, capacity # 0, NonEmpty,
           NEW p, NEW length, HeaderSays(p, length)
    PROVE  records # <<>> /\ p = records[1].pkt /\ length = LengthOf[p]
<1>1. TypeOK /\ Chained /\ RecordsIntact
  BY DEF RingInvariant
<1>2. records # <<>> /\ 1 \in 1 .. Len(records)
  BY <1>1, CountersType, FirstRecord, SizesAssumption DEF NonEmpty
<1> DEFINE q == records[1].pkt
<1>3. q \in Packets /\ RecordBytes(q) \in Nat /\ HeaderBytes < RecordBytes(q)
      /\ HeaderBytes \in Nat \ {0}
  BY <1>1, <1>2, RecordType, SizeType, SizesAssumption DEF SizeOf
<1>4. readPos = records[1].start
  BY <1>1, <1>2 DEF Chained, Start
<1>5. ReadsAs(readPos, q, 0, HeaderBytes)
  <2>1. ReadsAs(readPos, q, 0, RecordBytes(q))
    BY <1>1, <1>2, <1>4 DEF RecordsIntact, RecordIntact
  <2>. QED BY <2>1, <1>3 DEF ReadsAs
<1> HIDE DEF q
<1>6. p \in Packets /\ ReadsAs(readPos, p, 0, HeaderBytes) /\ length = LengthOf[p]
  BY <1>3, <1>5 DEF HeaderSays
<1>7. 0 \in 0 .. HeaderBytes - 1
  BY <1>3
<1>8. Byte(p, 0 + 0) = Byte(q, 0 + 0)
  BY <1>5, <1>6, <1>7 DEF ReadsAs
<1>9. p = q
  BY <1>8 DEF Byte
<1>. QED BY <1>2, <1>6, <1>9 DEF q

LEMMA InvConsumerPeek ==
    ASSUME RingContract, RingInvariant, TypeOK', NEW op \in {"pop", "drop"}, ConsumerPeek(op)
    PROVE  RingInvariant'
<1>1. PICK p \in Packets \cup {Garbage}, length \in 0 .. MaxPacketBytes :
         /\ HeaderSays(p, length)
         /\ consumer' = [Idle.consumer EXCEPT
                            !.pc = "payload", !.op = op, !.pkt = p, !.length = length,
                            !.read = readPos]
  BY DEF ConsumerPeek
<1>2. capacity # 0 /\ NonEmpty /\ clearer.pc = "idle"
  BY DEF ConsumerPeek, RingContract
<1>3. records # <<>> /\ p = records[1].pkt /\ length = LengthOf[p]
  BY <1>1, <1>2, HeaderIsOldest
<1>4. /\ consumer'.pc = "payload" /\ consumer'.op = op /\ consumer'.pkt = p
      /\ consumer'.length = length
  BY <1>1 DEF Idle
<1>5. ConsumerInv'
  BY <1>2, <1>3, <1>4 DEF ConsumerInv, ConsumerPeek, ringVars, history
<1>6. ProducerInv' /\ ClearInv'
  BY <1>2, FrameProducer, FrameClear DEF ConsumerPeek, ringVars, history, RingInvariant
<1>. QED BY <1>5, <1>6, InvFrame DEF ConsumerPeek, ringVars, history

LEMMA InvPopPayload ==
    ASSUME RingContract, RingInvariant, TypeOK', PopPayload
    PROVE  RingInvariant'
<1>1. TypeOK /\ Chained /\ RecordsIntact /\ ConsumerInv
  BY DEF RingInvariant
<1> DEFINE q == records[1].pkt
<1>2. /\ capacity # 0 /\ records # <<>> /\ consumer.op = "pop"
      /\ consumer.pkt = q /\ consumer.length = LengthOf[q]
  BY <1>1 DEF PopPayload, ConsumerInv
<1>3. 1 \in 1 .. Len(records)
  BY <1>1, <1>2, EmptySeq DEF TypeOK
<1>4. /\ q \in Packets /\ RecordBytes(q) = HeaderBytes + LengthOf[q]
      /\ LengthOf[q] \in Nat /\ HeaderBytes \in Nat
  BY <1>1, <1>3, RecordType, PacketsAssumption, SizesAssumption DEF RecordBytes
<1>5. readPos = records[1].start /\ readPos \in Positions
  BY <1>1, <1>3, CountersType DEF Chained, Start
<1>6. RecordBytes(q) <= capacity
  <2>1. Distance(1) + SizeOf(1) <= UsedBytes /\ Distance(1) \in Nat /\ UsedBytes \in Nat
    BY <1>1, <1>3, RecordInside
  <2>2. UsedBytes <= capacity /\ capacity \in Nat
    BY <1>1, CountersType DEF Chained
  <2>. QED BY <2>1, <2>2, <1>4 DEF SizeOf
<1>7. ReadsAs(readPos, q, 0, RecordBytes(q))
  BY <1>1, <1>3, <1>5 DEF RecordsIntact, RecordIntact
<1> HIDE DEF q
<1>8. ReadsAs(Plus(readPos, HeaderBytes), q, HeaderBytes, LengthOf[q])
  <2> SUFFICES ASSUME NEW k \in 0 .. LengthOf[q] - 1
               PROVE  buffer[CellAt(Plus(readPos, HeaderBytes), k)] = Byte(q, HeaderBytes + k)
    BY DEF ReadsAs
  <2>1. /\ k \in Nat /\ HeaderBytes + k < capacity
        /\ HeaderBytes + k \in 0 .. RecordBytes(q) - 1
    BY <1>1, <1>4, <1>6, CountersType
  <2>2. CellAt(Plus(readPos, HeaderBytes), k) = CellAt(readPos, HeaderBytes + k)
    BY <2>1, <1>1, <1>2, <1>4, <1>5, CellShift
  <2>3. buffer[CellAt(readPos, HeaderBytes + k)] = Byte(q, 0 + (HeaderBytes + k))
    BY <2>1, <1>7 DEF ReadsAs
  <2>. QED BY <2>1, <2>2, <2>3
<1>9. /\ consumer'.pc = "advance" /\ consumer'.op = "pop" /\ consumer'.pkt = q
      /\ consumer'.length = LengthOf[q] /\ consumer'.read = readPos /\ consumer'.out = q
  BY <1>1, <1>2, <1>8 DEF PopPayload, TypeOK
<1>10. ConsumerInv'
  BY <1>2, <1>9 DEF ConsumerInv, PopPayload, ringVars, history, q
<1>11. ProducerInv' /\ ClearInv'
  <2>1. clearer.pc = "idle"
    BY DEF RingInvariant, ClearInv, PopPayload
  <2>. QED BY <2>1, FrameProducer, FrameClear DEF PopPayload, ringVars, history, RingInvariant
<1>. QED BY <1>10, <1>11, InvFrame DEF PopPayload, ringVars, history

LEMMA InvDropReload ==
    ASSUME RingInvariant, TypeOK', DropReload
    PROVE  RingInvariant'
<1>1. TypeOK /\ ConsumerInv
  BY DEF RingInvariant
<1>2. /\ consumer'.pc = "advance" /\ consumer'.op = "drop" /\ consumer'.read = readPos
      /\ consumer'.pkt = consumer.pkt /\ consumer'.length = consumer.length
  BY <1>1 DEF DropReload, TypeOK
<1>3. ConsumerInv'
  BY <1>1, <1>2 DEF ConsumerInv, DropReload, ringVars, history
<1>4. ProducerInv' /\ ClearInv'
  <2>1. clearer.pc = "idle"
    BY DEF RingInvariant, ClearInv, DropReload
  <2>. QED BY <2>1, FrameProducer, FrameClear DEF DropReload, ringVars, history, RingInvariant
<1>. QED BY <1>3, <1>4, InvFrame DEF DropReload, ringVars, history

(* Less stored, the same bytes: push() keeps the room it was promised.      *)
LEMMA ProducerGainsRoom ==
    ASSUME TypeOK, TypeOK', ProducerInv, UsedBytes' <= UsedBytes,
           UNCHANGED <<capacity, buffer, writePos, producer>>
    PROVE  ProducerInv'
<1>1. UsedBytes \in Nat /\ UsedBytes' \in Nat /\ capacity \in Nat
  <2>1. UsedBytes' \in Nat
    BY MinusType DEF UsedBytes, TypeOK, Positions
  <2>. QED BY <2>1, CountersType
<1>2. Writing => RecordBytes(producer.pkt) \in Nat
  BY RecordBytesType, SizesAssumption DEF TypeOK, Writing
<1>3. (Writing => capacity # 0 /\ UsedBytes + RecordBytes(producer.pkt) <= capacity)'
  <2>1. Writing' = Writing /\ RecordBytes(producer.pkt)' = RecordBytes(producer.pkt)
    BY DEF Writing, RecordBytes
  <2>. QED BY <2>1, <1>1, <1>2 DEF ProducerInv
<1>. QED BY <1>3 DEF ProducerInv, ReadsAs, CellAt, Index, RecordBytes

LEMMA InvConsumerAdvance ==
    ASSUME RingInvariant, TypeOK', ConsumerAdvance
    PROVE  RingInvariant'
<1>1. TypeOK /\ Chained /\ RecordsIntact /\ ProducerInv /\ ConsumerInv /\ ClearInv
  BY DEF RingInvariant
<1>2. /\ records # <<>> /\ consumer.read = readPos
      /\ consumer.length = LengthOf[records[1].pkt]
      /\ consumer.pc = "advance" /\ clearer.pc = "idle" /\ doomed = 0
  BY <1>1 DEF ConsumerAdvance, ConsumerInv, ClearInv
<1>3. 1 \in 1 .. Len(records) /\ Len(records) \in Nat
  BY <1>1, <1>2, EmptySeq, LenProperties DEF TypeOK
<1>4. /\ Len(records') = Len(records) - 1
      /\ \A i \in 1 .. Len(records) - 1 : records'[i] = records[i + 1]
  BY <1>1, <1>2, HeadTailProperties DEF ConsumerAdvance, Rest, TypeOK
<1>5. readPos' = Start(1 + 1)
  <2>1. readPos' = Plus(readPos, SizeOf(1))
    BY <1>2 DEF ConsumerAdvance, AfterRecord, SizeOf, RecordBytes
  <2>2. Distance(1 + 1) = Distance(1) + SizeOf(1)
    BY <1>1, <1>3 DEF Chained
  <2>3. Distance(1) = 0
    BY <1>1, CountersType DEF Distance, Chained, Minus, Positions
  <2>4. Start(1 + 1) \in Positions /\ SizeOf(1) \in Nat
    BY <1>1, <1>3, StartType, SizeType, SizesAssumption
  <2>5. Plus(readPos, Distance(1 + 1)) = Start(1 + 1)
    BY <2>4, <1>1, CountersType, PlusOfMinus DEF Distance
  <2>6. Distance(1 + 1) = SizeOf(1)
    BY <2>2, <2>3, <2>4
  <2>. QED BY <2>1, <2>5, <2>6
<1>6. Chained' /\ RecordsIntact' /\ UsedBytes' <= UsedBytes
  <2>1. 1 \in 0 .. Len(records)
    BY <1>3
  <2>. QED BY <2>1, <1>1, <1>4, <1>5, RemoveOldest DEF ConsumerAdvance
<1>7. ProducerInv'
  BY <1>1, <1>6, ProducerGainsRoom DEF ConsumerAdvance
<1>8. consumer'.pc = "count"
  BY <1>1 DEF ConsumerAdvance, TypeOK
<1>9. ConsumerInv'
  BY <1>8 DEF ConsumerInv
<1>10. ClearInv'
  BY <1>2 DEF ClearInv, ConsumerAdvance
<1>. QED BY <1>6, <1>7, <1>9, <1>10 DEF RingInvariant

LEMMA InvConsumerCount ==
    ASSUME RingInvariant, TypeOK', ConsumerCount
    PROVE  RingInvariant'
<1>1. consumer'.pc = "idle"
  BY DEF ConsumerCount, Idle
<1>2. ConsumerInv'
  BY <1>1 DEF ConsumerInv
<1>3. ProducerInv' /\ ClearInv'
  BY <1>1, FrameProducer, FrameClear DEF ConsumerCount, history, RingInvariant
<1>. QED BY <1>2, <1>3, InvFrame DEF ConsumerCount, history

-----------------------------------------------------------------------------
(* The steps of clear(), begin() and end(). *)

LEMMA InvClearLoad ==
    ASSUME RingContract, RingInvariant, TypeOK', ClearLoad
    PROVE  RingInvariant'
<1>1. TypeOK /\ Len(records) \in Nat
  BY LenProperties DEF RingInvariant, TypeOK
<1>2. clearer'.pc = "store" /\ clearer'.write = writePos /\ doomed' = Len(records)
      /\ consumer.pc = "idle" /\ UNCHANGED <<consumer, records, writePos>>
  BY DEF ClearLoad, RingContract, ringVars
<1>3. Start(doomed + 1)' = writePos
  BY <1>1, <1>2 DEF Start
<1>4. ClearInv'
  BY <1>1, <1>2, <1>3 DEF ClearInv
<1>5. ProducerInv' /\ ConsumerInv'
  BY FrameProducer, FrameConsumer DEF ClearLoad, ringVars, RingInvariant
<1>. QED BY <1>4, <1>5, InvFrame DEF ClearLoad, ringVars

LEMMA InvClearStore ==
    ASSUME RingInvariant, TypeOK', ClearStore
    PROVE  RingInvariant'
<1>1. TypeOK /\ Chained /\ RecordsIntact /\ ProducerInv /\ ConsumerInv /\ ClearInv
  BY DEF RingInvariant
<1>2. /\ doomed \in 0 .. Len(records) /\ Len(records) \in Nat
      /\ clearer.write = Start(doomed + 1) /\ consumer.pc = "idle"
  BY <1>1, LenProperties DEF ClearInv, ClearStore, TypeOK
<1>3. PICK k \in 0 .. Len(records) : k = doomed
  BY <1>2
<1>4. /\ Len(records') = Len(records) - k
      /\ \A i \in 1 .. Len(records) - k : records'[i] = records[i + k]
  <2>1. \A i \in k + 1 .. Len(records) : records[i] \in Record
    <3>1. records \in Seq(Record)
      BY <1>1 DEF TypeOK, Record
    <3>. QED BY <3>1, <1>2, ElementOfSeq
  <2>2. records' = SubSeq(records, k + 1, Len(records)) /\ k + 1 \in Int
    BY <1>3 DEF ClearStore
  <2>3. /\ Len(records') = IF k + 1 <= Len(records) THEN Len(records) - (k + 1) + 1 ELSE 0
        /\ \A i \in 1 .. Len(records) - (k + 1) + 1 : records'[i] = records[(k + 1) + i - 1]
    BY <1>2, <2>1, <2>2, SubSeqProperties
  <2>4. \A i \in 1 .. Len(records) - k : records'[i] = records[i + k]
    <3> SUFFICES ASSUME NEW i \in 1 .. Len(records) - k PROVE records'[i] = records[i + k]
      OBVIOUS
    <3>1. i \in 1 .. Len(records) - (k + 1) + 1 /\ (k + 1) + i - 1 = i + k
      BY <1>2
    <3>. QED BY <3>1, <2>3
  <2>5. Len(records') = Len(records) - k
    <3>1. Len(records') = IF k + 1 <= Len(records) THEN Len(records) - (k + 1) + 1 ELSE 0
      BY <2>3
    <3>. QED BY ONLY <3>1, <1>2
  <2>. QED BY <2>4, <2>5
<1>5. readPos' = Start(k + 1)
  BY <1>2, <1>3 DEF ClearStore
<1>6. Chained' /\ RecordsIntact' /\ UsedBytes' <= UsedBytes
  BY <1>1, <1>4, <1>5, RemoveOldest DEF ClearStore
<1>7. ProducerInv'
  BY <1>1, <1>6, ProducerGainsRoom DEF ClearStore
<1>8. ConsumerInv'
  BY <1>2 DEF ConsumerInv, ClearStore
<1>9. ClearInv'
  BY <1>1, <1>2 DEF ClearInv, ClearStore, TypeOK
<1>. QED BY <1>6, <1>7, <1>8, <1>9 DEF RingInvariant

LEMMA InvClearZero ==
    ASSUME RingInvariant, TypeOK', ClearZero
    PROVE  RingInvariant'
<1>1. ClearInv'
  BY DEF RingInvariant, ClearInv, ClearZero, Idle, history
<1>2. ProducerInv' /\ ConsumerInv'
  BY FrameProducer, FrameConsumer DEF ClearZero, history, RingInvariant
<1>. QED BY <1>1, <1>2, InvFrame DEF ClearZero, history

LEMMA InvSetStorage ==
    ASSUME TypeOK', NEW n, SetStorage(n)
    PROVE  RingInvariant'
<1>1. Len(records') = 0 /\ writePos' = 0 /\ readPos' = 0 /\ capacity' \in Nat
  BY SizesAssumption DEF SetStorage, TypeOK
<1>2. Chained'
  BY <1>1 DEF Chained, UsedBytes, Minus, Start
<1>3. RecordsIntact'
  BY <1>1 DEF RecordsIntact
<1>4. ProducerInv' /\ ConsumerInv' /\ ClearInv'
  BY DEF SetStorage, AllIdle, ProducerInv, ConsumerInv, ClearInv, Writing
<1>. QED BY <1>2, <1>3, <1>4 DEF RingInvariant

LEMMA InvNext ==
    ASSUME RingContract, RingInvariant, [Next]_vars
    PROVE  RingInvariant'
<1>1. TypeOK'
  BY TypeNext DEF RingInvariant
<1>2. CASE UNCHANGED vars
  BY <1>1, <1>2, InvFrame, FrameProducer, FrameConsumer, FrameClear
     DEF vars, ringVars, history, RingInvariant
<1>3. ASSUME NEW n \in Capacities, Begin(n) PROVE RingInvariant'
  BY <1>1, <1>3, InvSetStorage DEF Begin
<1>4. CASE End
  BY <1>1, <1>4, InvSetStorage DEF End
<1>5. CASE Push
  BY <1>1, <1>5, InvPushAdmit, InvPushHeader, InvPushPayload, InvPushPublish, InvPushCount
     DEF Push, PushGoesOn
<1>6. CASE Pop \/ Drop \/ Remove
  BY <1>1, <1>6, InvConsumerPeek, InvPopPayload, InvDropReload, InvConsumerAdvance,
     InvConsumerCount DEF Pop, Drop, Remove
<1>7. CASE Clear
  BY <1>1, <1>7, InvClearLoad, InvClearStore, InvClearZero DEF Clear
<1>. QED BY <1>2, <1>3, <1>4, <1>5, <1>6, <1>7 DEF Next

(* The ring invariant holds throughout, with clear() running inside push()  *)
(* or not.                                                                  *)
THEOREM RingInvariantHolds ==
    ASSUME RingContract
    PROVE  Spec => []RingInvariant
<1>1. RingInvariant /\ [Next]_vars => RingInvariant'
  BY InvNext
<1>. QED BY <1>1, InvInit, PTL DEF Spec

(* push() never writes over a byte of a packet that is still stored.        *)
THEOREM StoredPacketsStayIntact ==
    ASSUME RingContract
    PROVE  Spec => []RecordsIntact
<1>1. RingInvariant => RecordsIntact
  BY DEF RingInvariant
<1>. QED BY <1>1, RingInvariantHolds, PTL

(* The cells push() is copying into and the cells pop() may be copying out  *)
(* of are never the same.                                                   *)
THEOREM CopiesNeverMeet ==
    ASSUME RingContract
    PROVE  Spec => []NoTornAccess
<1>1. ASSUME RingInvariant PROVE NoTornAccess
  <2>1. TypeOK /\ Chained /\ ProducerInv
    BY <1>1 DEF RingInvariant
  <2> SUFFICES ASSUME Writing, NEW i \in 1 .. Len(records),
                      NEW j \in 0 .. RecordBytes(producer.pkt) - 1,
                      NEW k \in 0 .. RecordBytes(records[i].pkt) - 1
               PROVE  CellAt(writePos, j) # CellAt(records[i].start, k)
    BY DEF NoTornAccess, CellsOf, Writing
  <2> DEFINE D == Distance(i)
             s == RecordBytes(records[i].pkt)
             t == RecordBytes(producer.pkt)
  <2>2. t \in Nat /\ UsedBytes + t <= capacity /\ capacity # 0
    BY <2>1, RecordBytesType, SizesAssumption DEF TypeOK, Writing, ProducerInv
  <2>3. UsedBytes \in Nat /\ capacity \in Nat /\ readPos \in Positions /\ writePos \in Positions
    BY <2>1, CountersType
  <2>4. D \in Nat /\ s \in Nat /\ D + s <= UsedBytes /\ Plus(readPos, D) = records[i].start
    BY <2>1, RecordInside, SizeType, SizesAssumption DEF SizeOf
  <2>5. Plus(readPos, UsedBytes) = writePos
    BY <2>3, PlusOfMinus DEF UsedBytes
  <2> HIDE DEF D, s, t
  <2>6. j \in Nat /\ UsedBytes + j < capacity /\ k \in Nat /\ D + k < UsedBytes
    BY <2>2, <2>3, <2>4 DEF s, t
  <2>7. CellAt(writePos, j) = CellAt(readPos, UsedBytes + j)
    BY <2>1, <2>2, <2>3, <2>5, <2>6, CellShift
  <2>8. CellAt(records[i].start, k) = CellAt(readPos, D + k)
    BY <2>1, <2>2, <2>3, <2>4, <2>6, CellShift
  <2>9. Index(readPos) \in 0 .. capacity - 1
    BY <2>2, <2>3, IndexType DEF Positions
  <2>. QED BY <2>2, <2>3, <2>4, <2>6, <2>7, <2>8, <2>9 DEF CellAt
<1>. QED BY <1>1, RingInvariantHolds, PTL

(* A set of numbers that is not empty has a least one. *)
LEMMA HasLeast ==
    ASSUME NEW S, S \subseteq Nat, S # {}
    PROVE  \E m \in S : \A j \in S : m <= j
<1>1. PICK i \in S : \A j \in S : ~ (<<j, i>> \in OpToRel(<, Nat))
  BY WFMin, NatLessThanWellFounded, Zenon
<1>2. \A j \in S : ~ (j < i)
  BY <1>1, Zenon DEF OpToRel
<1>. QED BY <1>2

(* The sum of the records' sizes is well defined: the distances from        *)
(* readPos satisfy its equation.                                            *)
LEMMA BytesThroughDef ==
    ASSUME TypeOK, Chained
    PROVE  BytesThrough = [n \in 0 .. Len(records) |->
                             IF n = 0 THEN 0 ELSE BytesThrough[n - 1] + SizeOf(n)]
<1> DEFINE d == [n \in 0 .. Len(records) |-> Distance(n + 1)]
<1>0. Len(records) \in Nat
  BY LenProperties DEF TypeOK
<1>1. ASSUME NEW n \in 0 .. Len(records)
      PROVE  d[n] = IF n = 0 THEN 0 ELSE d[n - 1] + SizeOf(n)
  <2>1. CASE n = 0
    <3>1. Distance(1) = 0
      <4>1. readPos \in Int
        BY CountersType DEF Positions
      <4>. QED BY <4>1 DEF Chained, Distance, Minus
    <3>. QED BY <2>1, <3>1, <1>0
  <2>2. CASE n # 0
    <3>1. n \in 1 .. Len(records) /\ n - 1 \in 0 .. Len(records) /\ (n - 1) + 1 = n
      BY <2>2, <1>0
    <3>2. Distance(n + 1) = Distance(n) + SizeOf(n)
      BY <3>1 DEF Chained
    <3>. QED BY <2>2, <3>1, <3>2
  <2>. QED BY <2>1, <2>2
<1>2. d = [n \in 0 .. Len(records) |-> IF n = 0 THEN 0 ELSE d[n - 1] + SizeOf(n)]
  BY <1>1
<1>3. \E f : f = [n \in 0 .. Len(records) |-> IF n = 0 THEN 0 ELSE f[n - 1] + SizeOf(n)]
  BY <1>2
<1>. QED BY <1>3, Zenon DEF BytesThrough

(* The bytes of the records stored are the bytes between the counters.      *)
LEMMA StoredIsUsed ==
    ASSUME TypeOK, Chained
    PROVE  StoredBytes = UsedBytes
<1>0. PICK n \in Nat : n = Len(records)
  BY LenProperties DEF TypeOK
<1>1. /\ BytesThrough[0] = 0
      /\ \A i \in 1 .. n : BytesThrough[i] = BytesThrough[i - 1] + SizeOf(i)
  BY <1>0, BytesThroughDef
<1> DEFINE Wrong == {i \in 0 .. n : BytesThrough[i] # Distance(i + 1)}
<1>2. Wrong = {}
  <2> SUFFICES ASSUME Wrong # {} PROVE FALSE
    OBVIOUS
  <2>0. Wrong \subseteq Nat
    OBVIOUS
  <2>1. PICK m \in Wrong : \A j \in Wrong : m <= j
    BY <2>0, HasLeast
  <2>2. m \in 0 .. n /\ BytesThrough[m] # Distance(m + 1)
    OBVIOUS
  <2> HIDE DEF Wrong
  <2>3. m # 0
    <3>1. Distance(1) = 0
      <4>1. readPos \in Int
        BY CountersType DEF Positions
      <4>. QED BY <4>1 DEF Chained, Distance, Minus
    <3>. QED BY <2>2, <3>1, <1>1
  <2>4. BytesThrough[m - 1] = Distance(m)
    <3>1. m - 1 \in 0 .. n /\ ~ (m <= m - 1) /\ (m - 1) + 1 = m
      BY <2>2, <2>3
    <3>2. m - 1 \notin Wrong
      BY <2>1, <3>1
    <3>. QED BY <3>1, <3>2 DEF Wrong
  <2>5. m \in 1 .. n /\ Distance(m + 1) = Distance(m) + SizeOf(m)
    BY <2>2, <2>3, <1>0 DEF Chained
  <2>. QED BY <2>2, <2>4, <2>5, <1>1
<1>3. BytesThrough[n] = Distance(n + 1)
  BY <1>2
<1>4. Distance(n + 1) = UsedBytes
  BY <1>0 DEF Distance, Start, UsedBytes
<1>. QED BY <1>0, <1>3, <1>4 DEF StoredBytes

(* push() refuses a packet for want of room exactly when the packets stored *)
(* leave less than it needs, whatever was popped, dropped, cleared or       *)
(* wrapped before.                                                          *)
THEOREM RoomStaysExact ==
    ASSUME RingContract
    PROVE  Spec => []RoomIsExact
<1>1. ASSUME RingInvariant PROVE RoomIsExact
  <2>1. TypeOK /\ Chained
    BY <1>1 DEF RingInvariant
  <2>2. /\ UsedBytes \in Nat /\ capacity \in Nat /\ UsedBytes <= capacity
        /\ StoredBytes = UsedBytes
    BY <2>1, CountersType, StoredIsUsed DEF Chained
  <2> SUFFICES ASSUME capacity # 0, NEW p \in Packets, Acceptable(p)
               PROVE  Fits(p) <=> UsedBytes + RecordBytes(p) <= capacity
    BY <2>2 DEF RoomIsExact
  <2>3. RecordBytes(p) \in Nat
    BY RecordBytesType, SizesAssumption
  <2>. QED BY <2>2, <2>3 DEF Fits, Minus
<1>. QED BY <1>1, RingInvariantHolds, PTL

-----------------------------------------------------------------------------
(* The packet count. *)

(* A record takes at least one byte, so there are fewer records than counter *)
(* values.                                                                   *)
LEMMA FewRecords ==
    ASSUME TypeOK, Chained
    PROVE  Len(records) \in Positions
<1>0. PICK n \in Nat : n = Len(records)
  BY LenProperties DEF TypeOK
<1> DEFINE Wrong == {i \in 0 .. n : ~ (i <= Distance(i + 1))}
<1>1. \A i \in 0 .. n : Distance(i + 1) \in Positions /\ Distance(i + 1) \in Int
  BY StartType, SizesAssumption DEF Positions
<1>2. Wrong = {}
  <2> SUFFICES ASSUME Wrong # {} PROVE FALSE
    OBVIOUS
  <2>0. Wrong \subseteq Nat
    OBVIOUS
  <2>1. PICK m \in Wrong : \A j \in Wrong : m <= j
    BY <2>0, HasLeast
  <2>2. m \in 0 .. n /\ ~ (m <= Distance(m + 1))
    OBVIOUS
  <2> HIDE DEF Wrong
  <2>3. m # 0
    BY <2>2, <1>1, SizesAssumption DEF Positions
  <2>4. m - 1 <= Distance(m)
    <3>1. m - 1 \in 0 .. n /\ ~ (m <= m - 1) /\ (m - 1) + 1 = m
      BY <2>2, <2>3
    <3>2. m - 1 \notin Wrong
      BY <2>1, <3>1
    <3>. QED BY <3>1, <3>2 DEF Wrong
  <2>5. m \in 1 .. n /\ Distance(m + 1) = Distance(m) + SizeOf(m)
    BY <2>2, <2>3, <1>0 DEF Chained
  <2>6. SizeOf(m) \in Nat /\ SizeOf(m) >= 1
    BY <2>5, <1>0, SizeType, SizesAssumption
  <2>7. Distance(m) \in Int
    <3>1. m - 1 \in 0 .. n /\ (m - 1) + 1 = m
      BY <2>5
    <3>. QED BY <3>1, <1>1
  <2>. QED BY <2>2, <2>4, <2>5, <2>6, <2>7
<1>3. n <= Distance(n + 1) /\ Distance(n + 1) \in Positions
  BY <1>1, <1>2
<1>. QED BY <1>0, <1>3, SizesAssumption DEF Positions

Countable == Len(records) \in Positions

LEMMA RecordsCountable == RingInvariant => Countable
BY FewRecords DEF RingInvariant, Countable

LEMMA RecordsCountableNext == RingInvariant' => Countable'
BY RecordsCountable, PTL

LEMMA CountInit == Init => CountsEven
BY EmptySeq, SizesAssumption DEF Init, CountsEven, CountTallies, CountDue, Idle, Plus

(* A step that moves neither the records nor a call that is counting.       *)
LEMMA CountFrame ==
    ASSUME CountTallies, UNCHANGED <<packets, records, doomed, clearer>>,
           CountDue(producer)' = CountDue(producer),
           CountDue(consumer)' = CountDue(consumer),
           producer.pc = "idle" /\ clearer.pc # "idle" => producer'.pc = "idle"
    PROVE  CountTallies'
BY DEF CountTallies, Plus

(* Only clear() and begin() or end() forget that a clear() met a push().    *)
LEMMA OverlapStays ==
    ASSUME [Next]_vars, overlapped
    PROVE  overlapped' \/ ClearLoad \/ \E n \in Capacities \cup {0} : SetStorage(n)
<1>1. CASE UNCHANGED vars
  BY <1>1 DEF vars, history
<1>2. ASSUME NEW p \in Packets, PushAdmit(p) PROVE overlapped'
  BY <1>2, Zenon DEF PushAdmit
<1>3. CASE PushGoesOn
  BY <1>3, Zenon DEF PushGoesOn, PushHeader, PushPayload, PushPublish, PushCount, history
<1>4. ASSUME NEW op \in {"pop", "drop"}, ConsumerPeek(op) PROVE overlapped'
  BY <1>4, Zenon DEF ConsumerPeek, history
<1>5. CASE PopPayload \/ DropReload
  BY <1>5, Zenon DEF PopPayload, DropReload, history
<1>6. CASE Remove
  BY <1>6, Zenon DEF Remove, ConsumerAdvance, ConsumerCount, history
<1>7. CASE ClearStore \/ ClearZero
  BY <1>7, Zenon DEF ClearStore, ClearZero, history
<1>. QED
  BY <1>1, <1>2, <1>3, <1>4, <1>5, <1>6, <1>7
     DEF Next, Begin, End, Push, Pop, Drop, Clear

LEMMA CountNext ==
    ASSUME RingInvariant, RingInvariant', CountsEven, [Next]_vars
    PROVE  CountsEven'
<1> SUFFICES ASSUME ~ overlapped' PROVE CountTallies'
  BY DEF CountsEven
<1> USE DEF CountDue
<1>0. /\ TypeOK /\ Chained /\ ConsumerInv /\ ClearInv /\ TypeOK'
      /\ packets \in Positions /\ Len(records) \in Positions /\ Len(records') \in Positions
      /\ SizeMod \in Nat \ {0}
  <2>1. Len(records) \in Positions /\ Len(records') \in Positions
    BY RecordsCountable, RecordsCountableNext DEF Countable, Positions
  <2>. QED BY <2>1, SizesAssumption DEF RingInvariant, TypeOK
<1>a. CountTallies \/ ClearLoad \/ \E n \in Capacities \cup {0} : SetStorage(n)
  BY OverlapStays DEF CountsEven
<1>1. ASSUME CountTallies, UNCHANGED vars PROVE CountTallies'
  BY <1>1, CountFrame DEF vars, ringVars, history
<1>2. ASSUME NEW n \in Capacities \cup {0}, SetStorage(n) PROVE CountTallies'
  BY <1>2, <1>0, EmptySeq DEF SetStorage, AllIdle, CountTallies, Plus
<1>3. ASSUME CountTallies, NEW p \in Packets, PushAdmit(p) PROVE CountTallies'
  BY <1>3, CountFrame DEF PushAdmit, ringVars
<1>4. ASSUME CountTallies, PushHeader \/ PushPayload PROVE CountTallies'
  <2>1. producer'.pc # "count" /\ producer.pc # "count" /\ producer.pc # "idle"
    BY <1>4, <1>0 DEF PushHeader, PushPayload, TypeOK
  <2>. QED BY <1>4, <2>1, CountFrame DEF PushHeader, PushPayload, history
<1>5. ASSUME CountTallies, PushPublish PROVE CountTallies'
  <2>1. /\ producer.pc = "publish" /\ producer'.pc = "count" /\ clearer.pc = "idle"
        /\ clearer' = clearer /\ packets' = packets /\ consumer' = consumer
    BY <1>5, <1>0 DEF PushPublish, TypeOK, CountTallies
  <2>2. Len(records') = Len(records) + 1
    <3>1. records \in Seq(Record) /\ [start |-> writePos, pkt |-> producer.pkt] \in Record
      BY <1>0, <2>1 DEF TypeOK, Record
    <3>. QED BY <3>1, <1>5, AppendProperties DEF PushPublish
  <2>. QED BY <1>5, <2>1, <2>2, <1>0 DEF CountTallies, Plus, Positions
<1>6. ASSUME CountTallies, PushCount PROVE CountTallies'
  <2>1. /\ producer.pc = "count" /\ producer'.pc = "idle" /\ clearer.pc = "idle"
        /\ clearer' = clearer /\ packets' = Plus(packets, 1)
        /\ consumer' = consumer /\ records' = records
    BY <1>6, <1>0 DEF PushCount, Idle, CountTallies, history
  <2>. QED BY <1>6, <2>1, <1>0 DEF CountTallies, Plus, Positions
<1>7. ASSUME NEW op \in {"pop", "drop"}, CountTallies, ConsumerPeek(op) PROVE CountTallies'
  BY <1>7, CountFrame DEF ConsumerPeek, Idle, ringVars, history
<1>8. ASSUME CountTallies, PopPayload \/ DropReload PROVE CountTallies'
  <2>1. consumer.pc = "payload" /\ consumer'.pc = "advance"
    BY <1>8, <1>0 DEF PopPayload, DropReload, TypeOK
  <2>. QED BY <1>8, <2>1, CountFrame DEF PopPayload, DropReload, ringVars, history
<1>9. ASSUME CountTallies, ConsumerAdvance PROVE CountTallies'
  <2>1. /\ consumer.pc = "advance" /\ consumer'.pc = "count" /\ clearer.pc = "idle"
        /\ clearer' = clearer /\ packets' = packets /\ producer' = producer
    BY <1>9, <1>0 DEF ConsumerAdvance, TypeOK, ClearInv
  <2>2. Len(records') = Len(records) - 1
    <3>1. records # <<>>
      BY <2>1, <1>0 DEF ConsumerInv
    <3>. QED BY <3>1, <1>9, <1>0, HeadTailProperties DEF ConsumerAdvance, Rest, TypeOK
  <2>. QED BY <1>9, <2>1, <2>2, <1>0 DEF CountTallies, Plus, Positions
<1>10. ASSUME CountTallies, ConsumerCount PROVE CountTallies'
  <2>1. /\ consumer.pc = "count" /\ consumer'.pc = "idle" /\ clearer.pc = "idle"
        /\ clearer' = clearer /\ packets' = Minus(packets, 1)
        /\ producer' = producer /\ records' = records
    BY <1>10, <1>0 DEF ConsumerCount, Idle, ClearInv, history
  <2>. QED BY <1>10, <2>1, <1>0 DEF CountTallies, Plus, Minus, Positions
<1>11. CASE ClearLoad
  BY <1>11, <1>0 DEF ClearLoad, CountTallies
<1>12. ASSUME CountTallies, ClearStore PROVE CountTallies'
  <2>1. doomed = Len(records) /\ producer.pc = "idle" /\ clearer.pc = "store"
    BY <1>12 DEF ClearStore, CountTallies
  <2>2. records' = <<>>
    <3>1. records \in Seq(Record)
      BY <1>0 DEF TypeOK, Record
    <3>. QED BY <3>1, <2>1, <1>12, <1>0, SubSeqProperties, EmptySeq DEF ClearStore, Positions
  <2>. QED BY <2>1, <2>2, <1>12 DEF ClearStore, CountTallies
<1>13. ASSUME CountTallies, ClearZero PROVE CountTallies'
  <2>1. /\ producer.pc = "idle" /\ consumer.pc = "idle" /\ records = <<>>
        /\ producer' = producer /\ consumer' = consumer /\ records' = records
        /\ packets' = 0 /\ clearer'.pc = "idle"
    BY <1>13, <1>0 DEF ClearZero, CountTallies, ClearInv, Idle, history
  <2>. QED BY <2>1, EmptySeq DEF CountTallies
<1>. QED
  BY <1>a, <1>1, <1>2, <1>3, <1>4, <1>5, <1>6, <1>7, <1>8, <1>9, <1>10, <1>11, <1>12, <1>13
     DEF Next, Begin, End, Push, PushGoesOn, Pop, Drop, Remove, Clear

(* The packet count is off by at most the calls that have yet to count,     *)
(* unless the latest clear() met a push(), wherever clear() runs otherwise. *)
THEOREM CountsStayEven ==
    ASSUME RingContract
    PROVE  Spec => [](RingInvariant /\ CountsEven)
<1>1. Init => RingInvariant /\ CountsEven
  BY InvInit, CountInit
<1>2. RingInvariant /\ CountsEven /\ [Next]_vars => (RingInvariant /\ CountsEven)'
  <2> SUFFICES ASSUME RingInvariant, CountsEven, [Next]_vars
               PROVE  RingInvariant' /\ CountsEven'
    OBVIOUS
  <2>1. RingInvariant'
    BY InvNext
  <2>. QED BY <2>1, CountNext
<1>. QED BY <1>1, <1>2, PTL DEF Spec

(* ... so that packetCount() is exact when nobody is inside a call and the  *)
(* latest clear() met no push().                                            *)
THEOREM CountIsRightAtRest ==
    ASSUME RingContract
    PROVE  Spec => []CountMatchesAtRest
<1>1. ASSUME RingInvariant, CountsEven PROVE CountMatchesAtRest
  <2>1. packets \in Positions /\ Len(records) \in Positions
    BY <1>1, RecordsCountable DEF RingInvariant, TypeOK, Countable
  <2> SUFFICES ASSUME AllIdle, CountTallies PROVE packets = Len(records)
    BY <1>1 DEF CountMatchesAtRest, CountsEven
  <2>. QED BY <2>1, SizesAssumption DEF CountTallies, CountDue, AllIdle, Plus, Positions
<1>. QED BY <1>1, CountsStayEven, PTL

LEMMA EndIsNextStart ==
    ASSUME TypeOK, Chained, NEW i \in 1 .. Len(records)
    PROVE  RecordEnd(records[i]) = Start(i + 1)
<1>1. /\ Distance(i) \in Nat /\ SizeOf(i) \in Nat /\ Len(records) \in Nat
      /\ Distance(i) + SizeOf(i) < SizeMod
  <2>1. SizeOf(i) \in Nat /\ Len(records) \in Nat
    BY SizeType, RecordType, SizesAssumption
  <2>2. UsedBytes < SizeMod
    <3>1. UsedBytes \in Positions
      BY CountersType, MinusType DEF UsedBytes
    <3>. QED BY <3>1, SizesAssumption DEF Positions
  <2>. QED BY <2>1, <2>2, RecordInside, SizesAssumption
<1>2. Plus(Plus(readPos, Distance(i)), SizeOf(i)) = Plus(readPos, Distance(i) + SizeOf(i))
  BY <1>1, CountersType, PlusOfPlus
<1>3. Plus(readPos, Distance(i + 1)) = Start(i + 1)
  BY <1>1, StartType, CountersType, PlusOfMinus DEF Distance
<1>4. Distance(i + 1) = Distance(i) + SizeOf(i)
  BY DEF Chained
<1>5. Plus(readPos, Distance(i)) = records[i].start
  BY RecordInside
<1>. QED BY <1>2, <1>3, <1>4, <1>5 DEF RecordEnd, SizeOf

(* The stored records lie end to end from readPos to writePos, and never    *)
(* hold more bytes than the ring has.                                       *)
THEOREM RecordsStayChained ==
    ASSUME RingContract
    PROVE  Spec => []RecordsChained
<1>1. ASSUME RingInvariant PROVE RecordsChained
  <2>1. TypeOK /\ Chained /\ UsedBytes <= capacity
    BY <1>1 DEF RingInvariant, Chained
  <2>2. PICK n \in Nat : n = Len(records)
    BY <2>1, LenProperties DEF TypeOK
  <2>3. \A i \in 1 .. n : RecordEnd(records[i]) = Start(i + 1)
    BY <2>1, <2>2, EndIsNextStart
  <2>4. \A i \in 1 .. n - 1 : records[i + 1].start = RecordEnd(records[i])
    <3> SUFFICES ASSUME NEW i \in 1 .. n - 1
                 PROVE  records[i + 1].start = RecordEnd(records[i])
      OBVIOUS
    <3>1. i \in 1 .. n /\ i + 1 <= Len(records)
      BY <2>2
    <3>. QED BY <3>1, <2>3 DEF Start
  <2>5. \A i \in 1 .. n :
           Minus(records[i].start, readPos) + RecordBytes(records[i].pkt) <= UsedBytes
    <3> SUFFICES ASSUME NEW i \in 1 .. n
                 PROVE  Minus(records[i].start, readPos) + RecordBytes(records[i].pkt) <= UsedBytes
      OBVIOUS
    <3>1. Distance(i) + SizeOf(i) <= UsedBytes /\ i <= Len(records)
      BY <2>1, <2>2, RecordInside
    <3>. QED BY <3>1 DEF Distance, Start, SizeOf
  <2>6. CASE n = 0
    <3>1. readPos = writePos /\ records = <<>>
      BY <2>6, <2>1, <2>2, EmptySeq DEF Chained, Start, TypeOK
    <3>. QED BY <3>1, <2>1, <2>2, <2>4, <2>5 DEF RecordsChained
  <2>7. CASE n # 0
    <3>1. 1 \in 1 .. n /\ n \in 1 .. n /\ records # <<>>
      BY <2>7, <2>2
    <3>2. records[1].start = readPos
      BY <3>1, <2>1, <2>2 DEF Chained, Start
    <3>3. Start(n + 1) = writePos
      BY <2>2 DEF Start
    <3>4. RecordEnd(records[n]) = writePos
      BY <3>1, <3>3, <2>3
    <3>5. readPos # writePos
      <4>1. Distance(1) + SizeOf(1) <= UsedBytes /\ Distance(1) \in Nat /\ UsedBytes \in Nat
        BY <3>1, <2>1, <2>2, RecordInside
      <4>2. SizeOf(1) \in Nat \ {0}
        BY <3>1, <2>1, <2>2, SizeType, SizesAssumption
      <4>3. UsedBytes # 0
        BY <4>1, <4>2
      <4>. QED BY <4>3, <2>1, CountersType DEF UsedBytes, Minus, Positions
    <3>. QED BY <3>1, <3>2, <3>4, <3>5, <2>1, <2>2, <2>4, <2>5 DEF RecordsChained
  <2>. QED BY <2>6, <2>7
<1>. QED BY <1>1, RingInvariantHolds, PTL

-----------------------------------------------------------------------------
(* The ring implements the first-in first-out queue. *)

StoredShape ==
    /\ Len(records) - doomed \in Nat
    /\ StoredPackets \in Seq(Packets)
    /\ Len(StoredPackets) = Len(records) - doomed
    /\ \A i \in 1 .. Len(records) - doomed : StoredPackets[i] = records[doomed + i].pkt

LEMMA StoredType == RingInvariant => StoredShape
<1> SUFFICES ASSUME RingInvariant PROVE StoredShape
  OBVIOUS
<1>1. TypeOK /\ Len(records) \in Nat /\ doomed \in 0 .. Len(records)
  <2>1. TypeOK /\ Len(records) \in Nat /\ doomed \in Nat
    BY LenProperties DEF RingInvariant, TypeOK
  <2>. QED BY <2>1 DEF RingInvariant, ClearInv
<1>2. \A i \in 1 .. Len(records) - doomed : records[doomed + i].pkt \in Packets
  <2> SUFFICES ASSUME NEW i \in 1 .. Len(records) - doomed
               PROVE  records[doomed + i].pkt \in Packets
    OBVIOUS
  <2>1. doomed + i \in 1 .. Len(records)
    BY <1>1
  <2>. QED BY <2>1, <1>1, RecordType
<1>. QED BY <1>1, <1>2 DEF StoredPackets, StoredShape

LEMMA StoredTypeNext == RingInvariant' => StoredShape'
BY StoredType, PTL

LEMMA StoredFrame ==
    ASSUME UNCHANGED <<records, doomed, delivered>>
    PROVE  UNCHANGED Fifo!vars
BY DEF Fifo!vars, StoredPackets

LEMMA PublishAccepts ==
    ASSUME RingInvariant, RingInvariant', PushPublish
    PROVE  \E p \in Packets : Fifo!Accept(p)
<1> DEFINE p == producer.pkt
           m == Len(records) - doomed
<1>1. TypeOK /\ p \in Packets /\ Acceptable(p)
  BY DEF RingInvariant, TypeOK, PushPublish
<1>2. /\ Len(records) \in Nat /\ doomed \in Nat /\ m \in Nat /\ doomed' = doomed
      /\ StoredPackets \in Seq(Packets) /\ Len(StoredPackets) = m
      /\ \A i \in 1 .. m : StoredPackets[i] = records[doomed + i].pkt
  BY <1>1, StoredType, LenProperties DEF TypeOK, PushPublish, StoredShape
<1>3. /\ Len(records') = Len(records) + 1
      /\ \A i \in 1 .. Len(records) : records'[i] = records[i]
      /\ records'[Len(records) + 1].pkt = p
  <2>1. records \in Seq(Record) /\ [start |-> writePos, pkt |-> p] \in Record
    BY <1>1 DEF TypeOK, Record
  <2>. QED BY <2>1, AppendProperties DEF PushPublish
<1>4. /\ StoredPackets' \in Seq(Packets) /\ Len(StoredPackets') = m + 1
      /\ \A i \in 1 .. m + 1 : StoredPackets'[i] = records'[doomed + i].pkt
  <2>1. /\ StoredPackets' \in Seq(Packets)
        /\ Len(StoredPackets') = Len(records') - doomed'
        /\ \A i \in 1 .. Len(records') - doomed' : StoredPackets'[i] = records'[doomed' + i].pkt
    BY StoredTypeNext DEF StoredShape
  <2>2. Len(records') - doomed' = m + 1
    BY <1>2, <1>3
  <2>. QED BY <2>1, <2>2, <1>2
<1> HIDE DEF p
<1>5. StoredPackets' = Append(StoredPackets, p)
  <2>1. /\ Append(StoredPackets, p) \in Seq(Packets)
        /\ Len(Append(StoredPackets, p)) = m + 1
        /\ \A i \in 1 .. m : Append(StoredPackets, p)[i] = StoredPackets[i]
        /\ Append(StoredPackets, p)[m + 1] = p
    BY <1>1, <1>2, AppendProperties
  <2>2. ASSUME NEW i \in 1 .. m + 1
        PROVE  StoredPackets'[i] = Append(StoredPackets, p)[i]
    <3>1. CASE i = m + 1
      <4>1. doomed + i = Len(records) + 1
        BY <3>1, <1>2
      <4>2. StoredPackets'[i] = records'[doomed + i].pkt
        BY <1>4
      <4>. QED BY <3>1, <4>1, <4>2, <1>3, <2>1
    <3>2. CASE i # m + 1
      <4>1. i \in 1 .. m /\ doomed + i \in 1 .. Len(records)
        BY <3>2, <1>2
      <4>2. StoredPackets'[i] = records'[doomed + i].pkt
        BY <1>4
      <4>3. StoredPackets[i] = records[doomed + i].pkt
        BY <4>1, <1>2
      <4>4. Append(StoredPackets, p)[i] = StoredPackets[i]
        BY <4>1, <2>1
      <4>. QED BY <4>1, <4>2, <4>3, <4>4, <1>3
    <3>. QED BY <3>1, <3>2
  <2>. QED BY <2>1, <2>2, <1>4, SeqEqual
<1>6. delivered' = delivered
  BY DEF PushPublish
<1>. QED BY <1>1, <1>5, <1>6 DEF Fifo!Accept

LEMMA AdvanceTakes ==
    ASSUME RingInvariant, RingInvariant', ConsumerAdvance
    PROVE  Fifo!Take \/ Fifo!Discard
<1>1. /\ TypeOK /\ doomed = 0 /\ doomed' = 0 /\ records # <<>>
      /\ consumer.op \in {"pop", "drop"}
      /\ consumer.op = "pop" => consumer.out = records[1].pkt
  BY DEF RingInvariant, ConsumerInv, ClearInv, ConsumerAdvance
<1>2. /\ Len(records') = Len(records) - 1 /\ Len(records) \in Nat \ {0}
      /\ \A i \in 1 .. Len(records) - 1 : records'[i] = records[i + 1]
  BY <1>1, EmptySeq, HeadTailProperties DEF ConsumerAdvance, Rest, TypeOK
<1>3. /\ StoredPackets \in Seq(Packets) /\ Len(StoredPackets) = Len(records)
      /\ \A i \in 1 .. Len(records) : StoredPackets[i] = records[i].pkt
  BY <1>1, <1>2, StoredType DEF StoredShape
<1>4. /\ StoredPackets' \in Seq(Packets) /\ Len(StoredPackets') = Len(records) - 1
      /\ \A i \in 1 .. Len(records) - 1 : StoredPackets'[i] = records[i + 1].pkt
  <2>1. /\ StoredPackets' \in Seq(Packets)
        /\ Len(StoredPackets') = Len(records') - doomed'
        /\ \A i \in 1 .. Len(records') - doomed' : StoredPackets'[i] = records'[doomed' + i].pkt
    BY StoredTypeNext DEF StoredShape
  <2>. QED BY <2>1, <1>1, <1>2
<1>5. StoredPackets # <<>> /\ Head(StoredPackets) = records[1].pkt
  BY <1>2, <1>3
<1>6. StoredPackets' = Tail(StoredPackets)
  <2>1. /\ Tail(StoredPackets) \in Seq(Packets)
        /\ Len(Tail(StoredPackets)) = Len(records) - 1
        /\ \A i \in 1 .. Len(records) - 1 : Tail(StoredPackets)[i] = StoredPackets[i + 1]
    BY <1>3, <1>5, HeadTailProperties
  <2>2. \A i \in 1 .. Len(records) - 1 : StoredPackets'[i] = Tail(StoredPackets)[i]
    <3> SUFFICES ASSUME NEW i \in 1 .. Len(records) - 1
                 PROVE  StoredPackets'[i] = Tail(StoredPackets)[i]
      OBVIOUS
    <3>1. i + 1 \in 1 .. Len(records)
      BY <1>2
    <3>. QED BY <3>1, <2>1, <1>3, <1>4
  <2>. QED BY <2>1, <2>2, <1>4, SeqEqual
<1>7. delivered' = IF consumer.op = "pop" THEN records[1].pkt ELSE delivered
  BY <1>1 DEF ConsumerAdvance
<1>. QED BY <1>5, <1>6, <1>7 DEF Fifo!Take, Fifo!Discard

LEMMA NothingLeft ==
    ASSUME RingInvariant', Len(records') = doomed', delivered' = delivered
    PROVE  Fifo!Empty
<1>1. doomed' \in Nat
  BY DEF RingInvariant, TypeOK
<1>2. Len(records') - doomed' = 0
  <2>1. \A m \in Nat : m - m = 0
    OBVIOUS
  <2>2. doomed' - doomed' = 0
    BY ONLY <1>1, <2>1, Zenon
  <2>. QED BY <2>2, Zenon
<1>3. StoredPackets' \in Seq(Packets) /\ Len(StoredPackets') = 0
  BY <1>2, StoredTypeNext DEF StoredShape
<1>. QED BY <1>3, EmptySeq DEF Fifo!Empty

LEMMA ClearEmpties ==
    ASSUME RingInvariant', ClearLoad \/ (\E n \in Nat : SetStorage(n))
    PROVE  Fifo!Empty
<1>1. Len(records') = doomed' /\ delivered' = delivered
  BY DEF ClearLoad, SetStorage
<1>. QED BY <1>1, NothingLeft

LEMMA ClearStoreStutters ==
    ASSUME RingInvariant, RingInvariant', ClearStore
    PROVE  UNCHANGED Fifo!vars
<1>1. /\ TypeOK /\ doomed' = 0 /\ delivered' = delivered
      /\ records' = SubSeq(records, doomed + 1, Len(records))
      /\ doomed \in Nat /\ Len(records) \in Nat /\ doomed <= Len(records)
  BY LenProperties DEF RingInvariant, ClearInv, ClearStore, TypeOK
<1> DEFINE m == Len(records) - doomed
<1>2. Len(records') = m /\ \A i \in 1 .. m : records'[i] = records[doomed + i]
  <2>1. \A i \in doomed + 1 .. Len(records) : records[i] \in Record
    <3>1. records \in Seq(Record)
      BY <1>1 DEF TypeOK, Record
    <3>. QED BY <3>1, <1>1, ElementOfSeq
  <2>2. /\ Len(records') = IF doomed + 1 <= Len(records) THEN Len(records) - (doomed + 1) + 1 ELSE 0
        /\ \A i \in 1 .. Len(records) - (doomed + 1) + 1 : records'[i] = records[(doomed + 1) + i - 1]
    <3>1. doomed + 1 \in Int /\ Len(records) \in Int
      BY <1>1
    <3>. QED BY <1>1, <2>1, <3>1, SubSeqProperties
  <2>3. ASSUME NEW i \in 1 .. m PROVE records'[i] = records[doomed + i]
    <3>1. i \in 1 .. Len(records) - (doomed + 1) + 1 /\ (doomed + 1) + i - 1 = doomed + i
      BY <1>1
    <3>. QED BY <3>1, <2>2
  <2>. QED BY <1>1, <2>2, <2>3
<1>3. /\ StoredPackets \in Seq(Packets) /\ Len(StoredPackets) = m /\ m \in Nat
      /\ \A i \in 1 .. m : StoredPackets[i] = records[doomed + i].pkt
  BY StoredType DEF StoredShape
<1>4. /\ StoredPackets' \in Seq(Packets) /\ Len(StoredPackets') = m
      /\ \A i \in 1 .. m : StoredPackets'[i] = records'[i].pkt
  <2>1. /\ StoredPackets' \in Seq(Packets)
        /\ Len(StoredPackets') = Len(records') - doomed'
        /\ \A i \in 1 .. Len(records') - doomed' : StoredPackets'[i] = records'[doomed' + i].pkt
    BY StoredTypeNext DEF StoredShape
  <2>2. Len(records') - doomed' = m /\ \A i \in 1 .. m : doomed' + i = i
    BY <1>1, <1>2
  <2>. QED BY <2>1, <2>2
<1>5. StoredPackets' = StoredPackets
  BY <1>2, <1>3, <1>4, SeqEqual
<1>. QED BY <1>1, <1>5 DEF Fifo!vars

LEMMA StepImplements ==
    ASSUME RingInvariant, RingInvariant', [Next]_vars
    PROVE  [Fifo!Next]_(Fifo!vars)
<1>1. CASE UNCHANGED vars
  BY <1>1, StoredFrame DEF vars, history
<1>2. ASSUME NEW n \in Capacities, Begin(n) PROVE Fifo!Empty
  <2>1. (IF n > HeaderBytes THEN n ELSE 0) \in Nat
    BY SizesAssumption
  <2>2. SetStorage(IF n > HeaderBytes THEN n ELSE 0)
    BY <1>2 DEF Begin
  <2>. QED BY <2>1, <2>2, ClearEmpties
<1>3. CASE End
  BY <1>3, ClearEmpties DEF End, Fifo!Next
<1>4. CASE PushPublish
  BY <1>4, PublishAccepts DEF Fifo!Next
<1>5. CASE (\E p \in Packets : PushAdmit(p)) \/ PushHeader \/ PushPayload \/ PushCount
  BY <1>5, StoredFrame DEF PushAdmit, PushHeader, PushPayload, PushCount, history
<1>6. CASE ConsumerAdvance
  BY <1>6, AdvanceTakes DEF Fifo!Next
<1>7. CASE Pop \/ Drop \/ ConsumerCount
  BY <1>7, StoredFrame DEF Pop, Drop, ConsumerPeek, PopPayload, DropReload, ConsumerCount, history
<1>8. CASE ClearLoad
  BY <1>8, ClearEmpties DEF Fifo!Next
<1>9. CASE ClearStore
  BY <1>9, ClearStoreStutters
<1>10. CASE ClearZero
  BY <1>10, StoredFrame DEF ClearZero, history
<1>. QED
  BY <1>1, <1>2, <1>3, <1>4, <1>5, <1>6, <1>7, <1>8, <1>9, <1>10
     DEF Next, Push, PushGoesOn, Remove, Clear, Fifo!Next

LEMMA InitImplements == Init => Fifo!Init
<1> SUFFICES ASSUME Init PROVE Fifo!Init
  OBVIOUS
<1>1. RingInvariant /\ Len(records) - doomed = 0
  BY InvInit DEF Init
<1>2. StoredPackets \in Seq(Packets) /\ Len(StoredPackets) = 0
  BY <1>1, StoredType DEF StoredShape
<1>. QED BY <1>2, EmptySeq DEF Init, Fifo!Init

(* What pop() hands out is the oldest packet stored, whole and unaltered;   *)
(* push() adds behind the others; clear() empties the queue at one instant, *)
(* also when it runs inside push().                                         *)
THEOREM RingImplementsFifo ==
    ASSUME RingContract
    PROVE  Spec => ImplementsFifo
<1>1. RingInvariant /\ RingInvariant' /\ [Next]_vars => [Fifo!Next]_(Fifo!vars)
  BY StepImplements
<1>. QED
  BY <1>1, InitImplements, RingInvariantHolds, PTL DEF Spec, ImplementsFifo, Fifo!Spec
=============================================================================
