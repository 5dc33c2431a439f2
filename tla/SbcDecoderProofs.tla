-------------------------- MODULE SbcDecoderProofs --------------------------
(***************************************************************************)
(* Theorems about SbcDecoder, for every packet of every length, every kind *)
(* of header and every size of one.                                        *)
(***************************************************************************)
EXTENDS SbcDecoder, SequenceTheorems, FiniteSetTheorems, WellFoundedInduction, TLAPS

-----------------------------------------------------------------------------
(* The helpers. *)

(* A set of numbers that is not empty has an earliest one.                  *)
LEMMA EarliestIsLeast ==
    ASSUME NEW S, S \subseteq Nat, S # {}
    PROVE  Earliest(S) \in S /\ \A j \in S : Earliest(S) <= j
<1>1. PICK i \in S : \A j \in S : ~ (<<j, i>> \in OpToRel(<, Nat))
  BY WFMin, NatLessThanWellFounded, Zenon
<1>2. \A j \in S : ~ (j < i)
  BY <1>1, Zenon DEF OpToRel
<1>3. \A j \in S : i <= j
  BY <1>2
<1>4. \E k \in S : \A j \in S : k <= j
  BY <1>3
<1>. QED BY <1>4, Zenon DEF Earliest

LEMMA PacketType ==
    ASSUME NEW p \in Packets
    PROVE  /\ p \in Seq(Headers \cup {Plain})
           /\ Len(p) \in 1 .. MaxBytes
           /\ p # <<>>
           /\ \A i \in 1 .. Len(p) : p[i] \in Headers \cup {Plain}
<1>1. PICK n \in 1 .. MaxBytes : p \in [1 .. n -> Headers \cup {Plain}]
  BY DEF Packets
<1>2. n \in Nat
  BY FramingAssumption
<1>3. p \in Seq(Headers \cup {Plain})
  BY <1>1, <1>2, IsASeq
<1>4. Len(p) = n
  BY <1>1, <1>2, <1>3, LenProperties
<1>5. p # <<>>
  BY <1>4, <1>1, EmptySeq
<1>. QED BY <1>1, <1>3, <1>4, <1>5

(* What TypeOK says of the packet.                                          *)
LEMMA Bytes ==
    ASSUME TypeOK
    PROVE  /\ Len(packet) \in Nat
           /\ DOMAIN packet = 1 .. Len(packet)
           /\ Len(packet) = 0 <=> Between
           /\ \A i \in 1 .. Len(packet) : packet[i] \in Headers \cup {Plain}
<1>1. CASE packet = <<>>
  BY <1>1, EmptySeq, LenProperties DEF Between
<1>2. CASE packet \in Packets
  <2>1. packet \in Seq(Headers \cup {Plain}) /\ Len(packet) \in 1 .. MaxBytes /\ packet # <<>>
    BY <1>2, PacketType
  <2>2. DOMAIN packet = 1 .. Len(packet) /\ Len(packet) \in Nat
    BY <2>1, LenProperties
  <2>. QED BY <2>1, <2>2, <1>2, PacketType, FramingAssumption DEF Between
<1>. QED BY <1>1, <1>2 DEF TypeOK

LEMMA HeaderType ==
    ASSUME TypeOK, NEW i \in 1 .. Len(packet), packet[i] # Plain
    PROVE  /\ packet[i] \in Headers
           /\ packet[i].length \in Nat /\ packet[i].length >= HeaderBytes
           /\ packet[i].length >= 1
           /\ packet[i].rate \in Nat \ {0} /\ packet[i].channels \in 1 .. 2
<1>1. packet[i] \in Headers
  BY Bytes
<1>. QED BY <1>1, FramingAssumption

(* The search stops at the first syncword that is left.                     *)
LEMMA SyncIsFirst ==
    ASSUME TypeOK, Syncwords # {}
    PROVE  /\ Sync \in offset + 1 .. Len(packet)
           /\ Sync \in 1 .. Len(packet)
           /\ packet[Sync] # Plain
           /\ \A i \in offset + 1 .. Sync - 1 : packet[i] = Plain
<1>1. Syncwords \subseteq Nat
  BY Bytes DEF Syncwords, TypeOK
<1>2. Sync \in Syncwords /\ \A j \in Syncwords : Sync <= j
  BY <1>1, EarliestIsLeast DEF Sync
<1>3. offset \in Nat /\ Len(packet) \in Nat
  BY Bytes DEF TypeOK
<1>. QED BY <1>2, <1>3 DEF Syncwords

-----------------------------------------------------------------------------
(* The inductive invariant. *)

(* The part of FramesFound that holds before the packet is used up: of what *)
(* was consumed, nothing undamaged was missed.                              *)
Searched ==
    \A i \in 1 .. offset :
        Whole(i) => \/ i \in found \/ Inside(i)
                    \/ \E k \in 1 .. i - 1 : Liar(k) /\ ~Inside(k)

(* Of the decoder's calls.                                                  *)
Counted == IsFiniteSet(found) /\ WorkIsBounded

(* A packet is taken apart only by a decoder that is there.                 *)
RunsReady == ~Between => ready

DecoderInv ==
    /\ RunsReady
    /\ TypeOK /\ FramesDisjoint /\ Searched /\ Counted /\ FormatIsOfLastFrame
    /\ Between => found = {} /\ offset = 0

-----------------------------------------------------------------------------
(* Between packets only the wrapper's own state changes.                    *)

LEMMA WrapperStep ==
    ASSUME DecoderInv, UNCHANGED scan, Between,
           ready' \in BOOLEAN, stride' \in 1 .. 2, streamed' \in 0 .. 2,
           format' \in [rate : Nat, channels : 0 .. 2],
           format' # NoFormat => UNCHANGED decoder
    PROVE  DecoderInv'
<1>1. TypeOK' /\ FramesDisjoint' /\ Searched' /\ Counted'
  BY DEF DecoderInv, scan, TypeOK, FramesDisjoint, Searched, Counted, WorkIsBounded,
         Whole, Inside, Span, Liar
<1>2. FormatIsOfLastFrame'
  BY DEF DecoderInv, scan, decoder, FormatIsOfLastFrame
<1>. QED BY <1>1, <1>2 DEF DecoderInv, RunsReady, scan, Between

LEMMA WrapperKeeps ==
    ASSUME DecoderInv, Begin \/ End \/ \E channels \in 0 .. 2 : Reset(channels)
    PROVE  DecoderInv'
<1>1. NoFormat \in [rate : Nat, channels : 0 .. 2]
  BY DEF NoFormat
<1>2. UNCHANGED scan /\ Between
  BY DEF Begin, End, Reset
<1>3. /\ ready' \in BOOLEAN /\ stride' \in 1 .. 2 /\ streamed' \in 0 .. 2
      /\ format' \in [rate : Nat, channels : 0 .. 2]
      /\ format' # NoFormat => UNCHANGED decoder
  <2>1. CASE Begin
    <3>1. ready' \in BOOLEAN
      BY <2>1 DEF Begin, Cleared
    <3>2. stride' \in 1 .. 2 /\ streamed' \in 0 .. 2 /\ format' = NoFormat
      BY <2>1 DEF Begin, Cleared, DecoderInv, TypeOK
    <3>. QED BY <3>1, <3>2, <1>1
  <2>2. CASE End
    BY <2>2, <1>1 DEF End, DecoderInv, TypeOK
  <2>3. ASSUME NEW channels \in 0 .. 2, Reset(channels)
        PROVE  /\ ready' \in BOOLEAN /\ stride' \in 1 .. 2 /\ streamed' \in 0 .. 2
               /\ format' \in [rate : Nat, channels : 0 .. 2]
               /\ format' # NoFormat => UNCHANGED decoder
    <3>1. CASE ready
      <4>1. Stride(channels) \in 1 .. 2
        BY DEF Stride
      <4>2. Cleared(TRUE, Stride(channels))
        BY <2>3, <3>1 DEF Reset
      <4>3. /\ ready' \in BOOLEAN /\ stride' = Stride(channels)
            /\ streamed' = 0 /\ format' = NoFormat
        BY <4>2, Zenon DEF Cleared
      <4>. QED BY <4>1, <4>3, <1>1
    <3>2. CASE ~ready
      BY <2>3, <3>2 DEF Reset, DecoderInv, TypeOK, decoder
    <3>. QED BY <3>1, <3>2
  <2>. QED BY <2>1, <2>2, <2>3
<1>. QED BY <1>2, <1>3, WrapperStep

(* A new packet, or none.                                                   *)
LEMMA FreshPacket ==
    ASSUME DecoderInv, UNCHANGED decoder, packet' \in Packets \cup {<<>>},
           offset' = 0, found' = {}, calls' = 0, invalid' = 0,
           ready \/ packet' = <<>>
    PROVE  DecoderInv'
<1>1. Len(packet') \in Nat
  BY PacketType, EmptySeq, FramingAssumption
<1>2. TypeOK' /\ FramesDisjoint' /\ Searched'
  BY <1>1 DEF DecoderInv, TypeOK, decoder, FramesDisjoint, Searched
<1>3. Counted'
  BY FS_EmptySet DEF Counted, WorkIsBounded
<1>4. FormatIsOfLastFrame'
  BY DEF DecoderInv, decoder, FormatIsOfLastFrame
<1>. QED BY <1>2, <1>3, <1>4 DEF DecoderInv, RunsReady, Between, decoder

LEMMA PacketKeeps ==
    ASSUME DecoderInv, Finish \/ \E p \in Packets : Pop(p)
    PROVE  DecoderInv'
<1>1. /\ UNCHANGED decoder /\ packet' \in Packets \cup {<<>>}
      /\ offset' = 0 /\ found' = {} /\ calls' = 0 /\ invalid' = 0
  BY DEF Finish, Pop
<1>2. ready \/ packet' = <<>>
  BY DEF Finish, Pop
<1>. QED BY <1>1, <1>2, FreshPacket

-----------------------------------------------------------------------------
(* A call that finds no frame only moves the offset: to a place up to which *)
(* nothing undamaged was skipped.                                           *)

Behind(i) == \E k \in 1 .. i - 1 : Liar(k) /\ ~Inside(k)

LEMMA NoFrameStep ==
    ASSUME DecoderInv, UNCHANGED <<decoder, packet, found>>, ~Between,
           calls' = calls + 1, invalid' = invalid + 1,
           offset' \in offset + 1 .. Len(packet),
           \A i \in offset + 1 .. offset' : Whole(i) => Behind(i)
    PROVE  DecoderInv'
<1>1. offset \in Nat /\ Len(packet) \in Nat /\ calls \in Nat /\ invalid \in Nat
  BY Bytes DEF DecoderInv, TypeOK
<1>2. TypeOK'
  BY <1>1 DEF DecoderInv, TypeOK, decoder
<1>3. FramesDisjoint'
  <2>1. \A i \in found : packet[i].length \in Nat /\ i \in Nat
    BY HeaderType DEF DecoderInv, FramesDisjoint, Whole, TypeOK
  <2>2. \A i \in found : i + packet[i].length - 1 <= offset'
    BY <2>1, <1>1 DEF DecoderInv, FramesDisjoint
  <2>. QED BY <2>2, <1>1 DEF DecoderInv, FramesDisjoint, Whole, Span
<1>4. Searched'
  <2>1. ASSUME NEW i \in 1 .. offset', Whole(i)
        PROVE  i \in found \/ Inside(i) \/ Behind(i)
    <3>1. CASE i <= offset
      BY <3>1, <2>1, <1>1 DEF DecoderInv, Searched, Behind
    <3>2. CASE i > offset
      BY <3>2, <2>1, <1>1
    <3>. QED BY <3>1, <3>2, <1>1
  <2>. QED BY <2>1 DEF Searched, Behind, Whole, Inside, Liar, Span
<1>5. Counted'
  <2>1. calls' <= offset'
    BY <1>1 DEF DecoderInv, Counted, WorkIsBounded
  <2>2. Cardinality(found) \in Nat
    BY FS_CardinalityType DEF DecoderInv, Counted
  <2>3. calls' = invalid' + Cardinality(found')
    BY <1>1, <2>2 DEF DecoderInv, Counted, WorkIsBounded
  <2>. QED BY <2>1, <2>3 DEF DecoderInv, Counted, WorkIsBounded
<1>6. FormatIsOfLastFrame'
  BY DEF DecoderInv, FormatIsOfLastFrame, decoder
<1>. QED BY <1>2, <1>3, <1>4, <1>5, <1>6 DEF DecoderInv, RunsReady, Between, decoder

LEMMA SkipByteKeeps ==
    ASSUME DecoderInv, SkipByte
    PROVE  DecoderInv'
<1>1. offset \in Nat /\ Len(packet) \in Nat /\ TypeOK
  BY Bytes DEF DecoderInv, TypeOK
<1>2. offset' = offset + 1 /\ offset' \in offset + 1 .. Len(packet)
  BY <1>1 DEF SkipByte, Skipped, Scanning
<1>3. ~Whole(offset + 1)
  <2>1. SUFFICES ASSUME Whole(offset + 1) PROVE FALSE
    OBVIOUS
  <2>2. offset + 1 \in Syncwords
    BY <2>1, <1>1, <1>2 DEF Whole, Syncwords
  <2>3. Sync = offset + 1
    BY <2>2, <2>1, <1>1, SyncIsFirst DEF Whole
  <2>. QED BY <2>1, <2>2, <2>3 DEF SkipByte, Malformed, Whole
<1>. QED BY <1>1, <1>2, <1>3, NoFrameStep DEF SkipByte, Scanning

LEMMA GiveUpKeeps ==
    ASSUME DecoderInv, GiveUp
    PROVE  DecoderInv'
<1>1. offset \in Nat /\ Len(packet) \in Nat /\ TypeOK /\ offset < Len(packet)
  BY Bytes DEF DecoderInv, TypeOK, GiveUp, Scanning
<1>2. /\ Sync \in offset + 1 .. Len(packet) /\ Sync \in 1 .. Len(packet)
      /\ packet[Sync] # Plain
      /\ \A i \in offset + 1 .. Sync - 1 : packet[i] = Plain
  BY <1>1, SyncIsFirst DEF GiveUp, Incomplete
<1>3. packet[Sync].length \in Nat /\ Left < packet[Sync].length
  <2>1. packet[Sync].length \in Nat /\ packet[Sync].length >= HeaderBytes
    BY <1>1, <1>2, HeaderType
  <2>. QED BY <2>1, <1>1, <1>2, FramingAssumption DEF GiveUp, Incomplete, Left
<1>4. Sync + packet[Sync].length - 1 > Len(packet)
  BY <1>1, <1>2, <1>3 DEF Left
<1>5. Liar(Sync) /\ ~Whole(Sync)
  <2>1. DOMAIN packet = 1 .. Len(packet)
    BY <1>1, Bytes
  <2>2. Sync + packet[Sync].length - 1 \in Span(Sync)
    BY <1>1, <1>2, <1>3, <1>4 DEF Span
  <2>. QED BY <2>1, <2>2, <1>1, <1>2, <1>4 DEF Liar, Whole
<1>6. ~Inside(Sync)
  <2>1. \A f \in found : f + packet[f].length - 1 <= offset
    BY DEF DecoderInv, FramesDisjoint
  <2>2. \A f \in found : packet[f].length \in Nat /\ f \in Nat
    BY <1>1, HeaderType DEF DecoderInv, FramesDisjoint, Whole, TypeOK
  <2>. QED BY <2>1, <2>2, <1>1, <1>2 DEF Inside, Span
<1>7. \A i \in offset + 1 .. Len(packet) : Whole(i) => Behind(i)
  <2>1. TAKE i \in offset + 1 .. Len(packet)
  <2>2. HAVE Whole(i)
  <2>3. Sync < i
    BY <2>2, <1>1, <1>2, <1>5 DEF Whole
  <2>4. Sync \in 1 .. i - 1
    BY <2>3, <1>1, <1>2
  <2>. QED BY <2>4, <1>5, <1>6 DEF Behind
<1>8. offset' = Len(packet) /\ offset' \in offset + 1 .. Len(packet)
  BY <1>1 DEF GiveUp
<1>9. \A i \in offset + 1 .. offset' : Whole(i) => Behind(i)
  BY <1>7, <1>8
<1>. QED BY <1>8, <1>9, NoFrameStep DEF GiveUp, Scanning
-----------------------------------------------------------------------------
(* A frame is found. *)

LEMMA Consumes ==
    ASSUME DecoderInv, DecodeFrame
    PROVE  /\ Sync \in offset + 1 .. Len(packet) /\ packet[Sync] # Plain
           /\ \A i \in offset + 1 .. Sync - 1 : packet[i] = Plain
           /\ packet[Sync].length \in Nat \ {0}
           /\ offset' = Sync + packet[Sync].length - 1
           /\ offset' \in Sync .. Len(packet)
           /\ Whole(Sync)
           /\ format'.rate = packet[Sync].rate
<1>1. offset \in Nat /\ Len(packet) \in Nat /\ TypeOK /\ Syncwords # {}
  BY Bytes DEF DecoderInv, TypeOK, DecodeFrame, Decodable
<1>2. /\ Sync \in offset + 1 .. Len(packet) /\ Sync \in 1 .. Len(packet)
      /\ packet[Sync] # Plain
      /\ \A i \in offset + 1 .. Sync - 1 : packet[i] = Plain
  BY <1>1, SyncIsFirst
<1>3. packet[Sync].length \in Nat \ {0}
  BY <1>1, <1>2, HeaderType
<1>4. Left >= packet[Sync].length /\ packet[Sync].intact
  BY <1>1, <1>2, <1>3 DEF DecodeFrame, Decodable, Incomplete, Left
<1>5. Sync + packet[Sync].length - 1 <= Len(packet)
  BY <1>1, <1>2, <1>3, <1>4 DEF Left
<1>6. offset' = Sync + packet[Sync].length - 1
  BY <1>1, <1>2, <1>3 DEF DecodeFrame, Consumed
<1>7. Whole(Sync)
  <2>1. DOMAIN packet = 1 .. Len(packet)
    BY <1>1, Bytes
  <2>. QED BY <2>1, <1>1, <1>2, <1>3, <1>4, <1>5 DEF Whole, Span
<1>8. format'.rate = packet[Sync].rate
  BY DEF DecodeFrame
<1>. QED BY <1>1, <1>2, <1>3, <1>5, <1>6, <1>7, <1>8

LEMMA DecodeFrameKeeps ==
    ASSUME DecoderInv, DecodeFrame
    PROVE  DecoderInv'
<1>1. offset \in Nat /\ Len(packet) \in Nat /\ calls \in Nat /\ invalid \in Nat /\ TypeOK
  BY Bytes DEF DecoderInv, TypeOK
<1>2. /\ Sync \in offset + 1 .. Len(packet) /\ packet[Sync] # Plain
      /\ \A i \in offset + 1 .. Sync - 1 : packet[i] = Plain
      /\ packet[Sync].length \in Nat \ {0}
      /\ offset' = Sync + packet[Sync].length - 1
      /\ offset' \in Sync .. Len(packet)
      /\ Whole(Sync)
      /\ format'.rate = packet[Sync].rate
  BY Consumes
<1>3. /\ found' = found \cup {Sync} /\ calls' = calls + 1
      /\ UNCHANGED <<ready, stride, packet, invalid>> /\ ~Between
      /\ format' = [rate |-> packet[Sync].rate, channels |-> stride]
      /\ streamed' = packet[Sync].channels
  BY DEF DecodeFrame, Scanning
<1>4. packet[Sync].rate \in Nat \ {0} /\ packet[Sync].channels \in 1 .. 2
  BY <1>1, <1>2, HeaderType
<1>5. \A f \in found : /\ f \in 1 .. offset /\ packet[f].length \in Nat
                       /\ f + packet[f].length - 1 <= offset
                       /\ packet[f].length # 0
  <2>1. TAKE f \in found
  <2>2. f \in 1 .. Len(packet) /\ Whole(f) /\ f + packet[f].length - 1 <= offset
    BY <1>1 DEF TypeOK, DecoderInv, FramesDisjoint
  <2>3. packet[f].length \in Nat /\ packet[f].length >= 1
    BY <2>2, <1>1, HeaderType DEF Whole
  <2>. QED BY <2>2, <2>3, <1>1
<1>6. TypeOK'
  <2>1. format' \in [rate : Nat, channels : 0 .. 2]
    BY <1>1, <1>3, <1>4 DEF TypeOK
  <2>2. found' \subseteq 1 .. Len(packet)
    BY <1>1, <1>2, <1>3 DEF TypeOK
  <2>3. offset' \in Nat /\ calls' \in Nat
    BY <1>1, <1>2, <1>3
  <2>. QED BY <2>1, <2>2, <2>3, <1>1, <1>3, <1>4 DEF TypeOK
<1>7. FramesDisjoint'
  <2>1. \A i \in found' : Whole(i)
    BY <1>2, <1>3 DEF DecoderInv, FramesDisjoint
  <2>2. \A i \in found' : i + packet[i].length - 1 <= offset'
    BY <1>1, <1>2, <1>3, <1>5
  <2>3. \A i, j \in found' : i < j => i + packet[i].length <= j
    <3>1. TAKE i, j \in found'
    <3>2. HAVE i < j
    <3>3. CASE j = Sync
      BY <3>2, <3>3, <1>1, <1>2, <1>3, <1>5
    <3>4. CASE j \in found
      <4>1. i \in found
        BY <3>2, <3>4, <1>1, <1>2, <1>3, <1>5
      <4>. QED BY <4>1, <3>2, <3>4 DEF DecoderInv, FramesDisjoint
    <3>. QED BY <3>3, <3>4, <1>3
  <2>4. offset' <= Len(packet)
    BY <1>1, <1>2
  <2>. QED BY <2>1, <2>2, <2>3, <2>4, <1>3 DEF FramesDisjoint, Whole, Span
<1>8. Searched'
  <2>1. \A k \in 1 .. offset : Sync # k /\ k \notin Span(Sync)
    BY <1>1, <1>2 DEF Span
  <2>2. ASSUME NEW i \in 1 .. offset', Whole(i)
        PROVE  \/ i \in found' \/ \E f \in found' : f # i /\ i \in Span(f)
               \/ \E k \in 1 .. i - 1 :
                     Liar(k) /\ ~ \E f \in found' : f # k /\ k \in Span(f)
    <3>1. CASE i <= offset
      <4>1. i \in 1 .. offset
        BY <3>1, <1>1
      <4>2. CASE i \in found \/ Inside(i)
        BY <4>2, <1>3 DEF Inside
      <4>3. ASSUME NEW k \in 1 .. i - 1, Liar(k), ~Inside(k)
            PROVE  ~ \E f \in found' : f # k /\ k \in Span(f)
        <5>1. k \in 1 .. offset
          BY <4>1, <1>1
        <5>. QED BY <5>1, <4>3, <2>1, <1>3 DEF Inside
      <4>. QED BY <4>1, <4>2, <4>3, <2>2 DEF DecoderInv, Searched
    <3>2. CASE i \in offset + 1 .. Sync - 1
      BY <3>2, <1>2, <2>2 DEF Whole
    <3>3. CASE i = Sync
      BY <3>3, <1>3
    <3>4. CASE i \in Sync + 1 .. offset'
      <4>1. i \in Span(Sync)
        BY <3>4, <1>1, <1>2 DEF Span
      <4>2. i # Sync
        BY <3>4, <1>1, <1>2
      <4>. QED BY <4>1, <4>2, <1>3
    <3>. QED BY <3>1, <3>2, <3>3, <3>4, <1>1, <1>2
  <2>. QED BY <2>2, <1>3 DEF Searched, Whole, Inside, Liar, Span
<1>9. Counted'
  <2>1. Sync \notin found
    BY <1>1, <1>2, <1>5
  <2>2. IsFiniteSet(found') /\ Cardinality(found') = Cardinality(found) + 1
    BY <2>1, <1>3, FS_AddElement DEF DecoderInv, Counted
  <2>3. Cardinality(found) \in Nat
    BY FS_CardinalityType DEF DecoderInv, Counted
  <2>4. calls <= offset /\ calls = invalid + Cardinality(found)
    BY DEF DecoderInv, Counted, WorkIsBounded
  <2>5. calls' <= offset'
    BY <2>4, <1>1, <1>2, <1>3
  <2>6. calls' = invalid' + Cardinality(found')
    BY <2>2, <2>3, <2>4, <1>1, <1>3
  <2>. QED BY <2>2, <2>5, <2>6 DEF Counted, WorkIsBounded
<1>10. FormatIsOfLastFrame'
  <2>1. ASSUME NEW i \in found', \A j \in found' : j <= i
        PROVE  format'.rate = packet[i].rate
    <3>1. i = Sync
      BY <2>1, <1>1, <1>2, <1>3, <1>5
    <3>. QED BY <3>1, <1>2
  <2>2. ready' /\ format'.channels = stride' /\ streamed' # 0
    <3>1. ready
      BY <1>3 DEF DecoderInv, RunsReady
    <3>. QED BY <3>1, <1>3, <1>4
  <2>. QED BY <2>1, <2>2, <1>3 DEF FormatIsOfLastFrame
<1>. QED BY <1>3, <1>6, <1>7, <1>8, <1>9, <1>10 DEF DecoderInv, Between, RunsReady

-----------------------------------------------------------------------------

LEMMA InvInit == Init => DecoderInv
<1>1. SUFFICES ASSUME Init PROVE DecoderInv
  OBVIOUS
<1>2. Len(<<>>) = 0 /\ DOMAIN <<>> = {}
  BY EmptySeq
<1>3. TypeOK
  <2>1. ready \in BOOLEAN
    BY <1>1 DEF Init
  <2>2. stride \in 1 .. 2 /\ streamed \in 0 .. 2 /\ offset \in Nat /\ calls \in Nat
        /\ invalid \in Nat
    BY <1>1 DEF Init
  <2>3. format \in [rate : Nat, channels : 0 .. 2]
    BY <1>1 DEF Init, NoFormat
  <2>4. packet \in Packets \cup {<<>>} /\ found \subseteq 1 .. Len(packet)
    BY <1>1 DEF Init
  <2>. QED BY <2>1, <2>2, <2>3, <2>4 DEF TypeOK
<1>4. FramesDisjoint /\ Searched
  BY <1>1, <1>2 DEF Init, FramesDisjoint, Searched
<1>5. Counted
  BY <1>1, FS_EmptySet DEF Init, Counted, WorkIsBounded
<1>6. FormatIsOfLastFrame /\ RunsReady /\ (Between => found = {} /\ offset = 0)
  BY <1>1 DEF Init, FormatIsOfLastFrame, RunsReady, Between
<1>. QED BY <1>3, <1>4, <1>5, <1>6 DEF DecoderInv

LEMMA InvNext == DecoderInv /\ [Next]_vars => DecoderInv'
<1>1. SUFFICES ASSUME DecoderInv, [Next]_vars PROVE DecoderInv'
  OBVIOUS
<1>2. CASE Begin \/ End \/ \E channels \in 0 .. 2 : Reset(channels)
  BY <1>1, <1>2, WrapperKeeps
<1>3. CASE Finish \/ \E p \in Packets : Pop(p)
  BY <1>1, <1>3, PacketKeeps
<1>4. CASE DecodeFrame
  BY <1>1, <1>4, DecodeFrameKeeps
<1>5. CASE SkipByte
  BY <1>1, <1>5, SkipByteKeeps
<1>6. CASE GiveUp
  BY <1>1, <1>6, GiveUpKeeps
<1>7. CASE UNCHANGED vars
  BY <1>1, <1>7 DEF DecoderInv, RunsReady, vars, decoder, scan, TypeOK, FramesDisjoint, Searched,
       Counted, WorkIsBounded, FormatIsOfLastFrame, Between, Whole, Inside, Liar, Span
<1>. QED BY <1>1, <1>2, <1>3, <1>4, <1>5, <1>6, <1>7 DEF Next, Scan

LEMMA InvHolds == Spec => []DecoderInv
<1>. QED BY InvInit, InvNext, PTL DEF Spec

(* Every reachable state of the decoder is well typed.                      *)
THEOREM TypeCorrect == Spec => []TypeOK
<1>1. DecoderInv => TypeOK
  BY DEF DecoderInv
<1>. QED BY <1>1, InvHolds, PTL

(* decodeFrame() stays inside every packet, and no byte belongs to two of   *)
(* the frames it finds there.                                               *)
THEOREM FramesAreDisjoint == Spec => []FramesDisjoint
<1>1. DecoderInv => FramesDisjoint
  BY DEF DecoderInv
<1>. QED BY <1>1, InvHolds, PTL

(* Whatever damage a packet has, the loop of update() decodes each of its   *)
(* undamaged frames, up to a header that claims too much.                   *)
THEOREM FramesFoundUnlessMisled == Spec => []FramesFound
<1>1. DecoderInv => FramesFound
  <2>1. SUFFICES ASSUME DecoderInv, ~Between, ~Scanning, NEW i \in DOMAIN packet, Whole(i)
                 PROVE  \/ i \in found \/ Inside(i)
                        \/ \E k \in 1 .. i - 1 : Liar(k) /\ ~Inside(k)
    BY DEF FramesFound
  <2>2. offset = Len(packet)
    BY <2>1, Bytes DEF DecoderInv, Scanning, FramesDisjoint, TypeOK
  <2>3. i \in 1 .. offset
    BY <2>1, <2>2, Bytes DEF DecoderInv
  <2>. QED BY <2>1, <2>3 DEF DecoderInv, Searched
<1>. QED BY <1>1, InvHolds, PTL

(* update() calls the decoder at most once for each byte of a packet, and   *)
(* counts each call that decoded nothing.                                   *)
THEOREM PacketsCostTheirLength == Spec => []WorkIsBounded
<1>1. DecoderInv => WorkIsBounded
  BY DEF DecoderInv, Counted
<1>. QED BY <1>1, InvHolds, PTL

(* format() is that of the last frame, in the layout that reset() chose.    *)
THEOREM FormatFollowsFrames == Spec => []FormatIsOfLastFrame
<1>1. DecoderInv => FormatIsOfLastFrame
  BY DEF DecoderInv
<1>. QED BY <1>1, InvHolds, PTL
=============================================================================
