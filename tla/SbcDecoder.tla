----------------------------- MODULE SbcDecoder -----------------------------
(***************************************************************************)
(* src/SbcDecoder.{h,cpp}, the framing of the SBC codec under it           *)
(* (OI_CODEC_SBC_DecodeFrame), and the loop of A2dpSinkStream::update()    *)
(* that takes one packet apart.                                            *)
(*                                                                         *)
(* A byte of a packet is either Plain or equal to the syncword; a syncword *)
(* byte stands for the header that the decoder would read there: the frame *)
(* length it computes, whether checksum and bitpool are in order, and the  *)
(* sample rate and channels it names.  A syncword may be that of a frame,  *)
(* of a damaged one, or a byte of audio that happens to look like one.     *)
(***************************************************************************)
EXTENDS Integers, Sequences, FiniteSets

CONSTANTS
    Headers,     \* what may follow a syncword: [length, intact, rate, channels]
    HeaderBytes, \* SBC_HEADER_LEN
    MaxBytes     \* bound: bytes of a packet

Plain   == [length |-> 0, intact |-> FALSE, rate |-> 0, channels |-> 0]
Packets == UNION {[1 .. n -> Headers \cup {Plain}] : n \in 1 .. MaxBytes}

ASSUME FramingAssumption ==
    /\ HeaderBytes \in Nat \ {0} /\ MaxBytes \in Nat
    /\ Headers \subseteq [length : Nat, intact : BOOLEAN, rate : Nat \ {0}, channels : 1 .. 2]
    /\ \A h \in Headers : h.length >= HeaderBytes

VARIABLES
    ready,    \* decoderData_ is allocated
    stride,   \* pcmStride_
    format,   \* format_: [rate, channels]
    streamed, \* streamChannels_
    packet,   \* the packet update() has popped; empty when there is none
    offset,   \* the bytes of it that were consumed
    found,    \* history: the frames decoded from it, by where they begin
    calls,    \* history: calls of decodeFrame() for it
    invalid   \* history: how often it was counted as an invalid frame

decoder == <<ready, stride, format, streamed>>
scan    == <<packet, offset, found, calls, invalid>>
vars    == <<decoder, scan>>

NoFormat == [rate |-> 0, channels |-> 0]

-----------------------------------------------------------------------------
(* begin(), end() and reset(): the wrapper's own state.  Between packets.   *)

Between == packet = <<>>

Cleared(on, interleave) ==
    /\ ready' = on /\ stride' = interleave
    /\ format' = NoFormat /\ streamed' = 0

Begin ==
    /\ Between
    /\ \/ Cleared(TRUE, 2)
       \/ ready' = FALSE /\ format' = NoFormat /\ UNCHANGED <<stride, streamed>>
    /\ UNCHANGED scan

EndKeepsFormat ==
    /\ Between
    /\ ready' = FALSE
    /\ UNCHANGED <<stride, streamed, format, scan>>

End ==
    /\ Between
    /\ ready' = FALSE /\ format' = NoFormat
    /\ UNCHANGED <<stride, streamed, scan>>

StrideAsGiven(channels) == channels
Stride(channels)        == IF channels = 1 THEN 1 ELSE 2

Reset(channels) ==
    /\ Between
    /\ IF ready THEN Cleared(TRUE, Stride(channels)) ELSE UNCHANGED decoder
    /\ UNCHANGED scan

-----------------------------------------------------------------------------
(* OI_CODEC_SBC_DecodeFrame() on what is left of the packet. *)

Earliest(S) == CHOOSE i \in S : \A j \in S : i <= j

(* FindSyncword() *)
Syncwords == {i \in offset + 1 .. Len(packet) : packet[i] # Plain}
Sync      == Earliest(Syncwords)
Left      == Len(packet) - Sync + 1

(* Lines 257-297: the header, then all that it says the frame has.          *)
IncompleteHeader == Syncwords # {} /\ Left < HeaderBytes
Incomplete == Syncwords # {} /\ (Left < HeaderBytes \/ Left < packet[Sync].length)

(* Lines 299-318: no syncword at all, or a header whose checksum or bitpool *)
(* is wrong.                                                                *)
Malformed == Syncwords # {} => ~Incomplete /\ ~packet[Sync].intact
Decodable == Syncwords # {} /\ ~Incomplete /\ packet[Sync].intact

(* decodeFrame(): where the frame ends, counted from the offset, with the   *)
(* bytes before its syncword; or the one byte skipped.                      *)
Consumed == Sync - (offset + 1) + packet[Sync].length
SkippedHeader == 2
Skipped  == 1

-----------------------------------------------------------------------------
(* update(): one packet. *)

Pop(p) ==
    /\ Between /\ ready
    /\ packet' = p /\ offset' = 0 /\ found' = {} /\ calls' = 0 /\ invalid' = 0
    /\ UNCHANGED decoder

Scanning == ~Between /\ offset < Len(packet)

DecodeFrame ==
    /\ Scanning /\ Decodable
    /\ offset' = offset + Consumed
    /\ found' = found \cup {Sync} /\ calls' = calls + 1
    /\ format' = [rate |-> packet[Sync].rate, channels |-> stride]
    /\ streamed' = packet[Sync].channels
    /\ UNCHANGED <<ready, stride, packet, invalid>>

SkipByteUncounted ==
    /\ Scanning /\ Malformed
    /\ offset' = offset + Skipped
    /\ calls' = calls + 1
    /\ UNCHANGED <<decoder, packet, found, invalid>>

SkipByte ==
    /\ Scanning /\ Malformed
    /\ offset' = offset + Skipped
    /\ calls' = calls + 1 /\ invalid' = invalid + 1
    /\ UNCHANGED <<decoder, packet, found>>

GiveUpWaits == Scanning /\ Incomplete /\ UNCHANGED vars

(* What is left is given up as a frame cut short. *)
GiveUp ==
    /\ Scanning /\ Incomplete
    /\ offset' = Len(packet)
    /\ calls' = calls + 1 /\ invalid' = invalid + 1
    /\ UNCHANGED <<decoder, packet, found>>

Finish ==
    /\ ~Between /\ ~Scanning
    /\ packet' = <<>> /\ offset' = 0 /\ found' = {} /\ calls' = 0 /\ invalid' = 0
    /\ UNCHANGED decoder

Scan == DecodeFrame \/ SkipByte \/ GiveUp \/ Finish

Init ==
    /\ ready = FALSE /\ stride = 2 /\ format = NoFormat /\ streamed = 0
    /\ packet = <<>> /\ offset = 0 /\ found = {} /\ calls = 0 /\ invalid = 0

Next ==
    \/ Begin \/ End \/ \E channels \in 0 .. 2 : Reset(channels)
    \/ \E p \in Packets : Pop(p)
    \/ Scan

Spec == Init /\ [][Next]_vars

(* update() loops until the packet is used up. *)
FairSpec == Spec /\ WF_vars(Scan)

-----------------------------------------------------------------------------
(* Properties. *)

TypeOK ==
    /\ ready \in BOOLEAN /\ stride \in 1 .. 2 /\ streamed \in 0 .. 2
    /\ format \in [rate : Nat, channels : 0 .. 2]
    /\ packet \in Packets \cup {<<>>}
    /\ offset \in Nat /\ calls \in Nat /\ invalid \in Nat
    /\ found \subseteq 1 .. Len(packet)

Span(i)     == i .. i + packet[i].length - 1
Whole(i)    == packet[i] # Plain /\ packet[i].intact /\ Span(i) \subseteq DOMAIN packet
Inside(i)   == \E f \in found : f # i /\ i \in Span(f)
Liar(i)     == packet[i] # Plain /\ ~(Span(i) \subseteq DOMAIN packet)

(* The decoder never looks past the packet, and never reads a byte into two *)
(* frames: it consumed each frame it found whole, and no more than there is.*)
FramesDisjoint ==
    /\ offset <= Len(packet)
    /\ \A i \in found : Whole(i) /\ i + packet[i].length - 1 <= offset
    /\ \A i, j \in found : i < j => i + packet[i].length <= j

(* After damage the decoder "resynchronizes on the next" syncword           *)
(* (SbcDecoder.h:61-62), as far as headers are honest about their length:   *)
(* at the end of a packet every undamaged frame was decoded, unless it      *)
(* begins inside one that was, or behind a syncword whose header claims     *)
(* more than the packet holds (that is given up; see EveryFrameFound).      *)
FramesFound ==
    ~Between /\ ~Scanning =>
        \A i \in DOMAIN packet :
            Whole(i) => \/ i \in found \/ Inside(i)
                        \/ \E k \in 1 .. i - 1 : Liar(k) /\ ~Inside(k)

(* The same of every undamaged frame, wherever false syncwords stand: the   *)
(* codec means not to "require we have the whole frame", so that "bogus     *)
(* header data" does not hold up the frames behind it                       *)
(* (decoder-sbc.c:286-291, before the test of lines 293-297).               *)
EveryFrameFound ==
    ~Between /\ ~Scanning =>
        \A i \in DOMAIN packet : Whole(i) => i \in found \/ Inside(i)

(* One packet costs at most one call of the decoder for each of its bytes,  *)
(* and each call that found no frame was counted.                           *)
WorkIsBounded ==
    calls <= offset /\ calls = invalid + Cardinality(found)

(* format() describes the last frame decoded since reset(), in the layout   *)
(* asked for at the last reset(): none before, and none when end() or a     *)
(* failed begin() has taken the decoder away.                               *)
FormatIsOfLastFrame ==
    format # NoFormat =>
        /\ ready /\ format.channels = stride /\ streamed # 0
        /\ \A i \in found : (\A j \in found : j <= i) => format.rate = packet[i].rate

(* update() comes to the end of every packet. *)
PacketEnds == ~Between ~> Between
=============================================================================
