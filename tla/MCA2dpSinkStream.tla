-------------------------- MODULE MCA2dpSinkStream --------------------------
(***************************************************************************)
(* Small instances of A2dpSinkStream.  An SBC frame decodes to two PCM     *)
(* frames; a packet holds one frame, two, or bytes that are no frame.      *)
(***************************************************************************)
EXTENDS A2dpSinkStream

(* One byte stands for one frame or one malformed stretch.                  *)
Lengths  == [one |-> 1, pair |-> 2, noise |-> 2, cut |-> 1, long |-> 3]
Contents == [one |-> <<"r48">>, pair |-> <<"r48", "r44">>, noise |-> <<Bad, "r48">>,
             cut |-> <<Cut>>, long |-> <<"r48">>]

Sbc(rate, channels) == [codec |-> "Sbc", sampleRate |-> rate, channels |-> channels]

Stereo   == Sbc("r48", 2)
Mono     == Sbc("r48", 1)
NoSpeed  == Sbc(NoRate, 2)
Unknown  == [codec |-> "Other", sampleRate |-> "r48", channels |-> 1]

Config(bytes, frames, packet, policy) ==
    [queueBytes |-> bytes, pcmFrames |-> frames, maxPacket |-> packet, policy |-> policy]

(* A ring of three PCM frames, one frame and a half.                        *)
Newest  == Config(6, 3, 2, "DropNewest")
Oldest  == Config(6, 3, 2, "DropOldest")
Wide    == Config(8, 5, 2, "DropOldest")
Large   == Config(8, 6, 2, "DropOldest")
Narrow  == Config(8, 1, 2, "DropOldest")
Refused == Config(3, 3, 2, "DropNewest")

KindsAll      == {"pair", "noise", "cut"}
KindsPlain    == {"one", "pair"}
KindsWithLong == {"one", "cut", "long"}

LengthsOf(kinds)  == [k \in kinds |-> Lengths[k]]
ContentsOf(kinds) == [k \in kinds |-> Contents[k]]

AllLengths     == LengthsOf(KindsAll)
AllContents    == ContentsOf(KindsAll)
PlainLengths   == LengthsOf(KindsPlain)
PlainContents  == ContentsOf(KindsPlain)
LongLengths    == LengthsOf(KindsWithLong)
LongContents   == ContentsOf(KindsWithLong)

BothPolicies == {Newest, Oldest, Refused}
NewestOnly   == {Newest}
OldestOnly   == {Oldest}
LargeOnly    == {Large}
NarrowOnly   == {Narrow}
WideOnly     == {Wide}

AllNegotiations == {Stereo, Mono, NoSpeed, Unknown}
StereoOnly      == {Stereo}

SingleLoop      == {}
ReaderElsewhere == {{"update", "read"}}
ControlElsewhere == {{"update", "control"}}
TwoUpdates      == {{"update"}}
=============================================================================
