\* DropOldest, everything in one loop.
SPECIFICATION Spec
CONSTANTS
    Kinds <- KindsPlain
    Bytes <- PlainLengths
    Items <- PlainContents
    Timestamps = {1}
    Rates = {"r44", "r48"}
    Negotiations <- StereoOnly
    Configs <- OldestOnly
    Updaters = {u1}
    Together <- SingleLoop
    FramePcm = 2
    ScratchFrames = 2
    ReadSizes = {1, 3}
    HeaderBytes = 2
    MaxPacketBytes = 4
    WordMod = 32
    MaxPushes = 2
    MaxSessions = 2
INVARIANTS
    OldestIsNotReplayed
