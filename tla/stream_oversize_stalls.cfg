\* A packet longer than maximumPacketBytes that the queue can store.
SPECIFICATION FairSpec
CONSTANTS
    Kinds <- KindsWithLong
    Bytes <- LongLengths
    Items <- LongContents
    Timestamps = {1}
    Rates = {"r44", "r48"}
    Negotiations <- StereoOnly
    Configs <- WideOnly
    Updaters = {u1}
    Together <- SingleLoop
    FramePcm = 2
    ScratchFrames = 2
    ReadSizes = {3}
    HeaderBytes = 2
    MaxPacketBytes = 4
    WordMod = 32
    MaxPushes = 2
    MaxSessions = 2
PROPERTIES
    PacketsLeave
