\* The loop of the application beside the Bluetooth task; a second task calls
\* update() at any time as well; both overflow policies.
SPECIFICATION FairSpec
CONSTANTS
    Kinds <- KindsAll
    Bytes <- AllLengths
    Items <- AllContents
    Timestamps = {1}
    Rates = {"r44", "r48"}
    Negotiations <- AllNegotiations
    Configs <- BothPolicies
    Updaters = {u1, u2}
    Together <- TwoUpdates
    FramePcm = 2
    ScratchFrames = 2
    ReadSizes = {2}
    HeaderBytes = 2
    MaxPacketBytes = 4
    WordMod = 32
    MaxPushes = 2
    MaxSessions = 3
INVARIANTS
    TypeOK
    LayoutAgrees
    NoStaleSession
    NewestKeepsOrder
    FramesAccounted
    LossIsNeeded
    OneUpdater
PROPERTIES
    ImplementsSink
    PacketsLeave
