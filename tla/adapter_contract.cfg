\* One peer at a time, events in order, every allocation may fail, one of the
\* two MTUs is larger than what was configured.
SPECIFICATION FairSpec
CONSTANTS
    Peers = {1, 2}
    Codecs <- TwoCodecs
    Mtus = {1, 2}
    Configured = {1}
    Room = 2
    OnePeer = TRUE
    AttachAnytime = FALSE
    MaxPending = 2
INVARIANTS
    TypeOK
    EndIsABarrier
    DetachedIsQuiet
    InSync
    OneSession
PROPERTIES
    CodecArrives
    CallsReturn
