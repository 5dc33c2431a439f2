\* Three MTUs, two of them larger than what was configured: the stream may be
\* restarted twice, and each restart may fail to allocate.
SPECIFICATION Spec
CONSTANTS
    Peers = {1, 2}
    Codecs <- TwoCodecs
    Mtus = {1, 2, 3}
    Configured = {1}
    Room = 2
    OnePeer = TRUE
    AttachAnytime = FALSE
    MaxPending = 2
INVARIANT
    InSync
