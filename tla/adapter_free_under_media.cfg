\* A connection whose MTU is larger than what the stream was configured for.
SPECIFICATION Spec
CONSTANTS
    Peers = {1, 2}
    Codecs <- TwoCodecs
    Mtus = {1, 2}
    Configured = {1}
    Room = 2
    OnePeer = TRUE
    AttachAnytime = FALSE
    MaxPending = 2
INVARIANT
    NoUseAfterFree
