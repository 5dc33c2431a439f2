\* The adapter may be attached between the codec and the connection.
SPECIFICATION Spec
CONSTANTS
    Peers = {1, 2}
    Codecs <- TwoCodecs
    Mtus = {1, 2}
    Configured = {1}
    Room = 2
    OnePeer = TRUE
    AttachAnytime = TRUE
    MaxPending = 2
INVARIANT
    InSync
